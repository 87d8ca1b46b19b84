--------------------------- MODULE SignalingCodec ---------------------------
(***************************************************************************)
(* PTP messages between their Go structs and their bytes (protocol.go,     *)
(* unicast.go), and the builders of the messages a client sends            *)
(* (requests.go).                                                          *)
(*                                                                         *)
(* A message is a record with its kind, sequence number, MessageLength and *)
(* TLVs.  Its bytes are abstracted to what decoding depends on: how many   *)
(* there are, the header's fields, and the TLV that starts at each offset. *)
(***************************************************************************)
EXTENDS Integers, Sequences, FiniteSets

HeaderSize == 34
PortIdentitySize == 10
TlvHeadSize == 4

\* Bytes of each TLV after its head.
TlvBody == [request |-> 6, grant |-> 8, cancel |-> 2, ack |-> 2]

\* Bytes of the messages of fixed size after their header.
FixedBody == [announce |-> 30, sync |-> 10, delayReq |-> 10, followUp |-> 10,
              delayResp |-> 20]

Error == [kind |-> "error"]

Tlv(type, for, duration) ==
  [type |-> type, for |-> for, duration |-> duration, length |-> TlvBody[type]]

\* Builders.  SetSequence writes the sequence number just before sending.
Signaling(tlv, seq) ==
  [kind |-> "signaling", seq |-> seq, tlvs |-> <<tlv>>,
   messageLength |-> HeaderSize + PortIdentitySize + TlvHeadSize + TlvBody[tlv.type]]

reqUnicast(for, duration, seq) == Signaling(Tlv("request", for, duration), seq)

\* The struct is the acknowledgement's, the type written into its head is the
\* cancellation's.
reqAckCancelUnicast(for) == Signaling([Tlv("ack", for, 0) EXCEPT !.type = "cancel"], 0)

reqDelay(seq) ==
  [kind |-> "delayReq", seq |-> seq, messageLength |-> HeaderSize + FixedBody["delayReq"]]

-----------------------------------------------------------------------------
\* The offset of the i-th TLV, or of the end: the ones before it take the bytes
\* their MarshalBinaryTo writes.
TlvOffset(tlvs, i) ==
  LET offset[k \in 1..(Len(tlvs) + 1)] ==
        IF k = 1 THEN HeaderSize + PortIdentitySize
                 ELSE offset[k - 1] + TlvHeadSize + TlvBody[tlvs[k - 1].type]
  IN  offset[i]

\* Bytes: the message followed by two zero bytes.
Bytes(m) ==
  IF m.kind # "signaling"
  THEN [kind |-> m.kind, seq |-> m.seq, messageLength |-> m.messageLength,
        bytes |-> HeaderSize + FixedBody[m.kind] + 2, at |-> <<>>]
  ELSE IF m.tlvs = <<>> THEN Error
  ELSE LET tlvs == m.tlvs
       IN  [kind |-> m.kind, seq |-> m.seq, messageLength |-> m.messageLength,
            bytes |-> TlvOffset(tlvs, Len(tlvs) + 1) + 2,
            at |-> [pos \in {TlvOffset(tlvs, i) : i \in DOMAIN tlvs} |->
                      tlvs[CHOOSE i \in DOMAIN tlvs : TlvOffset(tlvs, i) = pos]]]

\* The TLVs from an offset on, as far as MessageLength says there is a head.
\* Bytes that start no TLV of a known type end the reading with an error.
TlvsFrom(b, first) ==
  LET read[pos \in Nat] ==
        IF pos + TlvHeadSize > b.messageLength THEN <<>>
        ELSE IF pos \notin DOMAIN b.at THEN <<Error>>
        ELSE <<b.at[pos]>> \o read[pos + TlvHeadSize + b.at[pos].length]
  IN  read[first]

FromBytes(b) ==
  IF b.kind # "signaling"
  THEN IF b.bytes < HeaderSize + FixedBody[b.kind] THEN Error
       ELSE [kind |-> b.kind, seq |-> b.seq, messageLength |-> b.messageLength]
  ELSE LET tlvs == TlvsFrom(b, HeaderSize + PortIdentitySize)
       IN  IF \/ b.bytes < HeaderSize + PortIdentitySize + TlvHeadSize
              \/ tlvs = <<>>
              \/ \E i \in DOMAIN tlvs : tlvs[i] = Error
           THEN Error
           ELSE [kind |-> b.kind, seq |-> b.seq, messageLength |-> b.messageLength,
                 tlvs |-> tlvs]

-----------------------------------------------------------------------------
\* The messages a correct sender writes: every TLV has the length of its type,
\* and MessageLength is what is written.
WrittenTlv ==
  {t \in [type : DOMAIN TlvBody, for : {"announce", "sync", "delayResp"},
          duration : Nat, length : Nat] : t.length = TlvBody[t.type]}

IsMessage(m) ==
  \/ \E k \in DOMAIN FixedBody :
       m = [kind |-> k, seq |-> m.seq, messageLength |-> HeaderSize + FixedBody[k]]
  \/ /\ m.tlvs \in Seq(WrittenTlv) \ {<<>>}
     /\ m = [kind |-> "signaling", seq |-> m.seq, tlvs |-> m.tlvs,
             messageLength |-> TlvOffset(m.tlvs, Len(m.tlvs) + 1)]
=============================================================================
