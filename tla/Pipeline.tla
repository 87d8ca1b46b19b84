------------------------------ MODULE Pipeline ------------------------------
(***************************************************************************)
(* The way of a packet through clientgen: RX workers put what the ring     *)
(* delivers into bounded channels, parsers decode it, processors handle it *)
(* and send replies, TX workers write what processors and the retransmit   *)
(* processors hand them.  Packets travel in buffers that come from pools   *)
(* and go back to them; round-robin counters choose the channels.  With    *)
(* its requests a handler sends operations to the timer heaps, and waits   *)
(* while their channels are full.                                          *)
(*                                                                         *)
(* A client's grant cycle is ClientEngine's: here a grant makes the        *)
(* processor send the client's next request, and addresses are members of  *)
(* Client or not (ClientAddressing).  The timestamp of a packet is its     *)
(* number in arrivals, and a packet that is made is named by the packet it *)
(* answers and its number among those answers, so that each can be told    *)
(* apart.  There is one retransmit and one restart processor, and no grant *)
(* lapses while the packets are on their way.                              *)
(***************************************************************************)
EXTENDS SignalingCodec, SequencesExt

CONSTANTS
  Client,               \* addresses of simulated clients
  Load,                 \* set of [arrivals, due]: packets on the wire (one with
                        \* UDP has its message and the message's bytes), and
                        \* clients whose first retransmission is due
  NumRXWorkers, NumPacketParsers, NumPacketProcessors, NumTXWorkers,
  QueueSize,            \* rawInQueueSize, pktDecoderQueueSize, rawOutQueueSize
  OpQueueSize,          \* reTransHeapOpQueueSize, reStartHeapOpQueueSize
  RestartClientsAfterDuration,
  Word32,               \* 2^32
  PickerStart,          \* values the round-robin counters may have
  MaxBuffers,           \* enough buffers of each pool for all packets
  Idle, None

RX == 0..(NumRXWorkers - 1)
Parser == 0..(NumPacketParsers - 1)
Processor == 0..(NumPacketProcessors - 1)
TX == 0..(NumTXWorkers - 1)
Buffer == 1..MaxBuffers
Engine == NumPacketProcessors     \* a retransmit processor, a producer as well
Producer == Processor \cup {Engine}
Heap == {"retransmit", "restart"}  \* the timer heaps, each with its operationChan

IsPacket(p) ==
  \/ p.kind \in {"arp", "icmp"}
  \/ p.kind = "udp" /\ IsMessage(p.message) /\ p.payload = Bytes(p.message)

ASSUME PipelineAssumption ==
  /\ {NumRXWorkers, NumPacketParsers, NumPacketProcessors, NumTXWorkers,
      QueueSize, OpQueueSize, MaxBuffers, Word32} \subseteq Nat \ {0}
  /\ RestartClientsAfterDuration \in BOOLEAN
  /\ PickerStart \subseteq 0..(Word32 - 1)
  /\ Idle \notin Buffer /\ Idle \notin [buf : Buffer, chan : Nat]
  /\ \A l \in Load : /\ DOMAIN l.arrivals = 1..Len(l.arrivals) /\ Len(l.arrivals) \in Nat
                     /\ \A i \in DOMAIN l.arrivals : IsPacket(l.arrivals[i])
                     /\ l.due \in Seq(Client)

VARIABLES
  load,                                   \* the chosen member of Load
  unread,                                 \* packets the ring has not delivered
  rawInput, pktToProc, rawOutput,         \* channels of buffers
  inChanToUse, pktProcChanToUse, outChanToUse,
  inPool, decoderPool, outPool,           \* pooled buffers
  inPacket, decoder, outPacket,           \* contents of the buffers there are
  rx, parser, tx,                         \* what a worker holds
  proc,                                   \* the decoder a processor works on
  todo,                                   \* packets a producer has yet to make
  ops,                                    \* heap operations it sends before the next
  hand,                                   \* the packet a producer is sending
  queued,                                 \* operations in the heaps' channels
  outcome,                                \* what has been done with a packet
  made,                                   \* packets made, and how they were sent
  sentTime, gotTime                       \* clients' times that are not zero: of a
                                          \* request, and of the answer to one

inVars == <<unread, rawInput, inChanToUse, inPool, inPacket, rx>>
procVars == <<pktToProc, pktProcChanToUse, decoderPool, decoder>>
outVars == <<rawOutput, outChanToUse, outPool, outPacket, hand, made>>
sendVars == <<tx, sentTime>>
opVars == <<ops, queued>>
vars == <<load, inVars, procVars, outVars, sendVars, opVars, parser, proc, todo, outcome,
          gotTime>>

arrivals == load.arrivals

\* sync.Pool.Get: any pooled buffer, or a new one.
Get(pool, contents) ==
  LET new == Buffer \ DOMAIN contents
  IN  pool \cup (IF new = {} THEN {} ELSE {Min(new)})

\* f with the value v for x, whether or not it had one.
With(f, x, v) == [y \in DOMAIN f \cup {x} |-> IF y = x THEN v ELSE f[y]]

\* getRxChanNumToUse and its two siblings: atomic.AddUint32, then the remainder.
Advance(picker) == (picker + 1) % Word32
\* Mutant: one is added to the remainder instead of the counter.
ChosenAfter(picker, channels) == (picker % channels) + 1

Chosen(picker, channels) == Advance(picker) % channels

\* Packets to be made in answer to packet i (0 for the packets that are due),
\* each with its name.
Numbered(i, works) == [n \in DOMAIN works |-> [id |-> <<i, n>>, work |-> works[n]]]

\* The heap operations a handler sends before the packet: those of the grant it
\* handles, a client's restart and the removal of its retransmission, and the
\* insertion that comes before a DelayReq.
Before(work) ==
  CASE work.make = "request" /\ work.for \in {"sync", "delayResp"} -> <<"retransmit">>
    [] work.make = "request" /\ work.for = "delayReq" ->
         IF RestartClientsAfterDuration THEN <<"restart", "retransmit", "retransmit">>
                                        ELSE <<"retransmit", "retransmit">>
    [] OTHER -> <<>>
BeforeFirst(items) == IF items = <<>> THEN <<>> ELSE Before(Head(items).work)

\* And after it: a grant request is armed for retransmission once it is sent.
After(pktType) ==
  IF pktType \in {"announce", "sync", "delayResp"} THEN <<"retransmit">> ELSE <<>>

Init ==
  /\ load \in Load
  /\ unread = DOMAIN load.arrivals
  /\ rawInput = [p \in Parser |-> <<>>]
  /\ pktToProc = [q \in Processor |-> <<>>]
  /\ rawOutput = [t \in TX |-> <<>>]
  /\ inChanToUse \in PickerStart
  /\ pktProcChanToUse = inChanToUse /\ outChanToUse = inChanToUse
  /\ inPool = {} /\ decoderPool = {} /\ outPool = {}
  /\ inPacket = <<>> /\ decoder = <<>> /\ outPacket = <<>>
  /\ rx = [r \in RX |-> Idle] /\ parser = [p \in Parser |-> Idle]
  /\ tx = [t \in TX |-> Idle] /\ proc = [q \in Processor |-> Idle]
  /\ todo = [q \in Producer |-> IF q = Engine
                                THEN Numbered(0, [i \in DOMAIN load.due |->
                                        [make |-> "request", client |-> load.due[i],
                                         for |-> "announce"]])
                                ELSE <<>>]
  /\ ops = [q \in Producer |-> BeforeFirst(todo[q])]
  /\ hand = [q \in Producer |-> Idle]
  /\ queued = [h \in Heap |-> 0]
  /\ outcome = [i \in DOMAIN load.arrivals |-> <<>>]
  /\ made = <<>>
  /\ sentTime = {} /\ gotTime = {}

-----------------------------------------------------------------------------
\* RX workers.

\* The ring delivers a packet; it is put into a buffer and a parser is chosen.
RxRead(r) ==
  /\ rx[r] = Idle
  /\ \E i \in unread, b \in Get(inPool, inPacket) :
       /\ unread' = unread \ {i}
       /\ inPool' = inPool \ {b}
       /\ inPacket' = With(inPacket, b, [data |-> arrivals[i], ts |-> i, fromTX |-> FALSE])
       /\ inChanToUse' = Advance(inChanToUse)
       /\ rx' = [rx EXCEPT ![r] = [buf |-> b, chan |-> Chosen(inChanToUse, NumPacketParsers)]]
  /\ UNCHANGED <<load, rawInput, procVars, outVars, sendVars, opVars, parser, proc, todo,
                 outcome, gotTime>>

\* Mutant: the RX worker puts the buffer back itself, as TX workers do.
RxSendAndPut(r) ==
  /\ rx[r] # Idle
  /\ Len(rawInput[rx[r].chan]) < QueueSize
  /\ rawInput' = [rawInput EXCEPT ![rx[r].chan] = Append(@, rx[r].buf)]
  /\ inPool' = inPool \cup {rx[r].buf}
  /\ rx' = [rx EXCEPT ![r] = Idle]
  /\ UNCHANGED <<load, unread, inChanToUse, inPacket, procVars, outVars,
                 sendVars, opVars, parser, proc, todo, outcome, gotTime>>

RxSend(r) ==
  /\ rx[r] # Idle
  /\ Len(rawInput[rx[r].chan]) < QueueSize
  /\ rawInput' = [rawInput EXCEPT ![rx[r].chan] = Append(@, rx[r].buf)]
  /\ rx' = [rx EXCEPT ![r] = Idle]
  /\ UNCHANGED <<load, unread, inChanToUse, inPool, inPacket, procVars, outVars,
                 sendVars, opVars, parser, proc, todo, outcome, gotTime>>

-----------------------------------------------------------------------------
\* Packet parsers.

NewDecoder == [layers |-> {}, ts |-> 0, fromTX |-> FALSE, arp |-> None, ip |-> None,
               udp |-> None, icmp |-> None]

\* Mutant: the layers found are added to those of the decoder's last packet.
DecodeLayersAdded(d, p) ==
  CASE p.kind = "arp" -> [d EXCEPT !.layers = @ \cup {"arp"}, !.arp = p.arp]
    [] p.kind = "icmp" -> [d EXCEPT !.layers = @ \cup {"ip", "icmp"}, !.ip = p.dst,
                                    !.icmp = p.icmp]
    [] p.kind = "udp" -> [d EXCEPT !.layers = @ \cup {"ip", "udp"}, !.ip = p.dst,
                                   !.udp = [port |-> p.port, payload |-> p.payload]]

\* What DecodeLayers leaves in a decoder: the layers it found, and the fields
\* of those layers; the others keep what the decoder's last packet had.
DecodeLayers(d, p) ==
  CASE p.kind = "arp" -> [d EXCEPT !.layers = {"arp"}, !.arp = p.arp]
    [] p.kind = "icmp" -> [d EXCEPT !.layers = {"ip", "icmp"}, !.ip = p.dst, !.icmp = p.icmp]
    [] p.kind = "udp" -> [d EXCEPT !.layers = {"ip", "udp"}, !.ip = p.dst,
                                   !.udp = [port |-> p.port, payload |-> p.payload]]

\* One turn of the parser up to the blocking send.
Parse(p) ==
  /\ parser[p] = Idle /\ rawInput[p] # <<>>
  /\ LET b == Head(rawInput[p])
         pkt == inPacket[b]
     IN  \E d \in Get(decoderPool, decoder) :
           /\ decoder' = With(decoder, d,
                [DecodeLayers(IF d \in DOMAIN decoder THEN decoder[d] ELSE NewDecoder, pkt.data)
                   EXCEPT !.ts = pkt.ts, !.fromTX = pkt.fromTX])
           /\ decoderPool' = decoderPool \ {d}
           /\ inPool' = inPool \cup {b}
           /\ parser' = [parser EXCEPT ![p] =
                [buf |-> d, chan |-> Chosen(pktProcChanToUse, NumPacketProcessors)]]
  /\ rawInput' = [rawInput EXCEPT ![p] = Tail(@)]
  /\ pktProcChanToUse' = Advance(pktProcChanToUse)
  /\ UNCHANGED <<load, unread, inChanToUse, inPacket, rx, pktToProc, outVars, sendVars, opVars,
                 proc, todo, outcome, gotTime>>

\* Mutant: select { case ch <- pkt: default: } instead of a send that waits.
ParserSendOrDrop(p) ==
  /\ parser[p] # Idle
  /\ IF Len(pktToProc[parser[p].chan]) < QueueSize
     THEN /\ pktToProc' = [pktToProc EXCEPT ![parser[p].chan] = Append(@, parser[p].buf)]
          /\ UNCHANGED decoderPool
     ELSE decoderPool' = decoderPool \cup {parser[p].buf} /\ UNCHANGED pktToProc
  /\ parser' = [parser EXCEPT ![p] = Idle]
  /\ UNCHANGED <<load, inVars, pktProcChanToUse, decoder, outVars, sendVars, opVars,
                 proc, todo, outcome, gotTime>>

ParserSend(p) ==
  /\ parser[p] # Idle
  /\ Len(pktToProc[parser[p].chan]) < QueueSize
  /\ pktToProc' = [pktToProc EXCEPT ![parser[p].chan] = Append(@, parser[p].buf)]
  /\ parser' = [parser EXCEPT ![p] = Idle]
  /\ UNCHANGED <<load, inVars, pktProcChanToUse, decoderPool, decoder, outVars, sendVars, opVars,
                 proc, todo, outcome, gotTime>>

-----------------------------------------------------------------------------
\* Packet processors.

\* What follows a grant: the request of the next state of the client.
NextRequest == [announce |-> "sync", sync |-> "delayResp", delayResp |-> "delayReq"]

\* The TLVs handled before the first that ends singleClientHandleIncomingPTP
\* with an error: a denied grant, or a TLV a server does not send.
HandledTlvs(tlvs) ==
  LET ends(t) == t.type \notin {"grant", "cancel"} \/ (t.type = "grant" /\ t.duration = 0)
      n == IF \E i \in DOMAIN tlvs : ends(tlvs[i])
           THEN Min({i \in DOMAIN tlvs : ends(tlvs[i])}) - 1
           ELSE Len(tlvs)
  IN  SubSeq(tlvs, 1, n)

\* singleClientHandleIncomingPTP on a received message: the grants it takes,
\* or the time it notes.  A cancellation's acknowledgement is built and dropped.
HandlePTP(client, m) ==
  CASE m.kind = "signaling" ->
         LET tlvs == HandledTlvs(m.tlvs)
             answer(t) == IF t.type = "grant"
                          THEN <<[do |-> "grant", client |-> client, for |-> t.for]>> ELSE <<>>
         IN  FlattenSeq([i \in DOMAIN tlvs |-> answer(tlvs[i])])
    [] m.kind \in {"announce", "sync", "followUp", "delayResp"} ->
         <<[do |-> "note", client |-> client, for |-> m.kind]>>
    [] OTHER -> <<>>

handleARPIncoming(d) ==
  IF d.arp.op = "request"
  THEN <<[do |-> "arpReply", client |-> None, for |-> d.arp.target]>> ELSE <<>>

handleICMPv6Incoming(d) ==
  IF d.ip = "multicast" /\ d.icmp.type = "solicitation" /\ d.icmp.target \in Client
  THEN <<[do |-> "advertise", client |-> None, for |-> d.icmp.target]>> ELSE <<>>

handleUDPIncoming(d) ==
  IF d.udp.port \in {"event", "general"} /\ d.ip \in Client
  THEN HandlePTP(d.ip, FromBytes(d.udp.payload)) ELSE <<>>

\* A packet with its layers decoded: what a processor does with it.  RX never
\* sets fromTX, so that no packet of our own comes here for its time to be noted.
HandlePacket(d) ==
  CASE "arp" \in d.layers -> IF d.fromTX THEN <<>> ELSE handleARPIncoming(d)
    [] "icmp" \in d.layers -> IF d.fromTX THEN <<>> ELSE handleICMPv6Incoming(d)
    [] "udp" \in d.layers -> handleUDPIncoming(d)

\* The packets that have to be made for what is done, in this order.
PacketsFor(done) ==
  LET maker(e) ==
        CASE e.do = "grant" -> <<[make |-> "request", client |-> e.client,
                                  for |-> NextRequest[e.for]]>>
          [] e.do = "note" -> <<>>
          [] OTHER -> <<[make |-> e.do, client |-> None, for |-> e.for]>>
  IN  FlattenSeq([i \in DOMAIN done |-> maker(done[i])])

\* The processor takes a decoder, looks at its layers and calls the handler.
Process(q) ==
  /\ proc[q] = Idle /\ pktToProc[q] # <<>>
  /\ proc' = [proc EXCEPT ![q] = Head(pktToProc[q])]
  /\ LET d == decoder[Head(pktToProc[q])]
     IN  \E done \in {HandlePacket(d)} :
           /\ outcome' = [outcome EXCEPT ![d.ts] = Append(@, done)]
           /\ todo' = [todo EXCEPT ![q] = Numbered(d.ts, PacketsFor(done))]
           /\ ops' = [ops EXCEPT ![q] = BeforeFirst(Numbered(d.ts, PacketsFor(done)))]
  /\ pktToProc' = [pktToProc EXCEPT ![q] = Tail(@)]
  /\ UNCHANGED <<load, inVars, pktProcChanToUse, decoderPool, decoder, outVars, sendVars,
                 queued, parser, gotTime>>

\* The request, if any, whose answer's time is noted.
Answered(e) == CASE e.do = "grant" -> {<<e.client, e.for>>}
                 [] e.do = "note" /\ e.for = "delayResp" -> {<<e.client, "delayReq">>}
                 [] OTHER -> {}

\* All is sent: the times of the grants are noted, the decoder goes back.
ProcessEnd(q) ==
  /\ proc[q] # Idle /\ todo[q] = <<>> /\ hand[q] = Idle /\ ops[q] = <<>>
  /\ LET done == Last(outcome[decoder[proc[q]].ts])
     IN  gotTime' = gotTime \cup UNION {Answered(done[i]) : i \in DOMAIN done}
  /\ decoderPool' = decoderPool \cup {proc[q]}
  /\ proc' = [proc EXCEPT ![q] = Idle]
  /\ UNCHANGED <<load, inVars, pktToProc, pktProcChanToUse, decoder, outVars, sendVars, opVars,
                 parser, todo, outcome>>

-----------------------------------------------------------------------------
\* Making and sending packets.

craftSinglePktToGM(client, port, message) ==
  [kind |-> "udp", src |-> client, port |-> port, payload |-> Bytes(message)]

\* The packet an answer or a retransmission makes; one for a client asks for a
\* timestamp.
Craft(item) ==
  LET w == item.work
  IN  IF w.make # "request"
      THEN [id |-> item.id, data |-> [kind |-> w.make, target |-> w.for],
            getTS |-> FALSE, pktType |-> "ignore", cl |-> None]
      ELSE [id |-> item.id,
            data |-> IF w.for = "delayReq"
                     THEN craftSinglePktToGM(w.client, "event", reqDelay(0))
                     ELSE craftSinglePktToGM(w.client, "general", reqUnicast(w.for, 1, 0)),
            getTS |-> TRUE, pktType |-> w.for, cl |-> w.client]

\* The retransmit processor looks at its timers when its channel is empty.
CanMake(q) ==
  /\ todo[q] # <<>> /\ hand[q] = Idle /\ ops[q] = <<>>
  /\ q = Engine => queued["retransmit"] = 0

\* Mutant: replies leave the client of the buffer's last packet in place.
MakeKeepsClient(q) ==
  /\ CanMake(q)
  /\ \E b \in Get(outPool, outPacket) :
       /\ outPacket' = With(outPacket, b,
            [Craft(Head(todo[q])) EXCEPT !.cl = IF @ = None /\ b \in DOMAIN outPacket
                                                THEN outPacket[b].cl ELSE @])
       /\ outPool' = outPool \ {b}
       /\ hand' = [hand EXCEPT ![q] = [buf |-> b, chan |-> Chosen(outChanToUse, NumTXWorkers)]]
  /\ outChanToUse' = Advance(outChanToUse)
  /\ made' = With(made, Head(todo[q]).id, [work |-> Head(todo[q]).work, sent |-> <<>>])
  /\ todo' = [todo EXCEPT ![q] = Tail(@)]
  /\ UNCHANGED <<load, inVars, procVars, rawOutput, sendVars, opVars, parser, proc, outcome,
                 gotTime>>

Make(q) ==
  /\ CanMake(q)
  /\ \E b \in Get(outPool, outPacket) :
       /\ outPacket' = With(outPacket, b, Craft(Head(todo[q])))
       /\ outPool' = outPool \ {b}
       /\ hand' = [hand EXCEPT ![q] = [buf |-> b, chan |-> Chosen(outChanToUse, NumTXWorkers)]]
  /\ outChanToUse' = Advance(outChanToUse)
  /\ made' = With(made, Head(todo[q]).id, [work |-> Head(todo[q]).work, sent |-> <<>>])
  /\ todo' = [todo EXCEPT ![q] = Tail(@)]
  /\ UNCHANGED <<load, inVars, procVars, rawOutput, sendVars, opVars, parser, proc, outcome,
                 gotTime>>

\* Mutant: a packet that finds its channel full is thrown away.
SendOrDrop(q) ==
  /\ hand[q] # Idle
  /\ IF Len(rawOutput[hand[q].chan]) < QueueSize
     THEN /\ rawOutput' = [rawOutput EXCEPT ![hand[q].chan] = Append(@, hand[q].buf)]
          /\ UNCHANGED outPool
     ELSE outPool' = outPool \cup {hand[q].buf} /\ UNCHANGED rawOutput
  /\ hand' = [hand EXCEPT ![q] = Idle]
  /\ ops' = [ops EXCEPT ![q] = After(outPacket[hand[q].buf].pktType) \o BeforeFirst(todo[q])]
  /\ UNCHANGED <<load, inVars, procVars, outChanToUse, outPacket, made, sendVars, queued,
                 parser, proc, todo, outcome, gotTime>>

Send(q) ==
  /\ hand[q] # Idle
  /\ Len(rawOutput[hand[q].chan]) < QueueSize
  /\ rawOutput' = [rawOutput EXCEPT ![hand[q].chan] = Append(@, hand[q].buf)]
  /\ hand' = [hand EXCEPT ![q] = Idle]
  /\ ops' = [ops EXCEPT ![q] = After(outPacket[hand[q].buf].pktType) \o BeforeFirst(todo[q])]
  /\ UNCHANGED <<load, inVars, procVars, outChanToUse, outPool, outPacket, made, sendVars,
                 queued, parser, proc, todo, outcome, gotTime>>

\* A send on a heap's operationChan; it waits while the channel is full.
PushOp(q) ==
  /\ ops[q] # <<>> /\ hand[q] = Idle
  /\ queued[Head(ops[q])] < OpQueueSize
  /\ queued' = [queued EXCEPT ![Head(ops[q])] = @ + 1]
  /\ ops' = [ops EXCEPT ![q] = Tail(@)]
  /\ UNCHANGED <<load, inVars, procVars, outVars, sendVars, parser, proc, todo, outcome,
                 gotTime>>

\* A heap's processor takes an operation; the retransmit processor does so only
\* when it is not in handleRetransmit.
ApplyOp(h) ==
  /\ queued[h] > 0
  /\ h = "retransmit" => hand[Engine] = Idle /\ ops[Engine] = <<>>
  /\ queued' = [queued EXCEPT ![h] = @ - 1]
  /\ UNCHANGED <<load, inVars, procVars, outVars, sendVars, ops, parser, proc, todo, outcome,
                 gotTime>>

\* A TX worker writes the packet; only one that asks for no timestamp has its
\* time noted.
Transmit(t) ==
  /\ tx[t] = Idle /\ rawOutput[t] # <<>>
  /\ LET b == Head(rawOutput[t])
         out == outPacket[b]
     IN  /\ tx' = [tx EXCEPT ![t] = b]
         /\ made' = [made EXCEPT ![out.id].sent = Append(@, [data |-> out.data, cl |-> out.cl])]
         /\ sentTime' = IF out.getTS \/ out.cl = None THEN sentTime
                        ELSE sentTime \cup {<<out.cl, out.pktType>>}
  /\ rawOutput' = [rawOutput EXCEPT ![t] = Tail(@)]
  /\ UNCHANGED <<load, inVars, procVars, outChanToUse, outPool, outPacket, hand,
                 opVars, parser, proc, todo, outcome, gotTime>>

TransmitEnd(t) ==
  /\ tx[t] # Idle
  /\ outPool' = outPool \cup {tx[t]}
  /\ tx' = [tx EXCEPT ![t] = Idle]
  /\ UNCHANGED <<load, inVars, procVars, rawOutput, outChanToUse, outPacket, hand, made,
                 sentTime, opVars, parser, proc, todo, outcome, gotTime>>

Next ==
  \/ \E r \in RX : RxRead(r) \/ RxSend(r)
  \/ \E p \in Parser : Parse(p) \/ ParserSend(p)
  \/ \E q \in Processor : Process(q) \/ ProcessEnd(q)
  \/ \E q \in Producer : Make(q) \/ Send(q) \/ PushOp(q)
  \/ \E h \in Heap : ApplyOp(h)
  \/ \E t \in TX : Transmit(t) \/ TransmitEnd(t)

\* No packet and no operation goes back to where it was, so that it is enough that some worker
\* goes on as long as one can.
Spec == Init /\ [][Next]_vars /\ WF_vars(Next)

-----------------------------------------------------------------------------
Hand(channels) == {Idle} \cup [buf : Buffer, chan : channels]
Channel == {s \in Seq(Buffer) : Len(s) <= QueueSize}

\* The chosen channels are among those there are, whatever the counters wrap to.
TypeOK ==
  /\ rx \in [RX -> Hand(Parser)] /\ parser \in [Parser -> Hand(Processor)]
  /\ hand \in [Producer -> Hand(TX)]
  /\ proc \in [Processor -> Buffer \cup {Idle}] /\ tx \in [TX -> Buffer \cup {Idle}]
  /\ rawInput \in [Parser -> Channel] /\ pktToProc \in [Processor -> Channel]
  /\ rawOutput \in [TX -> Channel]
  /\ ops \in [Producer -> Seq(Heap)] /\ queued \in [Heap -> 0..OpQueueSize]
  /\ {inPool, decoderPool, outPool} \subseteq SUBSET Buffer
  /\ {inChanToUse, pktProcChanToUse, outChanToUse} \subseteq 0..(Word32 - 1)

\* The buffers that workers hand on, channels hold and workers have taken.
Given(giver) == {giver[w].buf : w \in {w \in DOMAIN giver : giver[w] # Idle}}
Queued(queue) == UNION {Range(queue[c]) : c \in DOMAIN queue}
Taken(taker) == {taker[w] : w \in DOMAIN taker} \ {Idle}

\* No buffer is in two places.
Exclusive(pool, giver, queue, taker) ==
  /\ \A v, w \in DOMAIN giver :
       giver[v] # Idle /\ giver[w] # Idle /\ giver[v].buf = giver[w].buf => v = w
  /\ \A c, d \in DOMAIN queue : \A i \in DOMAIN queue[c], j \in DOMAIN queue[d] :
       queue[c][i] = queue[d][j] => c = d /\ i = j
  /\ \A v, w \in DOMAIN taker : taker[v] # Idle /\ taker[v] = taker[w] => v = w
  /\ pool \cap (Given(giver) \cup Queued(queue) \cup Taken(taker)) = {}
  /\ Given(giver) \cap (Queued(queue) \cup Taken(taker)) = {}
  /\ Queued(queue) \cap Taken(taker) = {}

\* A pooled buffer is in one place at a time: no buffer goes back to its pool
\* while a channel or a worker has it, none is put back or sent on twice.
SingleOwner ==
  /\ Exclusive(inPool, rx, rawInput, <<>>)
  /\ Exclusive(decoderPool, parser, pktToProc, proc)
  /\ Exclusive(outPool, hand, rawOutput, tx)

\* What the program promises to do with a packet, said of the packet itself and
\* the message that was sent, without buffers, decoders or bytes.
Promised(p) ==
  CASE p.kind = "arp" ->
         IF p.arp.op = "request"
         THEN <<[do |-> "arpReply", client |-> None, for |-> p.arp.target]>> ELSE <<>>
    [] p.kind = "icmp" ->
         IF p.dst = "multicast" /\ p.icmp.type = "solicitation" /\ p.icmp.target \in Client
         THEN <<[do |-> "advertise", client |-> None, for |-> p.icmp.target]>> ELSE <<>>
    [] p.kind = "udp" ->
         IF p.port \in {"event", "general"} /\ p.dst \in Client
         THEN HandlePTP(p.dst, p.message) ELSE <<>>

\* A packet is handled once at most, and then as its own content asks for:
\* buffers and decoders that others used before, channels and the codec between
\* the wire and the handler change nothing.
HandledAsReceived ==
  \A i \in DOMAIN arrivals : outcome[i] \in {<<>>, <<Promised(arrivals[i])>>}

\* What a receiver of a sent packet reads: a reply, or a request decoded.
Reads(sent) ==
  IF sent.data.kind # "udp"
  THEN [make |-> sent.data.kind, client |-> sent.cl, for |-> sent.data.target]
  ELSE LET m == FromBytes(sent.data.payload)
       IN  [make |-> "request", client |-> sent.data.src,
            for |-> IF m.kind = "signaling" THEN m.tlvs[1].for ELSE m.kind]

\* What was made is sent once at most, whatever buffers it shares with others
\* before and after it, and it reads as it was meant, with the client it is
\* counted for.
SentAsMade ==
  \A id \in DOMAIN made :
    /\ Len(made[id].sent) <= 1
    /\ \A n \in DOMAIN made[id].sent : /\ Reads(made[id].sent[n]) = made[id].work
                                       /\ made[id].sent[n].cl = made[id].work.client

\* The retransmit processor waits for room in the channel that it alone empties.
EngineStuck == /\ ops[Engine] # <<>> /\ Head(ops[Engine]) = "retransmit"
               /\ queued["retransmit"] = OpQueueSize

\* Every packet is read and handled in the end, and every packet made is sent:
\* full channels, those of the timer heaps included, delay workers and never stop
\* all of them, unless the retransmit processor fills its own channel
\* (client.go:278), which stops processors, parsers and RX workers behind it.
AllHandled == <>(EngineStuck \/ \A i \in DOMAIN arrivals : outcome[i] # <<>>)
AllSent == <>[](\/ EngineStuck
                \/ /\ \A id \in DOMAIN made : made[id].sent # <<>>
                   /\ \A q \in Producer : todo[q] = <<>> /\ ops[q] = <<>>)

\* The clients whose latency for a request goes into a printed histogram: the
\* counter processor skips those with either time zero.
Latencies(for) == {c \in Client : <<c, for>> \in gotTime /\ <<c, for>> \in sentTime}

\* With PrintLatencyData the latencies of the grants are printed
\* (README.md:191): when the time of an answer to a request already sent is
\* noted, the client is among those the counter processor has a latency of.
RequestSent(c, for) ==
  \E id \in DOMAIN made :
    made[id].sent # <<>> /\ made[id].work = [make |-> "request", client |-> c, for |-> for]
LatencyMeasured ==
  [][\A answer \in gotTime' \ gotTime :
       RequestSent(answer[1], answer[2]) => answer[1] \in Latencies(answer[2])']_vars
=============================================================================
