--------------------------- MODULE PipelineProofs ---------------------------
(***************************************************************************)
(* Proofs about Pipeline: buffers have one owner, a packet is handled as   *)
(* it was received, and what is made is sent as it was meant.              *)
(*                                                                         *)
(* The inductive invariant says of every buffer on its way what it holds:  *)
(* an input buffer the packet that has its timestamp, a decoder what       *)
(* decides how that packet is handled, an output buffer the packet made    *)
(* under its name; and no packet is in two buffers.                        *)
(***************************************************************************)
EXTENDS Pipeline, CodecProofs

(* What can be done with a packet, and what can be made.                      *)
Target ==
  Client \cup UNION {{l.arrivals[i].arp.target :
                        i \in {i \in DOMAIN l.arrivals : l.arrivals[i].kind = "arp"}} : l \in Load}
Done ==
  [do : {"grant"}, client : Client, for : DOMAIN NextRequest]
    \cup [do : {"note"}, client : Client, for : DOMAIN NextRequest \cup {"followUp"}]
    \cup [do : {"arpReply", "advertise"}, client : {None}, for : Target]
Work ==
  [make : {"request"}, client : Client, for : DOMAIN NextRequest \cup {"delayReq"}]
    \cup [make : {"arpReply", "advertise"}, client : {None}, for : Target]
Item == [id : Nat \X Nat, work : Work]

(* What a receiver gets of a packet that is made, and whom it is counted for. *)
SentAs(item) == [data |-> Craft(item).data, cl |-> Craft(item).cl]

(* The buffers on their way, from the worker that fills them until they are   *)
(* taken from the channel.                                                    *)
InBuffers == Given(rx) \cup Queued(rawInput)
Decoders == Given(parser) \cup Queued(pktToProc)
OutBuffers == Given(hand) \cup Queued(rawOutput)

(* The packets that were read and not handled yet.                            *)
Waiting == {i \in DOMAIN arrivals \ unread : outcome[i] = <<>>}

(* What packets that are made are named after: the packets that have been     *)
(* handled, and 0.                                                            *)
Sources == {0} \cup {i \in DOMAIN arrivals : outcome[i] # <<>>}

Shape ==
  /\ load \in Load /\ unread \subseteq DOMAIN arrivals
  /\ outcome = [i \in DOMAIN arrivals |-> outcome[i]]
  /\ \A i \in unread : outcome[i] = <<>>
  /\ todo \in [Producer -> Seq(Item)]

InputOK ==
  /\ \A b \in InBuffers : /\ b \in DOMAIN inPacket
                          /\ inPacket[b].ts \in Waiting
                          /\ inPacket[b].data = arrivals[inPacket[b].ts]
                          /\ inPacket[b].fromTX = FALSE
  /\ \A b, c \in InBuffers : inPacket[b].ts = inPacket[c].ts => b = c

IsDecoder(d) ==
  d = [layers |-> d.layers, ts |-> d.ts, fromTX |-> d.fromTX, arp |-> d.arp, ip |-> d.ip,
       udp |-> d.udp, icmp |-> d.icmp]

DecoderOK ==
  /\ \A d \in Decoders : /\ d \in DOMAIN decoder
                         /\ decoder[d].ts \in Waiting
                         /\ HandlePacket(decoder[d]) = Promised(arrivals[decoder[d].ts])
  /\ \A d, e \in Decoders : decoder[d].ts = decoder[e].ts => d = e
  /\ \A d \in Decoders, b \in InBuffers : decoder[d].ts # inPacket[b].ts
  /\ Taken(proc) \subseteq DOMAIN decoder
  /\ \A d \in DOMAIN decoder : IsDecoder(decoder[d])

OutputOK ==
  /\ \A b \in OutBuffers :
       LET id == outPacket[b].id
       IN  /\ b \in DOMAIN outPacket /\ id \in DOMAIN made
           /\ made[id].sent = <<>>
           /\ outPacket[b] = Craft([id |-> id, work |-> made[id].work])
  /\ \A b, c \in OutBuffers : outPacket[b].id = outPacket[c].id => b = c
  /\ Taken(tx) \subseteq DOMAIN outPacket

MadeOK ==
  /\ \A id \in DOMAIN made :
       /\ id \in Nat \X Nat /\ id[1] \in Sources
       /\ made[id] = [work |-> made[id].work, sent |-> made[id].sent]
       /\ made[id].work \in Work
       /\ made[id].sent \in {<<>>, <<SentAs([id |-> id, work |-> made[id].work])>>}
  /\ \A q \in Producer : \A n \in DOMAIN todo[q] :
       todo[q][n].id[1] \in Sources /\ todo[q][n].id \notin DOMAIN made
  /\ \A q, r \in Producer : \A n \in DOMAIN todo[q], m \in DOMAIN todo[r] :
       todo[q][n].id = todo[r][m].id => q = r /\ n = m

IInv ==
  /\ TypeOK /\ SingleOwner /\ HandledAsReceived
  /\ Shape /\ InputOK /\ DecoderOK /\ OutputOK /\ MadeOK
-----------------------------------------------------------------------------
(* One pool's buffers: what a step does to the places they are in.  Each      *)
(* lemma is one way a buffer moves.                                           *)

Updated(f, g, x, v) == g = [f EXCEPT ![x] = v]
Appended(f, g, c, x) == g = [f EXCEPT ![c] = Append(@, x)]
Shortened(f, g, c) == g = [f EXCEPT ![c] = Tail(@)]
Plus(S, x, R) == R = S \cup {x}
Minus(S, x, R) == R = S \ {x}

Places(giver, queue, taker, W, C, T) ==
  /\ giver \in [W -> {Idle} \cup [buf : Buffer, chan : C]]
  /\ queue \in [C -> Seq(Buffer)]
  /\ taker \in [T -> Buffer \cup {Idle}]

LEMMA IdleIsNoHand ==
    ASSUME NEW C, C \subseteq Nat
    PROVE  Idle \notin [buf : Buffer, chan : C]
<1>1. [buf : Buffer, chan : C] \subseteq [buf : Buffer, chan : Nat]
  OBVIOUS
<1> QED
  BY <1>1, PipelineAssumption

LEMMA InQueued ==
    ASSUME NEW queue, NEW x
    PROVE  x \in Queued(queue) <=> \E d \in DOMAIN queue : \E i \in DOMAIN queue[d] : x = queue[d][i]
<1>1. \A d : x \in Range(queue[d]) <=> \E i \in DOMAIN queue[d] : x = queue[d][i]
  BY DEF Range
<1>2. x \in Queued(queue) <=> \E d \in DOMAIN queue : x \in Range(queue[d])
  BY DEF Queued
<1> QED
  BY <1>1, <1>2

(* A worker fills a buffer of the pool, or a new one.                         *)
LEMMA TakeFromPool ==
    ASSUME NEW pool, NEW giver, NEW queue, NEW taker, NEW W, NEW C, NEW T, C \subseteq Nat,
           Places(giver, queue, taker, W, C, T), Exclusive(pool, giver, queue, taker),
           NEW w \in W, giver[w] = Idle, NEW b \in Buffer,
           NEW h \in [buf : Buffer, chan : C], h.buf = b,
           b \notin Given(giver) \cup Queued(queue) \cup Taken(taker),
           NEW giver2, Updated(giver, giver2, w, h)
    PROVE  /\ Exclusive(pool \ {b}, giver2, queue, taker)
           /\ Places(giver2, queue, taker, W, C, T)
           /\ Plus(Given(giver), b, Given(giver2))
<1>1. /\ giver2 \in [W -> {Idle} \cup [buf : Buffer, chan : C]]
      /\ DOMAIN giver = W /\ DOMAIN giver2 = W
      /\ giver2[w] # Idle /\ giver2[w].buf = b
      /\ \A v \in W : v # w => giver2[v] = giver[v]
  <2>1. h # Idle
    BY IdleIsNoHand
  <2>2. giver \in [W -> {Idle} \cup [buf : Buffer, chan : C]]
    BY DEF Places
  <2> QED BY <2>1, <2>2 DEF Updated
<1>2. Given(giver2) = Given(giver) \cup {b}
  BY <1>1 DEF Given
<1>3. \A v \in W : giver[v] # Idle => giver[v].buf # b
  BY <1>1 DEF Given
<1>4. \A u, v \in W :
        giver2[u] # Idle /\ giver2[v] # Idle /\ giver2[u].buf = giver2[v].buf => u = v
  BY <1>1, <1>3 DEF Exclusive
<1>5. Places(giver2, queue, taker, W, C, T)
  BY <1>1 DEF Places
<1>6. Exclusive(pool \ {b}, giver2, queue, taker)
  <2>1. /\ \A d, e \in DOMAIN queue : \A i \in DOMAIN queue[d], j \in DOMAIN queue[e] :
             queue[d][i] = queue[e][j] => d = e /\ i = j
        /\ \A u, v \in DOMAIN taker : taker[u] # Idle /\ taker[u] = taker[v] => u = v
        /\ pool \cap (Given(giver) \cup Queued(queue) \cup Taken(taker)) = {}
        /\ Given(giver) \cap (Queued(queue) \cup Taken(taker)) = {}
        /\ Queued(queue) \cap Taken(taker) = {}
    BY DEF Exclusive
  <2>2. (pool \ {b}) \cap (Given(giver2) \cup Queued(queue) \cup Taken(taker)) = {}
    BY <1>2, <2>1
  <2>3. Given(giver2) \cap (Queued(queue) \cup Taken(taker)) = {}
    BY <1>2, <2>1
  <2>4. \A u, v \in DOMAIN giver2 :
          giver2[u] # Idle /\ giver2[v] # Idle /\ giver2[u].buf = giver2[v].buf => u = v
    BY <1>1, <1>4
  <2> QED BY <2>1, <2>2, <2>3, <2>4, Zenon DEF Exclusive
<1> QED
  BY <1>2, <1>5, <1>6 DEF Plus

(* The worker sends it to a channel.                                          *)
LEMMA SendToChannel ==
    ASSUME NEW pool, NEW giver, NEW queue, NEW taker, NEW W, NEW C, NEW T, C \subseteq Nat,
           Places(giver, queue, taker, W, C, T), Exclusive(pool, giver, queue, taker),
           NEW w \in W, giver[w] # Idle,
           NEW giver2, Updated(giver, giver2, w, Idle),
           NEW queue2, Appended(queue, queue2, giver[w].chan, giver[w].buf)
    PROVE  /\ Exclusive(pool, giver2, queue2, taker)
           /\ Places(giver2, queue2, taker, W, C, T)
           /\ giver[w].buf \in Given(giver)
           /\ Minus(Given(giver), giver[w].buf, Given(giver2))
           /\ Plus(Queued(queue), giver[w].buf, Queued(queue2))
<1> DEFINE b == giver[w].buf
           c == giver[w].chan
<1>1. /\ giver2 \in [W -> {Idle} \cup [buf : Buffer, chan : C]]
      /\ DOMAIN giver = W /\ DOMAIN giver2 = W
      /\ giver2[w] = Idle
      /\ \A v \in W : v # w => giver2[v] = giver[v]
      /\ b \in Buffer /\ c \in C
      /\ queue \in [C -> Seq(Buffer)] /\ DOMAIN queue = C
  BY DEF Places, Updated
<1>2. b \in Given(giver)
  BY <1>1 DEF Given
<1> HIDE DEF b, c
<1>3. queue2 = [queue EXCEPT ![c] = Append(@, b)]
  BY DEF b, c, Appended
<1>4. /\ queue2 \in [C -> Seq(Buffer)] /\ Queued(queue2) = Queued(queue) \cup {b}
  <2>1. c \in C /\ b \in Buffer /\ queue \in [C -> Seq(Buffer)]
    BY <1>1 DEF b, c
  <2>2. /\ DOMAIN queue = C /\ DOMAIN queue2 = C
        /\ queue2[c] = Append(queue[c], b) /\ queue[c] \in Seq(Buffer)
        /\ \A d \in C : d # c => queue2[d] = queue[d]
    BY <1>3, <2>1
  <2>3. queue2 \in [C -> Seq(Buffer)]
    BY <1>3, <2>1, <2>2, AppendProperties
  <2>4. Range(queue2[c]) = Range(queue[c]) \cup {b}
    <3>1. /\ Len(queue[c]) \in Nat /\ DOMAIN queue[c] = 1..Len(queue[c])
          /\ DOMAIN queue2[c] = 1..(Len(queue[c]) + 1)
          /\ \A i \in 1..Len(queue[c]) : queue2[c][i] = queue[c][i]
          /\ queue2[c][Len(queue[c]) + 1] = b
      BY <2>2
    <3>2. \A i \in 1..(Len(queue[c]) + 1) : i \in 1..Len(queue[c]) \/ i = Len(queue[c]) + 1
      BY <3>1
    <3>3. \A i \in 1..Len(queue[c]) : i \in 1..(Len(queue[c]) + 1)
      BY <3>1
    <3>4. Len(queue[c]) + 1 \in 1..(Len(queue[c]) + 1)
      BY <3>1
    <3>5. \A x : x \in Range(queue2[c]) <=> x \in Range(queue[c]) \cup {b}
      BY <3>1, <3>2, <3>3, <3>4, Zenon DEF Range
    <3> QED BY <3>5
  <2>5. Queued(queue2) = Queued(queue) \cup {b}
    <3>1. \A x : x \in Queued(queue2) <=> \E d \in C : x \in Range(queue2[d])
      BY <1>1, <2>2 DEF Queued
    <3>2. \A x : x \in Queued(queue) <=> \E d \in C : x \in Range(queue[d])
      BY <1>1, <2>2 DEF Queued
    <3>3. \A x : x \in Queued(queue2) <=> x \in Queued(queue) \cup {b}
      BY <2>1, <2>2, <2>4, <3>1, <3>2, Zenon
    <3> QED BY <3>3
  <2> QED BY <2>3, <2>5
<1>5. DOMAIN queue2 = C
  BY <1>4
<1>6. \A v \in W : giver[v] # Idle /\ giver[v].buf = b => v = w
  BY <1>1 DEF Exclusive, b
<1>7. Given(giver2) = Given(giver) \ {b}
  <2>1. \A x : x \in Given(giver2) <=> \E v \in W : giver2[v] # Idle /\ x = giver2[v].buf
    BY <1>1 DEF Given
  <2>2. \A x : x \in Given(giver) <=> \E v \in W : giver[v] # Idle /\ x = giver[v].buf
    BY <1>1 DEF Given
  <2>3. \A x : x \in Given(giver2) <=> x \in Given(giver) \ {b}
    <3>1. ASSUME NEW x, x \in Given(giver2) PROVE x \in Given(giver) \ {b}
      BY <1>1, <1>6, <2>1, <2>2, <3>1
    <3>2. ASSUME NEW x, x \in Given(giver), x # b PROVE x \in Given(giver2)
      <4>1. PICK v \in W : giver[v] # Idle /\ x = giver[v].buf
        BY <2>2, <3>2
      <4>2. v # w
        BY <3>2, <4>1 DEF b
      <4> QED BY <1>1, <2>1, <4>1, <4>2
    <3> QED BY <3>1, <3>2
  <2> QED BY <2>3
<1>8. b \notin Queued(queue) \cup Taken(taker)
  BY <1>2 DEF Exclusive
<1>9. \A d, e \in C : \A i \in DOMAIN queue2[d], j \in DOMAIN queue2[e] :
        queue2[d][i] = queue2[e][j] => d = e /\ i = j
  <2>1. /\ Len(queue[c]) \in Nat /\ DOMAIN queue[c] = 1..Len(queue[c])
        /\ DOMAIN queue2[c] = 1..(Len(queue[c]) + 1)
        /\ \A i \in 1..Len(queue[c]) : queue2[c][i] = queue[c][i]
        /\ queue2[c][Len(queue[c]) + 1] = b
        /\ \A d \in C : d # c => queue2[d] = queue[d]
    BY <1>1, <1>3
  <2>2. \A d \in C : \A i \in DOMAIN queue2[d] :
          \/ i \in DOMAIN queue[d] /\ queue2[d][i] = queue[d][i]
          \/ d = c /\ i = Len(queue[c]) + 1 /\ queue2[d][i] = b
    BY <2>1
  <2>3. \A d \in C : \A i \in DOMAIN queue[d] : queue[d][i] # b
    <3>1. \A d \in C : \A i \in DOMAIN queue[d] : queue[d][i] \in Queued(queue)
      BY <1>1 DEF Queued, Range
    <3> QED BY <1>8, <3>1
  <2>4. \A d, e \in C : \A i \in DOMAIN queue[d], j \in DOMAIN queue[e] :
          queue[d][i] = queue[e][j] => d = e /\ i = j
    BY <1>1 DEF Exclusive
  <2>5. ASSUME NEW d \in C, NEW e \in C, NEW i \in DOMAIN queue2[d], NEW j \in DOMAIN queue2[e],
               queue2[d][i] = queue2[e][j]
        PROVE  d = e /\ i = j
    <3>1. CASE i \in DOMAIN queue[d] /\ queue2[d][i] = queue[d][i]
      <4>1. queue2[d][i] # b
        BY <2>3, <3>1
      <4>2. queue2[e][j] # b
        BY <2>5, <4>1
      <4>3. j \in DOMAIN queue[e] /\ queue2[e][j] = queue[e][j]
        BY <2>2, <4>2
      <4>4. queue[d][i] = queue[e][j]
        BY <2>5, <3>1, <4>3
      <4> QED BY <2>4, <2>5, <3>1, <4>3, <4>4
    <3>2. CASE d = c /\ i = Len(queue[c]) + 1 /\ queue2[d][i] = b
      <4>1. ~(j \in DOMAIN queue[e] /\ queue2[e][j] = queue[e][j])
        BY <2>3, <2>5, <3>2
      <4>2. e = c /\ j = Len(queue[c]) + 1
        BY <2>2, <4>1
      <4> QED BY <3>2, <4>2
    <3> QED BY <2>2, <3>1, <3>2
  <2> QED BY <2>5
<1>10. Exclusive(pool, giver2, queue2, taker)
  <2>1. \A u, v \in W :
          giver2[u] # Idle /\ giver2[v] # Idle /\ giver2[u].buf = giver2[v].buf => u = v
    BY <1>1 DEF Exclusive
  <2>2. /\ \A u, v \in DOMAIN taker : taker[u] # Idle /\ taker[u] = taker[v] => u = v
        /\ pool \cap (Given(giver) \cup Queued(queue) \cup Taken(taker)) = {}
        /\ Given(giver) \cap (Queued(queue) \cup Taken(taker)) = {}
        /\ Queued(queue) \cap Taken(taker) = {}
    BY DEF Exclusive
  <2>3. pool \cap (Given(giver2) \cup Queued(queue2) \cup Taken(taker)) = {}
    BY <1>2, <1>4, <1>7, <2>2
  <2>4. Given(giver2) \cap (Queued(queue2) \cup Taken(taker)) = {}
    BY <1>4, <1>7, <2>2
  <2>5. Queued(queue2) \cap Taken(taker) = {}
    BY <1>4, <1>8, <2>2
  <2>6. \A d, e \in DOMAIN queue2 : \A i \in DOMAIN queue2[d], j \in DOMAIN queue2[e] :
          queue2[d][i] = queue2[e][j] => d = e /\ i = j
    BY <1>5, <1>9
  <2>7. \A u, v \in DOMAIN giver2 :
          giver2[u] # Idle /\ giver2[v] # Idle /\ giver2[u].buf = giver2[v].buf => u = v
    BY <1>1, <2>1
  <2> QED BY <2>2, <2>3, <2>4, <2>5, <2>6, <2>7, Zenon DEF Exclusive
<1>11. Places(giver2, queue2, taker, W, C, T)
  BY <1>1, <1>4 DEF Places
<1> QED
  BY <1>2, <1>4, <1>7, <1>10, <1>11 DEF b, Plus, Minus

(* A worker receives the first buffer of a channel.                           *)
LEMMA ReceiveFromChannel ==
    ASSUME NEW pool, NEW giver, NEW queue, NEW taker, NEW W, NEW C, NEW T, C \subseteq Nat,
           Places(giver, queue, taker, W, C, T), Exclusive(pool, giver, queue, taker),
           NEW c \in C, queue[c] # <<>>,
           NEW queue2, Shortened(queue, queue2, c)
    PROVE  /\ Exclusive(pool, giver, queue2, taker)
           /\ Places(giver, queue2, taker, W, C, T)
           /\ Head(queue[c]) \in Buffer \cap Queued(queue)
           /\ Minus(Queued(queue), Head(queue[c]), Queued(queue2))
           /\ Head(queue[c]) \notin pool \cup Given(giver) \cup Taken(taker)
<1> DEFINE b == Head(queue[c])
           n == Len(queue[c])
<1>1. queue \in [C -> Seq(Buffer)] /\ DOMAIN queue = C /\ queue[c] \in Seq(Buffer)
  BY DEF Places
<1>2. /\ n \in Nat /\ n >= 1 /\ DOMAIN queue[c] = 1..n /\ queue[c][1] = b /\ b \in Buffer
      /\ Tail(queue[c]) \in Seq(Buffer) /\ DOMAIN Tail(queue[c]) = 1..(n - 1)
      /\ \A i \in 1..(n - 1) : Tail(queue[c])[i] = queue[c][i + 1]
  BY <1>1, EmptySeq, HeadTailProperties, LenProperties
<1>3. /\ queue2 \in [C -> Seq(Buffer)] /\ DOMAIN queue2 = C /\ queue2[c] = Tail(queue[c])
      /\ \A d \in C : d # c => queue2[d] = queue[d]
  BY <1>1, <1>2 DEF Shortened
<1> HIDE DEF b, n
<1>4. 1 \in 1..n /\ \A i \in 1..(n - 1) : i + 1 \in 1..n /\ i + 1 # 1
  BY <1>2
<1>5. \A i \in 1..n : i = 1 \/ \E j \in 1..(n - 1) : i = j + 1
  <2>1. \A i \in 1..n : i = 1 \/ (i - 1 \in 1..(n - 1) /\ i = (i - 1) + 1)
    BY <1>2
  <2> QED BY <2>1
<1>6. \A d, e \in C : \A i \in DOMAIN queue[d], j \in DOMAIN queue[e] :
        queue[d][i] = queue[e][j] => d = e /\ i = j
  BY <1>1 DEF Exclusive
<1>7. b \in Queued(queue)
  BY <1>1, <1>2, <1>4 DEF Queued, Range
<1>8. \A d \in C : \A i \in DOMAIN queue2[d] :
        \/ d # c /\ i \in DOMAIN queue[d] /\ queue2[d][i] = queue[d][i]
        \/ d = c /\ i \in 1..(n - 1) /\ i + 1 \in DOMAIN queue[c] /\ queue2[d][i] = queue[c][i + 1]
  BY <1>2, <1>3, <1>4
<1>9. \A d \in C : \A i \in DOMAIN queue2[d] : queue2[d][i] # b
  BY <1>2, <1>4, <1>6, <1>8
<1>10. \A d \in C : \A i \in DOMAIN queue[d] :
         queue[d][i] # b => \E k \in DOMAIN queue2[d] : queue2[d][k] = queue[d][i]
  <2> SUFFICES ASSUME NEW d \in C, NEW i \in DOMAIN queue[d], queue[d][i] # b
               PROVE  \E k \in DOMAIN queue2[d] : queue2[d][k] = queue[d][i]
    OBVIOUS
  <2>1. CASE d # c
    BY <1>3, <2>1
  <2>2. CASE d = c
    <3>1. PICK j \in 1..(n - 1) : i = j + 1
      BY <1>2, <1>5, <2>2
    <3> QED BY <1>2, <1>3, <2>2, <3>1
  <2> QED BY <2>1, <2>2
<1>11. Queued(queue2) = Queued(queue) \ {b}
  <2>1. ASSUME NEW x
        PROVE  x \in Queued(queue2) <=> \E d \in C : \E i \in DOMAIN queue2[d] : x = queue2[d][i]
    <3>1. x \in Queued(queue2)
            <=> \E d \in DOMAIN queue2 : \E i \in DOMAIN queue2[d] : x = queue2[d][i]
      <4>1. \A q : x \in Queued(q)
                     <=> \E d \in DOMAIN q : \E i \in DOMAIN q[d] : x = q[d][i]
        BY InQueued
      <4> QED BY <4>1, Zenon
    <3> QED BY <1>3, <3>1
  <2>2. ASSUME NEW x
        PROVE  x \in Queued(queue) <=> \E d \in C : \E i \in DOMAIN queue[d] : x = queue[d][i]
    <3>1. x \in Queued(queue)
            <=> \E d \in DOMAIN queue : \E i \in DOMAIN queue[d] : x = queue[d][i]
      BY InQueued
    <3> QED BY <1>1, <3>1
  <2>3. ASSUME NEW x, x \in Queued(queue2) PROVE x \in Queued(queue) \ {b}
    BY <1>8, <1>9, <2>1, <2>2, <2>3
  <2>4. ASSUME NEW x, x \in Queued(queue), x # b PROVE x \in Queued(queue2)
    <3>1. PICK d \in C : \E i \in DOMAIN queue[d] : x = queue[d][i]
      BY <2>2, <2>4
    <3>2. PICK i \in DOMAIN queue[d] : x = queue[d][i]
      BY <3>1
    <3>3. d \in C /\ \E k \in DOMAIN queue2[d] : queue2[d][k] = x
      BY <1>10, <2>4, <3>1, <3>2
    <3> QED BY <2>1, <3>3
  <2> QED BY <2>3, <2>4
<1>12. \A d, e \in DOMAIN queue2 : \A i \in DOMAIN queue2[d], j \in DOMAIN queue2[e] :
         queue2[d][i] = queue2[e][j] => d = e /\ i = j
  <2> SUFFICES ASSUME NEW d \in C, NEW e \in C, NEW i \in DOMAIN queue2[d],
                      NEW j \in DOMAIN queue2[e], queue2[d][i] = queue2[e][j]
               PROVE  d = e /\ i = j
    BY <1>3
  <2>1. CASE d # c
    <3>1. i \in DOMAIN queue[d] /\ queue2[d][i] = queue[d][i]
      BY <1>8, <2>1
    <3>2. CASE e # c
      <4>1. j \in DOMAIN queue[e] /\ queue2[e][j] = queue[e][j]
        BY <1>8, <3>2
      <4>2. queue[d][i] = queue[e][j]
        BY <3>1, <4>1
      <4> QED BY <1>6, <3>1, <4>1, <4>2
    <3>3. CASE e = c
      <4>1. j + 1 \in DOMAIN queue[c] /\ queue2[e][j] = queue[c][j + 1]
        BY <1>8, <3>3
      <4>2. queue[d][i] = queue[c][j + 1]
        BY <3>1, <4>1
      <4>3. d = c
        BY <1>6, <3>1, <4>1, <4>2
      <4> QED BY <2>1, <4>3
    <3> QED BY <3>2, <3>3
  <2>2. CASE d = c
    <3>1. /\ i \in 1..(n - 1) /\ i + 1 \in DOMAIN queue[c] /\ queue2[d][i] = queue[c][i + 1]
      BY <1>8, <2>2
    <3>2. e = c
      <4> SUFFICES ASSUME e # c PROVE FALSE
        OBVIOUS
      <4>1. j \in DOMAIN queue[e] /\ queue2[e][j] = queue[e][j]
        BY <1>8
      <4>2. queue[c][i + 1] = queue[e][j]
        BY <3>1, <4>1
      <4> QED BY <1>6, <3>1, <4>1, <4>2
    <3>3. /\ j \in 1..(n - 1) /\ j + 1 \in DOMAIN queue[c] /\ queue2[e][j] = queue[c][j + 1]
      BY <1>8, <3>2
    <3>4. queue[c][i + 1] = queue[c][j + 1]
      BY <3>1, <3>3
    <3>5. i + 1 = j + 1
      BY <1>6, <3>1, <3>3, <3>4
    <3>6. i = j
      BY <1>2, <3>1, <3>3, <3>5
    <3> QED BY <2>2, <3>2, <3>6
  <2> QED BY <2>1, <2>2
<1>13. /\ \A u, v \in DOMAIN giver :
            giver[u] # Idle /\ giver[v] # Idle /\ giver[u].buf = giver[v].buf => u = v
       /\ \A u, v \in DOMAIN taker : taker[u] # Idle /\ taker[u] = taker[v] => u = v
       /\ pool \cap (Given(giver) \cup Queued(queue) \cup Taken(taker)) = {}
       /\ Given(giver) \cap (Queued(queue) \cup Taken(taker)) = {}
       /\ Queued(queue) \cap Taken(taker) = {}
  BY DEF Exclusive
<1>14. Exclusive(pool, giver, queue2, taker)
  <2>1. /\ pool \cap (Given(giver) \cup Queued(queue2) \cup Taken(taker)) = {}
        /\ Given(giver) \cap (Queued(queue2) \cup Taken(taker)) = {}
        /\ Queued(queue2) \cap Taken(taker) = {}
    BY <1>11, <1>13
  <2> QED BY <1>12, <1>13, <2>1, Zenon DEF Exclusive
<1>15. b \notin pool \cup Given(giver) \cup Taken(taker)
  BY <1>7, <1>13
<1>16. Places(giver, queue2, taker, W, C, T)
  BY <1>3 DEF Places
<1> QED
  BY <1>2, <1>7, <1>11, <1>14, <1>15, <1>16 DEF b, Minus

(* It keeps the buffer it received.                                           *)
LEMMA TakeBuffer ==
    ASSUME NEW pool, NEW giver, NEW queue, NEW taker, NEW W, NEW C, NEW T,
           Places(giver, queue, taker, W, C, T), Exclusive(pool, giver, queue, taker),
           NEW t \in T, taker[t] = Idle, NEW b \in Buffer,
           b \notin pool \cup Given(giver) \cup Queued(queue) \cup Taken(taker),
           NEW taker2, Updated(taker, taker2, t, b)
    PROVE  /\ Exclusive(pool, giver, queue, taker2)
           /\ Places(giver, queue, taker2, W, C, T)
           /\ Plus(Taken(taker), b, Taken(taker2))
<1>1. /\ DOMAIN taker = T /\ DOMAIN taker2 = T /\ taker2 \in [T -> Buffer \cup {Idle}]
      /\ taker2[t] = b /\ \A u \in T : u # t => taker2[u] = taker[u]
  BY DEF Places, Updated
<1>2. b # Idle
  BY PipelineAssumption
<1>3. \A x : x \in Taken(taker) <=> x # Idle /\ \E u \in T : x = taker[u]
  BY <1>1 DEF Taken
<1>4. \A x : x \in Taken(taker2) <=> x # Idle /\ \E u \in T : x = taker2[u]
  BY <1>1 DEF Taken
<1>5. Taken(taker2) = Taken(taker) \cup {b}
  <2>1. ASSUME NEW x, x \in Taken(taker2) PROVE x \in Taken(taker) \cup {b}
    BY <1>1, <1>3, <1>4, <2>1
  <2>2. ASSUME NEW x, x \in Taken(taker) PROVE x \in Taken(taker2)
    <3>1. PICK u \in T : x = taker[u] /\ x # Idle
      BY <1>3, <2>2
    <3>2. x = taker2[u]
      BY <1>1, <3>1
    <3> QED BY <1>4, <3>1, <3>2
  <2>3. b \in Taken(taker2)
    BY <1>1, <1>2, <1>4
  <2> QED BY <2>1, <2>2, <2>3
<1>6. \A u, v \in DOMAIN taker2 : taker2[u] # Idle /\ taker2[u] = taker2[v] => u = v
  <2>1. \A u \in T : taker[u] # b
    BY <1>2, <1>3
  <2>2. \A u, v \in T : taker[u] # Idle /\ taker[u] = taker[v] => u = v
    BY <1>1 DEF Exclusive
  <2> QED BY <1>1, <2>1, <2>2
<1>7. /\ \A u, v \in DOMAIN giver :
           giver[u] # Idle /\ giver[v] # Idle /\ giver[u].buf = giver[v].buf => u = v
      /\ \A d, e \in DOMAIN queue : \A i \in DOMAIN queue[d], j \in DOMAIN queue[e] :
           queue[d][i] = queue[e][j] => d = e /\ i = j
      /\ pool \cap (Given(giver) \cup Queued(queue) \cup Taken(taker)) = {}
      /\ Given(giver) \cap (Queued(queue) \cup Taken(taker)) = {}
      /\ Queued(queue) \cap Taken(taker) = {}
  BY DEF Exclusive
<1>8. /\ pool \cap (Given(giver) \cup Queued(queue) \cup Taken(taker2)) = {}
      /\ Given(giver) \cap (Queued(queue) \cup Taken(taker2)) = {}
      /\ Queued(queue) \cap Taken(taker2) = {}
  <2>1. b \notin pool /\ b \notin Given(giver) /\ b \notin Queued(queue)
    OBVIOUS
  <2>2. pool \cap (Given(giver) \cup Queued(queue) \cup Taken(taker2)) = {}
    BY <1>5, <1>7, <2>1
  <2>3. Given(giver) \cap (Queued(queue) \cup Taken(taker2)) = {}
    BY <1>5, <1>7, <2>1
  <2>4. Queued(queue) \cap Taken(taker2) = {}
    BY <1>5, <1>7, <2>1
  <2> QED BY <2>2, <2>3, <2>4
<1>9. Exclusive(pool, giver, queue, taker2)
  BY <1>6, <1>7, <1>8, Zenon DEF Exclusive
<1> QED
  BY <1>1, <1>5, <1>9 DEF Places, Plus

(* It is done with it.                                                        *)
LEMMA GiveUpBuffer ==
    ASSUME NEW pool, NEW giver, NEW queue, NEW taker, NEW W, NEW C, NEW T,
           Places(giver, queue, taker, W, C, T), Exclusive(pool, giver, queue, taker),
           NEW t \in T, taker[t] # Idle,
           NEW taker2, Updated(taker, taker2, t, Idle)
    PROVE  /\ Exclusive(pool, giver, queue, taker2)
           /\ Places(giver, queue, taker2, W, C, T)
           /\ Minus(Taken(taker), taker[t], Taken(taker2))
           /\ taker[t] \in Buffer
           /\ taker[t] \notin Given(giver) \cup Queued(queue) \cup Taken(taker2)
<1>1. /\ DOMAIN taker = T /\ DOMAIN taker2 = T /\ taker2 \in [T -> Buffer \cup {Idle}]
      /\ taker2[t] = Idle /\ \A u \in T : u # t => taker2[u] = taker[u]
      /\ taker[t] \in Buffer
  BY DEF Places, Updated
<1>2. \A u, v \in T : taker[u] # Idle /\ taker[u] = taker[v] => u = v
  BY <1>1 DEF Exclusive
<1>3. \A x : x \in Taken(taker) <=> x # Idle /\ \E u \in T : x = taker[u]
  BY <1>1 DEF Taken
<1>4. \A x : x \in Taken(taker2) <=> x # Idle /\ \E u \in T : x = taker2[u]
  BY <1>1 DEF Taken
<1>5. Taken(taker2) = Taken(taker) \ {taker[t]}
  <2>1. ASSUME NEW x, x \in Taken(taker2) PROVE x \in Taken(taker) \ {taker[t]}
    BY <1>1, <1>2, <1>3, <1>4, <2>1
  <2>2. ASSUME NEW x, x \in Taken(taker), x # taker[t] PROVE x \in Taken(taker2)
    <3>1. PICK u \in T : x = taker[u] /\ x # Idle
      BY <1>3, <2>2
    <3>2. u # t
      BY <2>2, <3>1
    <3>3. x = taker2[u]
      BY <1>1, <3>1, <3>2
    <3> QED BY <1>4, <3>1, <3>3
  <2> QED BY <2>1, <2>2
<1>6. \A u, v \in DOMAIN taker2 : taker2[u] # Idle /\ taker2[u] = taker2[v] => u = v
  BY <1>1, <1>2
<1>7. /\ \A u, v \in DOMAIN giver :
           giver[u] # Idle /\ giver[v] # Idle /\ giver[u].buf = giver[v].buf => u = v
      /\ \A d, e \in DOMAIN queue : \A i \in DOMAIN queue[d], j \in DOMAIN queue[e] :
           queue[d][i] = queue[e][j] => d = e /\ i = j
      /\ pool \cap (Given(giver) \cup Queued(queue) \cup Taken(taker)) = {}
      /\ Given(giver) \cap (Queued(queue) \cup Taken(taker)) = {}
      /\ Queued(queue) \cap Taken(taker) = {}
  BY DEF Exclusive
<1>8. taker[t] \in Taken(taker)
  BY <1>3
<1>9. /\ pool \cap (Given(giver) \cup Queued(queue) \cup Taken(taker2)) = {}
      /\ Given(giver) \cap (Queued(queue) \cup Taken(taker2)) = {}
      /\ Queued(queue) \cap Taken(taker2) = {}
      /\ taker[t] \notin Given(giver) \cup Queued(queue) \cup Taken(taker2)
  BY <1>5, <1>7, <1>8
<1>10. Exclusive(pool, giver, queue, taker2)
  BY <1>6, <1>7, <1>9, Zenon DEF Exclusive
<1> QED
  BY <1>1, <1>5, <1>9, <1>10 DEF Places, Minus

(* A buffer nobody has goes back to its pool.                                 *)
LEMMA PutIntoPool ==
    ASSUME NEW pool, NEW giver, NEW queue, NEW taker, Exclusive(pool, giver, queue, taker),
           NEW b, b \notin Given(giver) \cup Queued(queue) \cup Taken(taker)
    PROVE  Exclusive(pool \cup {b}, giver, queue, taker)
<1>1. (pool \cup {b}) \cap (Given(giver) \cup Queued(queue) \cup Taken(taker)) = {}
  BY DEF Exclusive
<1> QED
  BY <1>1, Zenon DEF Exclusive

-----------------------------------------------------------------------------
(* What is done with a packet, and what is made.                              *)

LEMMA SequenceOf ==
    ASSUME NEW S, NEW n \in Nat, NEW f, f \in [1..n -> S]
    PROVE  f \in Seq(S)
OBVIOUS

(* A decoder that had another packet before decides as if it were new.        *)
Decoded(d, p, ts, e) == e = [DecodeLayers(d, p) EXCEPT !.ts = ts, !.fromTX = FALSE]

LEMMA DecodesOne ==
    ASSUME NEW d, IsDecoder(d), NEW p, IsPacket(p), NEW ts,
           NEW e, Decoded(d, p, ts, e)
    PROVE  IsDecoder(e) /\ e.ts = ts /\ HandlePacket(e) = Promised(p)
<1>1. p.kind \in {"arp", "icmp", "udp"}
  BY DEF IsPacket
<1>2. CASE p.kind = "arp"
  <2> DEFINE r == [layers |-> {"arp"}, ts |-> ts, fromTX |-> FALSE, arp |-> p.arp, ip |-> d.ip,
                   udp |-> d.udp, icmp |-> d.icmp]
  <2>1. e = r
    BY <1>2 DEF IsDecoder, DecodeLayers, Decoded
  <2>2. Promised(p) = IF p.arp.op = "request"
                      THEN <<[do |-> "arpReply", client |-> None, for |-> p.arp.target]>> ELSE <<>>
    BY <1>2 DEF Promised
  <2>3. ASSUME NEW x, x = r PROVE IsDecoder(x) /\ x.ts = ts /\ HandlePacket(x) = Promised(p)
    <3>1. "arp" \in x.layers /\ "icmp" \notin x.layers /\ "udp" \notin x.layers /\ x.fromTX = FALSE
      BY <2>3
    <3>2. ~x.fromTX
      BY <3>1, Zenon
    <3>3. x.arp = p.arp
      BY <2>3
    <3>4. IsDecoder(x) /\ x.ts = ts
      BY <2>3 DEF IsDecoder
    <3> HIDE DEF r
    <3>5. HandlePacket(x) = IF x.fromTX THEN <<>> ELSE handleARPIncoming(x)
      BY <3>1 DEF HandlePacket
    <3>6. HandlePacket(x) = handleARPIncoming(x)
      BY <3>2, <3>5, Zenon
    <3>7. handleARPIncoming(x) = Promised(p)
      BY <2>2, <3>3 DEF handleARPIncoming
    <3> QED BY <3>4, <3>6, <3>7
  <2> HIDE DEF r
  <2> QED BY <2>1, <2>3
<1>3. CASE p.kind = "icmp"
  <2> DEFINE r == [layers |-> {"ip", "icmp"}, ts |-> ts, fromTX |-> FALSE, arp |-> d.arp, ip |-> p.dst,
                   udp |-> d.udp, icmp |-> p.icmp]
  <2>1. e = r
    BY <1>3 DEF IsDecoder, DecodeLayers, Decoded
  <2>2. Promised(p) = IF p.dst = "multicast" /\ p.icmp.type = "solicitation"
                         /\ p.icmp.target \in Client
                      THEN <<[do |-> "advertise", client |-> None, for |-> p.icmp.target]>> ELSE <<>>
    BY <1>3 DEF Promised
  <2>3. ASSUME NEW x, x = r PROVE IsDecoder(x) /\ x.ts = ts /\ HandlePacket(x) = Promised(p)
    <3>1. "icmp" \in x.layers /\ "arp" \notin x.layers /\ "udp" \notin x.layers /\ x.fromTX = FALSE
      BY <2>3
    <3>2. ~x.fromTX
      BY <3>1, Zenon
    <3>3. x.ip = p.dst /\ x.icmp = p.icmp
      BY <2>3
    <3>4. IsDecoder(x) /\ x.ts = ts
      BY <2>3 DEF IsDecoder
    <3> HIDE DEF r
    <3>5. HandlePacket(x) = IF x.fromTX THEN <<>> ELSE handleICMPv6Incoming(x)
      BY <3>1 DEF HandlePacket
    <3>6. HandlePacket(x) = handleICMPv6Incoming(x)
      BY <3>2, <3>5, Zenon
    <3>7. handleICMPv6Incoming(x) = Promised(p)
      BY <2>2, <3>3 DEF handleICMPv6Incoming
    <3> QED BY <3>4, <3>6, <3>7
  <2> HIDE DEF r
  <2> QED BY <2>1, <2>3
<1>4. CASE p.kind = "udp"
  <2> DEFINE r == [layers |-> {"ip", "udp"}, ts |-> ts, fromTX |-> FALSE, arp |-> d.arp, ip |-> p.dst,
                   udp |-> [port |-> p.port, payload |-> p.payload], icmp |-> d.icmp]
  <2>1. e = r
    BY <1>4 DEF IsDecoder, DecodeLayers, Decoded
  <2>2. Promised(p) = IF p.port \in {"event", "general"} /\ p.dst \in Client
                      THEN HandlePTP(p.dst, p.message) ELSE <<>>
    BY <1>4 DEF Promised
  <2>3. FromBytes(p.payload) = p.message
    BY <1>4, DecodesWhatWasWritten DEF IsPacket
  <2>4. ASSUME NEW x, x = r PROVE IsDecoder(x) /\ x.ts = ts /\ HandlePacket(x) = Promised(p)
    <3>1. "udp" \in x.layers /\ "arp" \notin x.layers /\ "icmp" \notin x.layers /\ x.fromTX = FALSE
      BY <2>4
    <3>2. ~x.fromTX
      BY <3>1, Zenon
    <3>3. x.ip = p.dst /\ x.udp.port = p.port /\ x.udp.payload = p.payload
      BY <2>4
    <3>4. IsDecoder(x) /\ x.ts = ts
      BY <2>4 DEF IsDecoder
    <3> HIDE DEF r
    <3>5. HandlePacket(x) = handleUDPIncoming(x)
      BY <3>1, <3>2 DEF HandlePacket
    <3>6. handleUDPIncoming(x) = Promised(p)
      BY <2>2, <2>3, <3>3 DEF handleUDPIncoming
    <3> QED BY <3>4, <3>5, <3>6
  <2> HIDE DEF r
  <2> QED BY <2>1, <2>4
<1> QED
  BY <1>1, <1>2, <1>3, <1>4

(* The answers to a message are grants taken and times noted.                 *)
LEMMA HandlePTPType ==
    ASSUME NEW c \in Client, NEW m, IsMessage(m)
    PROVE  HandlePTP(c, m) \in Seq(Done)
<1>1. CASE m.kind = "signaling"
  <2> DEFINE tlvs == HandledTlvs(m.tlvs)
             answer(t) == IF t.type = "grant"
                          THEN <<[do |-> "grant", client |-> c, for |-> t.for]>> ELSE <<>>
             answers == [i \in DOMAIN tlvs |-> answer(tlvs[i])]
  <2>1. m.tlvs \in Seq(WrittenTlv)
    <3>1. \A k \in DOMAIN FixedBody : k # "signaling"
      BY DEF FixedBody
    <3>2. ~\E k \in DOMAIN FixedBody :
             m = [kind |-> k, seq |-> m.seq, messageLength |-> HeaderSize + FixedBody[k]]
      BY <1>1, <3>1
    <3> QED BY <3>2 DEF IsMessage
  <2>2. tlvs \in Seq(WrittenTlv)
    <3> DEFINE ends(t) == t.type \notin {"grant", "cancel"} \/ (t.type = "grant" /\ t.duration = 0)
               E == {i \in DOMAIN m.tlvs : ends(m.tlvs[i])}
               n == IF \E i \in DOMAIN m.tlvs : ends(m.tlvs[i]) THEN Min(E) - 1 ELSE Len(m.tlvs)
    <3>1. tlvs = SubSeq(m.tlvs, 1, n)
      BY DEF HandledTlvs
    <3>2. n \in 0..Len(m.tlvs)
      <4>1. E \subseteq 1..Len(m.tlvs) /\ Len(m.tlvs) \in Nat
        BY <2>1
      <4>2. CASE \E i \in DOMAIN m.tlvs : ends(m.tlvs[i])
        <5>1. E # {} /\ E \subseteq Nat
          BY <4>1, <4>2
        <5> HIDE DEF E
        <5>2. Min(E) \in E
          BY <5>1, MinIsLeast
        <5> QED BY <4>1, <4>2, <5>2
      <4>3. CASE ~\E i \in DOMAIN m.tlvs : ends(m.tlvs[i])
        BY <4>1, <4>3
      <4> QED BY <4>2, <4>3
    <3> HIDE DEF n, tlvs
    <3>3. \A i \in 1..n : m.tlvs[i] \in WrittenTlv
      BY <2>1, <3>2
    <3>4. SubSeq(m.tlvs, 1, n) \in Seq(WrittenTlv)
      BY <3>2, <3>3, SubSeqProperties
    <3> QED BY <3>1, <3>4
  <2> HIDE DEF tlvs
  <2>3. ASSUME NEW i \in DOMAIN tlvs PROVE answer(tlvs[i]) \in Seq(Done)
    <3>1. tlvs[i] \in WrittenTlv
      BY <2>2
    <3>2. tlvs[i].for \in DOMAIN NextRequest
      BY <3>1 DEF WrittenTlv, NextRequest
    <3>3. [do |-> "grant", client |-> c, for |-> tlvs[i].for] \in Done
      BY <3>2 DEF Done
    <3> HIDE DEF Done
    <3> QED BY <3>3
  <2>4. answers \in Seq(Seq(Done))
    <3>1. DOMAIN tlvs = 1..Len(tlvs) /\ Len(tlvs) \in Nat
      BY <2>2
    <3> HIDE DEF answer
    <3>2. answers \in [1..Len(tlvs) -> Seq(Done)]
      BY <2>3, <3>1
    <3> HIDE DEF answers
    <3> QED BY <3>1, <3>2, SequenceOf
  <2>5. HandlePTP(c, m) = FlattenSeq(answers)
    BY <1>1 DEF HandlePTP, tlvs
  <2> HIDE DEF answers
  <2> QED BY <2>4, <2>5, FlattenType
<1>2. CASE m.kind \in {"announce", "sync", "followUp", "delayResp"}
  <2>1. HandlePTP(c, m) = <<[do |-> "note", client |-> c, for |-> m.kind]>>
    BY <1>2 DEF HandlePTP
  <2>2. [do |-> "note", client |-> c, for |-> m.kind] \in Done
    BY <1>2 DEF Done, NextRequest
  <2> QED BY <2>1, <2>2
<1>3. CASE m.kind \notin {"signaling", "announce", "sync", "followUp", "delayResp"}
  BY <1>3 DEF HandlePTP
<1> QED
  BY <1>1, <1>2, <1>3

LEMMA PromisedType ==
    ASSUME NEW l \in Load, NEW i \in DOMAIN l.arrivals
    PROVE  Promised(l.arrivals[i]) \in Seq(Done)
<1> DEFINE p == l.arrivals[i]
<1>1. IsPacket(p)
  BY PipelineAssumption
<1>2. p.kind \in {"arp", "icmp", "udp"}
  BY <1>1 DEF IsPacket
<1>3. CASE p.kind = "arp"
  <2>1. p.arp.target \in Target
    BY <1>3 DEF Target
  <2>2. [do |-> "arpReply", client |-> None, for |-> p.arp.target] \in Done
    BY <2>1 DEF Done
  <2> HIDE DEF p, Done
  <2>3. Promised(p) \in {<<[do |-> "arpReply", client |-> None, for |-> p.arp.target]>>, <<>>}
    BY <1>3 DEF Promised
  <2>4. \A x \in Done : <<x>> \in Seq(Done)
    OBVIOUS
  <2>5. <<[do |-> "arpReply", client |-> None, for |-> p.arp.target]>> \in Seq(Done)
    BY <2>2, <2>4
  <2>6. <<>> \in Seq(Done)
    OBVIOUS
  <2>7. Promised(p) \in Seq(Done)
    BY <2>3, <2>5, <2>6
  <2> QED BY <2>7 DEF p
<1>4. CASE p.kind = "icmp"
  <2>1. p.icmp.target \in Client => [do |-> "advertise", client |-> None, for |-> p.icmp.target] \in Done
    BY DEF Done, Target
  <2> HIDE DEF p, Done
  <2>2. \/ Promised(p) = <<>>
        \/ /\ p.icmp.target \in Client
           /\ Promised(p) = <<[do |-> "advertise", client |-> None, for |-> p.icmp.target]>>
    BY <1>4 DEF Promised
  <2>3. \A x \in Done : <<x>> \in Seq(Done)
    OBVIOUS
  <2>4. p.icmp.target \in Client
          => <<[do |-> "advertise", client |-> None, for |-> p.icmp.target]>> \in Seq(Done)
    BY <2>1, <2>3
  <2>5. <<>> \in Seq(Done)
    OBVIOUS
  <2>6. Promised(p) \in Seq(Done)
    BY <2>2, <2>4, <2>5
  <2> QED BY <2>6 DEF p
<1>5. CASE p.kind = "udp"
  <2> HIDE DEF p
  <2>1. \/ Promised(p) = <<>>
        \/ p.dst \in Client /\ Promised(p) = HandlePTP(p.dst, p.message)
    BY <1>5 DEF Promised
  <2>2. IsMessage(p.message)
    BY <1>1, <1>5 DEF IsPacket
  <2>3. CASE Promised(p) = <<>>
    <3>1. <<>> \in Seq(Done)
      OBVIOUS
    <3> QED BY <2>3, <3>1 DEF p
  <2>4. CASE p.dst \in Client /\ Promised(p) = HandlePTP(p.dst, p.message)
    <3>1. HandlePTP(p.dst, p.message) \in Seq(Done)
      BY <2>2, <2>4, HandlePTPType
    <3> QED BY <2>4, <3>1 DEF p
  <2> QED BY <2>1, <2>3, <2>4
<1> QED
  BY <1>2, <1>3, <1>4, <1>5

LEMMA PacketsForType ==
    ASSUME NEW done \in Seq(Done)
    PROVE  PacketsFor(done) \in Seq(Work)
<1> DEFINE maker(e) ==
             CASE e.do = "grant" -> <<[make |-> "request", client |-> e.client,
                                       for |-> NextRequest[e.for]]>>
               [] e.do = "note" -> <<>>
               [] OTHER -> <<[make |-> e.do, client |-> None, for |-> e.for]>>
           makers == [i \in DOMAIN done |-> maker(done[i])]
<1>1. ASSUME NEW e \in Done PROVE maker(e) \in Seq(Work)
  <2>1. CASE e \in [do : {"grant"}, client : Client, for : DOMAIN NextRequest]
    <3>1. NextRequest[e.for] \in DOMAIN NextRequest \cup {"delayReq"}
      BY <2>1 DEF NextRequest
    <3>2. [make |-> "request", client |-> e.client, for |-> NextRequest[e.for]] \in Work
      BY <2>1, <3>1 DEF Work
    <3>3. maker(e) = <<[make |-> "request", client |-> e.client, for |-> NextRequest[e.for]]>>
      BY <2>1
    <3> QED BY <3>2, <3>3
  <2>2. CASE e.do = "note"
    BY <2>2
  <2>3. CASE e \in [do : {"arpReply", "advertise"}, client : {None}, for : Target]
    <3>1. [make |-> e.do, client |-> None, for |-> e.for] \in Work
      BY <2>3 DEF Work
    <3>2. maker(e) = <<[make |-> e.do, client |-> None, for |-> e.for]>>
      BY <2>3
    <3> QED BY <3>1, <3>2
  <2> HIDE DEF maker
  <2> QED BY <2>1, <2>2, <2>3 DEF Done
<1>2. DOMAIN done = 1..Len(done) /\ Len(done) \in Nat /\ \A i \in DOMAIN done : done[i] \in Done
  OBVIOUS
<1>3. makers \in Seq(Seq(Work))
  <2> HIDE DEF maker
  <2>1. makers \in [1..Len(done) -> Seq(Work)]
    BY <1>1, <1>2
  <2> HIDE DEF makers
  <2> QED BY <1>2, <2>1, SequenceOf
<1>4. PacketsFor(done) = FlattenSeq(makers)
  BY DEF PacketsFor
<1> HIDE DEF makers
<1> QED
  BY <1>3, <1>4, FlattenType

LEMMA NumberedType ==
    ASSUME NEW works \in Seq(Work), NEW i \in Nat
    PROVE  /\ Numbered(i, works) \in Seq(Item)
           /\ DOMAIN Numbered(i, works) \subseteq Nat
           /\ \A n \in DOMAIN Numbered(i, works) : Numbered(i, works)[n].id = <<i, n>>
<1>1. DOMAIN works = 1..Len(works) /\ Len(works) \in Nat /\ \A n \in DOMAIN works : works[n] \in Work
  OBVIOUS
<1>2. \A n \in DOMAIN works : [id |-> <<i, n>>, work |-> works[n]] \in Item
  BY <1>1 DEF Item
<1>3. Numbered(i, works) \in [1..Len(works) -> Item]
  BY <1>1, <1>2 DEF Numbered
<1>4. Numbered(i, works) \in Seq(Item)
  BY <1>1, <1>3, SequenceOf
<1> QED
  BY <1>1, <1>4 DEF Numbered

(* What is sent of a packet reads as it was meant.                            *)
LEMMA ReadsAsMade ==
    ASSUME NEW item, item.work \in Work
    PROVE  /\ Reads(SentAs(item)) = item.work
           /\ SentAs(item).cl = item.work.client
<1> DEFINE w == item.work
<1>1. CASE w \in [make : {"arpReply", "advertise"}, client : {None}, for : Target]
  <2>1. w = [make |-> w.make, client |-> None, for |-> w.for] /\ w.make \notin {"request", "udp"}
    BY <1>1
  <2>2. SentAs(item) = [data |-> [kind |-> w.make, target |-> w.for], cl |-> None]
    BY <2>1 DEF SentAs, Craft
  <2> QED BY <2>1, <2>2 DEF Reads
<1>2. CASE w \in [make : {"request"}, client : Client, for : DOMAIN NextRequest \cup {"delayReq"}]
  <2>1. w = [make |-> "request", client |-> w.client, for |-> w.for]
    BY <1>2
  <2>2. CASE w.for = "delayReq"
    <3>1. SentAs(item) = [data |-> [kind |-> "udp", src |-> w.client, port |-> "event",
                                    payload |-> Bytes(reqDelay(0))],
                          cl |-> w.client]
      BY <2>1, <2>2 DEF SentAs, Craft, craftSinglePktToGM
    <3>2. IsMessage(reqDelay(0)) /\ reqDelay(0).kind = "delayReq"
      BY DEF IsMessage, reqDelay, FixedBody, HeaderSize
    <3>3. FromBytes(Bytes(reqDelay(0))).kind = "delayReq"
      BY <3>2, DecodesWhatWasWritten
    <3> QED BY <2>1, <2>2, <3>1, <3>3 DEF Reads
  <2>3. CASE w.for # "delayReq"
    <3> DEFINE tlv == Tlv("request", w.for, 1)
               m == reqUnicast(w.for, 1, 0)
    <3>1. SentAs(item) = [data |-> [kind |-> "udp", src |-> w.client, port |-> "general",
                                    payload |-> Bytes(m)],
                          cl |-> w.client]
      BY <2>1, <2>3 DEF SentAs, Craft, craftSinglePktToGM
    <3>2. tlv \in WrittenTlv /\ tlv.type = "request" /\ tlv.for = w.for
      BY <1>2, <2>3 DEF WrittenTlv, Tlv, TlvBody, NextRequest
    <3> HIDE DEF tlv
    <3>3. <<tlv>> \in Seq(WrittenTlv) /\ <<tlv>> # <<>> /\ Len(<<tlv>>) = 1 /\ <<tlv>>[1] = tlv
          /\ 1 \in DOMAIN <<tlv>>
      BY <3>2
    <3>4. TlvOffset(<<tlv>>, 2) = HeaderSize + PortIdentitySize + TlvHeadSize + TlvBody[tlv.type]
      <4>1. TlvOffset(<<tlv>>, 1 + 1) = TlvOffset(<<tlv>>, 1) + TlvHeadSize + TlvBody[<<tlv>>[1].type]
        BY <3>3, OffsetEquation
      <4>2. TlvOffset(<<tlv>>, 1) = HeaderSize + PortIdentitySize
        BY <3>3, OffsetEquation
      <4> QED BY <3>3, <4>1, <4>2
    <3>5. m = [kind |-> "signaling", seq |-> 0, tlvs |-> <<tlv>>,
               messageLength |-> HeaderSize + PortIdentitySize + TlvHeadSize + TlvBody[tlv.type]]
      BY DEF reqUnicast, Signaling, tlv
    <3> HIDE DEF m
    <3>6. IsMessage(m)
      <4>1. m.tlvs = <<tlv>> /\ m.seq = 0 /\ Len(m.tlvs) + 1 = 2
        BY <3>3, <3>5
      <4>2. m = [kind |-> "signaling", seq |-> m.seq, tlvs |-> m.tlvs,
                 messageLength |-> TlvOffset(m.tlvs, Len(m.tlvs) + 1)]
        BY <3>4, <3>5, <4>1
      <4>3. m.tlvs \in Seq(WrittenTlv) \ {<<>>}
        BY <3>3, <4>1
      <4> QED BY <4>2, <4>3 DEF IsMessage
    <3>7. FromBytes(Bytes(m)) = m
      BY <3>6, DecodesWhatWasWritten
    <3>8. m.kind = "signaling" /\ m.tlvs[1].for = w.for
      BY <3>2, <3>3, <3>5
    <3> QED BY <2>1, <3>1, <3>7, <3>8 DEF Reads
  <2> QED BY <2>2, <2>3
<1> QED
  BY <1>1, <1>2 DEF Work

-----------------------------------------------------------------------------
(* The invariant.                                                             *)

LEMMA ChosenType ==
    ASSUME NEW picker \in 0..(Word32 - 1), NEW n \in Nat \ {0}
    PROVE  Advance(picker) \in 0..(Word32 - 1) /\ Chosen(picker, n) \in 0..(n - 1)
<1>1. Word32 \in Nat \ {0}
  BY PipelineAssumption
<1>2. Advance(picker) \in 0..(Word32 - 1)
  BY <1>1 DEF Advance
<1> QED
  BY <1>1, <1>2 DEF Chosen

LEMMA Counts ==
  /\ NumRXWorkers \in Nat \ {0} /\ NumPacketParsers \in Nat \ {0}
  /\ NumPacketProcessors \in Nat \ {0} /\ NumTXWorkers \in Nat \ {0}
  /\ Parser = 0..(NumPacketParsers - 1) /\ Parser \subseteq Nat
  /\ Processor = 0..(NumPacketProcessors - 1) /\ Processor \subseteq Nat
  /\ TX = 0..(NumTXWorkers - 1) /\ TX \subseteq Nat
BY PipelineAssumption DEF Parser, Processor, TX

(* What a pool gives: a pooled buffer or one that is new.                     *)
LEMMA GetFacts ==
    ASSUME NEW pool, pool \subseteq Buffer, NEW contents, NEW b \in Get(pool, contents)
    PROVE  b \in Buffer /\ (b \in pool \/ b \notin DOMAIN contents)
<1> DEFINE new == Buffer \ DOMAIN contents
<1>1. CASE new = {}
  BY <1>1 DEF Get
<1>2. CASE new # {}
  <2>1. new \subseteq Nat
    BY DEF Buffer
  <2>2. Min(new) \in new
    <3> HIDE DEF new
    <3> QED BY <1>2, <2>1, MinIsLeast
  <2> QED BY <1>2, <2>2 DEF Get
<1> QED
  BY <1>1, <1>2

LEMMA PlacesOK ==
    ASSUME TypeOK
    PROVE  /\ Places(rx, rawInput, <<>>, RX, Parser, {})
           /\ Places(parser, pktToProc, proc, Parser, Processor, Processor)
           /\ Places(hand, rawOutput, tx, Producer, TX, TX)
<1>1. <<>> \in [{} -> Buffer \cup {Idle}]
  OBVIOUS
<1>2. Channel \subseteq Seq(Buffer)
  BY DEF Channel
<1>3. /\ rawInput \in [Parser -> Seq(Buffer)] /\ pktToProc \in [Processor -> Seq(Buffer)]
      /\ rawOutput \in [TX -> Seq(Buffer)]
  BY <1>2 DEF TypeOK
<1> QED
  BY <1>1, <1>3 DEF TypeOK, Places, Hand

(* A channel that had room holds no more than its capacity after a send.      *)
LEMMA RoomForOne ==
    ASSUME NEW C, NEW queue \in [C -> Channel], NEW c \in C, NEW b \in Buffer,
           Len(queue[c]) < QueueSize
    PROVE  [queue EXCEPT ![c] = Append(@, b)] \in [C -> Channel]
<1>1. queue[c] \in Seq(Buffer) /\ Len(queue[c]) \in Nat /\ QueueSize \in Nat
  BY PipelineAssumption DEF Channel
<1>2. Append(queue[c], b) \in Seq(Buffer) /\ Len(Append(queue[c], b)) = Len(queue[c]) + 1
  BY <1>1
<1>3. Append(queue[c], b) \in Channel
  BY <1>1, <1>2 DEF Channel
<1> HIDE DEF Channel
<1> QED BY <1>3

LEMMA OneLess ==
    ASSUME NEW C, NEW queue \in [C -> Channel], NEW c \in C, queue[c] # <<>>
    PROVE  [queue EXCEPT ![c] = Tail(@)] \in [C -> Channel]
<1>1. queue[c] \in Seq(Buffer) /\ Len(queue[c]) \in Nat /\ Len(queue[c]) <= QueueSize
      /\ QueueSize \in Nat
  BY PipelineAssumption DEF Channel
<1>2. Tail(queue[c]) \in Seq(Buffer) /\ Len(Tail(queue[c])) = Len(queue[c]) - 1
  BY <1>1, HeadTailProperties
<1>3. Tail(queue[c]) \in Channel
  BY <1>1, <1>2 DEF Channel
<1> QED BY <1>3

LEMMA NobodyTaken == Taken(<<>>) = {}
BY DEF Taken

LEMMA WithFacts ==
    ASSUME NEW f, NEW x, NEW v
    PROVE  /\ \A y : y \in DOMAIN With(f, x, v) <=> y \in DOMAIN f \/ y = x
           /\ With(f, x, v)[x] = v
           /\ \A y \in DOMAIN f : y # x => With(f, x, v)[y] = f[y]
BY DEF With

(* The operations a handler sends go to heaps there are.                      *)
LEMMA OperationTypes ==
    /\ \A items : BeforeFirst(items) \in Seq(Heap)
    /\ \A pktType : After(pktType) \in Seq(Heap)
<1>1. /\ <<>> \in Seq(Heap) /\ <<"retransmit">> \in Seq(Heap)
      /\ <<"retransmit", "retransmit">> \in Seq(Heap)
      /\ <<"restart", "retransmit", "retransmit">> \in Seq(Heap)
  BY DEF Heap
<1>2. \A work : Before(work) \in Seq(Heap)
  BY <1>1 DEF Before
<1> QED
  BY <1>1, <1>2 DEF BeforeFirst, After

LEMMA InitInv ==
    ASSUME Init
    PROVE  IInv
<1>1. /\ Given(rx) = {} /\ Given(parser) = {} /\ Given(hand) = {}
      /\ Taken(proc) = {} /\ Taken(tx) = {} /\ Taken(<<>>) = {}
  BY DEF Init, Given, Taken
<1>2. Queued(rawInput) = {} /\ Queued(pktToProc) = {} /\ Queued(rawOutput) = {}
  BY DEF Init, Queued, Range
<1>3. TypeOK
  <2>1. \A C, B : [i \in C |-> Idle] \in [C -> {Idle} \cup B]
    OBVIOUS
  <2>2. <<>> \in Channel
    BY PipelineAssumption DEF Channel
  <2>3. PickerStart \subseteq 0..(Word32 - 1)
    BY PipelineAssumption
  <2>4. ops \in [Producer -> Seq(Heap)] /\ queued \in [Heap -> 0..OpQueueSize]
    BY OperationTypes, PipelineAssumption DEF Init
  <2> QED BY <2>1, <2>2, <2>3, <2>4 DEF Init, TypeOK, Hand
<1>4. SingleOwner
  <2>1. Exclusive(inPool, rx, rawInput, <<>>)
    BY <1>1, <1>2 DEF Init, Exclusive
  <2>2. Exclusive(decoderPool, parser, pktToProc, proc)
    BY <1>1, <1>2 DEF Init, Exclusive
  <2>3. Exclusive(outPool, hand, rawOutput, tx)
    BY <1>1, <1>2 DEF Init, Exclusive
  <2> QED BY <2>1, <2>2, <2>3 DEF SingleOwner
<1>5. HandledAsReceived
  BY DEF Init, HandledAsReceived, arrivals
<1> DEFINE works == [i \in DOMAIN load.due |->
                       [make |-> "request", client |-> load.due[i], for |-> "announce"]]
<1>6. works \in Seq(Work)
  <2>1. load.due \in Seq(Client)
    BY PipelineAssumption DEF Init
  <2>2. \A c \in Client : [make |-> "request", client |-> c, for |-> "announce"] \in Work
    BY DEF Work, NextRequest
  <2>3. DOMAIN load.due = 1..Len(load.due) /\ Len(load.due) \in Nat
    BY <2>1
  <2>4. \A i \in DOMAIN load.due : works[i] \in Work
    BY <2>1, <2>2
  <2>5. works \in [1..Len(load.due) -> Work]
    BY <2>3, <2>4
  <2> HIDE DEF works
  <2> QED BY <2>3, <2>5, SequenceOf
<1>7. todo = [q \in Producer |-> IF q = Engine THEN Numbered(0, works) ELSE <<>>]
  BY DEF Init
<1> HIDE DEF works
<1>8. /\ Numbered(0, works) \in Seq(Item)
      /\ DOMAIN Numbered(0, works) \subseteq Nat
      /\ \A n \in DOMAIN Numbered(0, works) : Numbered(0, works)[n].id = <<0, n>>
  BY <1>6, NumberedType
<1>9. \A q \in Producer : \A n \in DOMAIN todo[q] : q = Engine /\ todo[q][n].id = <<0, n>>
  BY <1>7, <1>8
<1>10. Shape
  <2>1. todo \in [Producer -> Seq(Item)]
    BY <1>7, <1>8
  <2> QED BY <2>1 DEF Init, Shape, arrivals
<1>11. InputOK /\ DecoderOK /\ OutputOK
  BY <1>1, <1>2 DEF Init, InputOK, DecoderOK, OutputOK, InBuffers, Decoders, OutBuffers
<1>12. MadeOK
  <2>1. DOMAIN made = {}
    BY DEF Init
  <2>2. \A q \in Producer : \A n \in DOMAIN todo[q] : todo[q][n].id[1] \in Sources
    BY <1>9 DEF Sources
  <2>3. \A q, r \in Producer : \A n \in DOMAIN todo[q], m \in DOMAIN todo[r] :
          todo[q][n].id = todo[r][m].id => q = r /\ n = m
    BY <1>9
  <2> QED BY <2>1, <2>2, <2>3 DEF MadeOK
<1> QED
  BY <1>3, <1>4, <1>5, <1>10, <1>11, <1>12 DEF IInv

(* What an action leaves alone.                                               *)
LEMMA InputUnchanged ==
    ASSUME InputOK, UNCHANGED <<rx, rawInput, inPacket, load, unread, outcome>>
    PROVE  InputOK'
BY DEF InputOK, InBuffers, Waiting, arrivals

LEMMA DecoderUnchanged ==
    ASSUME DecoderOK, UNCHANGED <<parser, pktToProc, proc, decoder, load, unread, outcome>>,
           \A b \in InBuffers' : b \in InBuffers /\ inPacket'[b].ts = inPacket[b].ts
    PROVE  DecoderOK'
BY DEF DecoderOK, Decoders, Waiting, arrivals

LEMMA OutputUnchanged ==
    ASSUME OutputOK, UNCHANGED <<hand, rawOutput, tx, outPacket, made>>
    PROVE  OutputOK'
BY DEF OutputOK, OutBuffers

LEMMA MadeUnchanged ==
    ASSUME MadeOK, UNCHANGED <<made, todo, load, outcome>>
    PROVE  MadeOK'
BY DEF MadeOK, Sources, arrivals

LEMMA RxReadInv ==
    ASSUME IInv, NEW r \in RX, RxRead(r)
    PROVE  IInv'
<1>1. /\ TypeOK /\ SingleOwner /\ HandledAsReceived
      /\ Shape /\ InputOK /\ DecoderOK /\ OutputOK /\ MadeOK
  BY DEF IInv
<1>2. PICK i \in unread, b \in Get(inPool, inPacket) :
        /\ unread' = unread \ {i}
        /\ inPool' = inPool \ {b}
        /\ inPacket' = With(inPacket, b, [data |-> arrivals[i], ts |-> i, fromTX |-> FALSE])
        /\ inChanToUse' = Advance(inChanToUse)
        /\ rx' = [rx EXCEPT ![r] = [buf |-> b, chan |-> Chosen(inChanToUse, NumPacketParsers)]]
  BY DEF RxRead
<1>3. /\ rx[r] = Idle
      /\ UNCHANGED <<load, rawInput, procVars, outVars, sendVars, opVars, parser, proc, todo,
                     outcome, gotTime>>
  BY DEF RxRead
<1>4. b \in Buffer /\ b \notin InBuffers
  <2>1. inPool \subseteq Buffer
    BY <1>1 DEF TypeOK
  <2>2. b \in Buffer /\ (b \in inPool \/ b \notin DOMAIN inPacket)
    BY <2>1, GetFacts
  <2>3. InBuffers \subseteq DOMAIN inPacket
    BY <1>1 DEF InputOK
  <2>4. inPool \cap InBuffers = {}
    BY <1>1 DEF SingleOwner, Exclusive, InBuffers
  <2> QED BY <2>2, <2>3, <2>4
<1> DEFINE c == Chosen(inChanToUse, NumPacketParsers)
<1>5. Advance(inChanToUse) \in 0..(Word32 - 1) /\ c \in Parser
  BY <1>1, ChosenType, Counts DEF TypeOK
<1> HIDE DEF c
<1>6. /\ Exclusive(inPool \ {b}, rx', rawInput, <<>>)
      /\ Places(rx', rawInput, <<>>, RX, Parser, {})
      /\ Plus(Given(rx), b, Given(rx'))
  <2>1. Places(rx, rawInput, <<>>, RX, Parser, {}) /\ Exclusive(inPool, rx, rawInput, <<>>)
    BY <1>1, PlacesOK DEF SingleOwner
  <2>2. b \notin Given(rx) \cup Queued(rawInput) \cup Taken(<<>>)
    BY <1>4, NobodyTaken DEF InBuffers
  <2> DEFINE h == [buf |-> b, chan |-> c]
  <2>3. Updated(rx, rx', r, h)
    BY <1>2 DEF c, Updated
  <2>4. Parser \subseteq Nat /\ h \in [buf : Buffer, chan : Parser] /\ h.buf = b
    BY <1>4, <1>5, Counts
  <2> HIDE DEF h
  <2> QED BY <1>3, <1>4, <2>1, <2>2, <2>3, <2>4, TakeFromPool
<1>7. InBuffers' = InBuffers \cup {b}
  BY <1>3, <1>6 DEF InBuffers, Plus
<1>8. TypeOK'
  <2>1. rx' \in [RX -> Hand(Parser)]
    BY <1>6 DEF Places, Hand
  <2> QED BY <1>1, <1>2, <1>3, <1>5, <2>1 DEF TypeOK, procVars, outVars, sendVars, opVars
<1>9. SingleOwner'
  BY <1>1, <1>2, <1>3, <1>6 DEF SingleOwner, procVars, outVars, sendVars
<1>10. HandledAsReceived'
  BY <1>1, <1>3 DEF HandledAsReceived, arrivals
<1>11. Shape'
  BY <1>1, <1>2, <1>3 DEF Shape, arrivals
<1>12. i \in DOMAIN arrivals /\ outcome[i] = <<>>
  BY <1>1 DEF Shape
<1>13. Waiting \subseteq Waiting' /\ i \notin Waiting
  BY <1>2, <1>3 DEF Waiting, arrivals
<1>14. i \in Waiting'
  BY <1>2, <1>3, <1>12 DEF Waiting, arrivals
<1>15. /\ DOMAIN inPacket' = DOMAIN inPacket \cup {b}
       /\ inPacket'[b].ts = i /\ inPacket'[b].data = arrivals'[i] /\ inPacket'[b].fromTX = FALSE
       /\ \A a \in InBuffers : inPacket'[a] = inPacket[a]
  <2> DEFINE pkt == [data |-> arrivals[i], ts |-> i, fromTX |-> FALSE]
  <2>1. inPacket' = With(inPacket, b, pkt)
    BY <1>2
  <2>2. pkt.ts = i /\ pkt.data = arrivals[i] /\ pkt.fromTX = FALSE
    OBVIOUS
  <2> HIDE DEF pkt
  <2>3. inPacket'[b] = pkt /\ DOMAIN inPacket' = DOMAIN inPacket \cup {b}
    BY <2>1 DEF With
  <2>4. \A a \in DOMAIN inPacket : a # b => inPacket'[a] = inPacket[a]
    BY <2>1 DEF With
  <2>5. InBuffers \subseteq DOMAIN inPacket
    BY <1>1 DEF InputOK
  <2> QED BY <1>3, <1>4, <2>2, <2>3, <2>4, <2>5 DEF arrivals
<1>16. InputOK'
  <2>1. \A a \in InBuffers : /\ a \in DOMAIN inPacket'
                             /\ inPacket'[a].ts \in Waiting' /\ inPacket'[a].ts # i
                             /\ inPacket'[a].data = arrivals'[inPacket'[a].ts]
                             /\ inPacket'[a].fromTX = FALSE
    <3>1. ASSUME NEW a \in InBuffers
          PROVE  /\ a \in DOMAIN inPacket /\ inPacket[a].ts \in Waiting
                 /\ inPacket[a].data = arrivals[inPacket[a].ts] /\ inPacket[a].fromTX = FALSE
      BY <1>1 DEF InputOK
    <3>2. arrivals' = arrivals
      BY <1>3 DEF arrivals
    <3>3. \A a \in InBuffers : inPacket[a].ts \in Waiting' /\ inPacket[a].ts # i
      BY <1>13, <3>1
    <3>4. \A a \in InBuffers : inPacket'[a] = inPacket[a] /\ a \in DOMAIN inPacket'
      BY <1>15, <3>1
    <3> QED BY <3>1, <3>2, <3>3, <3>4
  <2>2. \A a, d \in InBuffers : inPacket'[a].ts = inPacket'[d].ts => a = d
    BY <1>1, <1>15 DEF InputOK
  <2>3. \A a \in InBuffers' : a \in InBuffers \/ a = b
    BY <1>7
  <2>4. \A a, d \in InBuffers' : inPacket'[a].ts = inPacket'[d].ts => a = d
    BY <1>15, <2>1, <2>2, <2>3
  <2>5. \A a \in InBuffers' : /\ a \in DOMAIN inPacket' /\ inPacket'[a].ts \in Waiting'
                              /\ inPacket'[a].data = arrivals'[inPacket'[a].ts]
                              /\ inPacket'[a].fromTX = FALSE
    BY <1>14, <1>15, <2>1, <2>3
  <2> QED BY <2>4, <2>5 DEF InputOK
<1>17. DecoderOK'
  <2>1. Decoders' = Decoders /\ decoder' = decoder /\ proc' = proc /\ arrivals' = arrivals
    BY <1>3 DEF Decoders, procVars, arrivals
  <2>2. \A d \in Decoders : /\ decoder[d].ts \in Waiting' /\ decoder[d].ts # i
                            /\ HandlePacket(decoder[d])' = Promised(arrivals[decoder[d].ts])'
    <3>1. \A d \in Decoders : decoder[d].ts \in Waiting
      BY <1>1 DEF DecoderOK
    <3> QED BY <1>1, <1>13, <2>1, <3>1 DEF DecoderOK
  <2>3. \A d \in Decoders, a \in InBuffers' : decoder[d].ts # inPacket'[a].ts
    BY <1>1, <1>7, <1>15, <2>2 DEF DecoderOK
  <2> QED BY <1>1, <2>1, <2>2, <2>3 DEF DecoderOK
<1>18. OutputOK'
  BY <1>1, <1>3, OutputUnchanged DEF outVars, sendVars
<1>19. MadeOK'
  BY <1>1, <1>3, MadeUnchanged DEF outVars
<1> QED
  BY <1>8, <1>9, <1>10, <1>11, <1>16, <1>17, <1>18, <1>19 DEF IInv

LEMMA RxSendInv ==
    ASSUME IInv, NEW r \in RX, RxSend(r)
    PROVE  IInv'
<1>1. /\ TypeOK /\ SingleOwner /\ HandledAsReceived
      /\ Shape /\ InputOK /\ DecoderOK /\ OutputOK /\ MadeOK
  BY DEF IInv
<1>2. /\ rx[r] # Idle
      /\ Len(rawInput[rx[r].chan]) < QueueSize
      /\ rawInput' = [rawInput EXCEPT ![rx[r].chan] = Append(@, rx[r].buf)]
      /\ rx' = [rx EXCEPT ![r] = Idle]
      /\ UNCHANGED <<load, unread, inChanToUse, inPool, inPacket, procVars, outVars,
                     sendVars, opVars, parser, proc, todo, outcome, gotTime>>
  BY DEF RxSend
<1>3. /\ Exclusive(inPool, rx', rawInput', <<>>)
      /\ Places(rx', rawInput', <<>>, RX, Parser, {})
      /\ rx[r].buf \in Given(rx)
      /\ Minus(Given(rx), rx[r].buf, Given(rx'))
      /\ Plus(Queued(rawInput), rx[r].buf, Queued(rawInput'))
  <2>1. Places(rx, rawInput, <<>>, RX, Parser, {}) /\ Exclusive(inPool, rx, rawInput, <<>>)
    BY <1>1, PlacesOK DEF SingleOwner
  <2>2. Parser \subseteq Nat
    BY Counts
  <2>3. /\ rx[r] # Idle /\ Updated(rx, rx', r, Idle)
        /\ Appended(rawInput, rawInput', rx[r].chan, rx[r].buf)
    BY <1>2 DEF Updated, Appended
  <2> QED BY <2>1, <2>2, <2>3, SendToChannel
<1>4. InBuffers' = InBuffers
  BY <1>3 DEF InBuffers, Plus, Minus
<1>5. TypeOK'
  <2>1. rx' \in [RX -> Hand(Parser)]
    BY <1>3 DEF Places, Hand
  <2>2. rx[r].buf \in Buffer /\ rx[r].chan \in Parser /\ rawInput \in [Parser -> Channel]
    BY <1>1, <1>2 DEF TypeOK, Hand
  <2>3. rawInput' \in [Parser -> Channel]
    BY <1>2, <2>2, RoomForOne
  <2> QED BY <1>1, <1>2, <2>1, <2>3 DEF TypeOK, procVars, outVars, sendVars, opVars
<1>6. SingleOwner'
  BY <1>1, <1>2, <1>3 DEF SingleOwner, procVars, outVars, sendVars
<1>7. HandledAsReceived' /\ Shape'
  BY <1>1, <1>2 DEF HandledAsReceived, Shape, arrivals
<1>8. InputOK'
  BY <1>1, <1>2, <1>4 DEF InputOK, Waiting, arrivals
<1>9. DecoderOK'
  BY <1>1, <1>2, <1>4, DecoderUnchanged DEF procVars
<1>10. OutputOK' /\ MadeOK'
  BY <1>1, <1>2, OutputUnchanged, MadeUnchanged DEF outVars, sendVars
<1> QED
  BY <1>5, <1>6, <1>7, <1>8, <1>9, <1>10 DEF IInv

LEMMA ParserSendInv ==
    ASSUME IInv, NEW p \in Parser, ParserSend(p)
    PROVE  IInv'
<1>1. /\ TypeOK /\ SingleOwner /\ HandledAsReceived
      /\ Shape /\ InputOK /\ DecoderOK /\ OutputOK /\ MadeOK
  BY DEF IInv
<1>2. /\ parser[p] # Idle
      /\ Len(pktToProc[parser[p].chan]) < QueueSize
      /\ pktToProc' = [pktToProc EXCEPT ![parser[p].chan] = Append(@, parser[p].buf)]
      /\ parser' = [parser EXCEPT ![p] = Idle]
      /\ UNCHANGED <<load, inVars, pktProcChanToUse, decoderPool, decoder, outVars, sendVars, opVars,
                     proc, todo, outcome, gotTime>>
  BY DEF ParserSend
<1>3. /\ Exclusive(decoderPool, parser', pktToProc', proc)
      /\ Places(parser', pktToProc', proc, Parser, Processor, Processor)
      /\ parser[p].buf \in Given(parser)
      /\ Minus(Given(parser), parser[p].buf, Given(parser'))
      /\ Plus(Queued(pktToProc), parser[p].buf, Queued(pktToProc'))
  <2>1. /\ Places(parser, pktToProc, proc, Parser, Processor, Processor)
        /\ Exclusive(decoderPool, parser, pktToProc, proc)
    BY <1>1, PlacesOK DEF SingleOwner
  <2>2. Processor \subseteq Nat
    BY Counts
  <2>3. /\ parser[p] # Idle /\ Updated(parser, parser', p, Idle)
        /\ Appended(pktToProc, pktToProc', parser[p].chan, parser[p].buf)
    BY <1>2 DEF Updated, Appended
  <2> QED BY <2>1, <2>2, <2>3, SendToChannel
<1>4. Decoders' = Decoders
  BY <1>3 DEF Decoders, Plus, Minus
<1>5. TypeOK'
  <2>1. parser' \in [Parser -> Hand(Processor)]
    BY <1>3 DEF Places, Hand
  <2>2. /\ parser[p].buf \in Buffer /\ parser[p].chan \in Processor
        /\ pktToProc \in [Processor -> Channel]
    BY <1>1, <1>2 DEF TypeOK, Hand
  <2>3. pktToProc' \in [Processor -> Channel]
    BY <1>2, <2>2, RoomForOne
  <2> QED BY <1>1, <1>2, <2>1, <2>3 DEF TypeOK, inVars, outVars, sendVars, opVars
<1>6. SingleOwner'
  BY <1>1, <1>2, <1>3 DEF SingleOwner, inVars, outVars, sendVars
<1>7. HandledAsReceived' /\ Shape'
  BY <1>1, <1>2 DEF HandledAsReceived, Shape, arrivals, inVars
<1>8. InputOK'
  BY <1>1, <1>2, InputUnchanged DEF inVars
<1>9. DecoderOK'
  BY <1>1, <1>2, <1>4 DEF DecoderOK, Waiting, InBuffers, arrivals, inVars
<1>10. OutputOK' /\ MadeOK'
  BY <1>1, <1>2, OutputUnchanged, MadeUnchanged DEF outVars, sendVars
<1> QED
  BY <1>5, <1>6, <1>7, <1>8, <1>9, <1>10 DEF IInv

LEMMA SendInv ==
    ASSUME IInv, NEW q \in Producer, Send(q)
    PROVE  IInv'
<1>1. /\ TypeOK /\ SingleOwner /\ HandledAsReceived
      /\ Shape /\ InputOK /\ DecoderOK /\ OutputOK /\ MadeOK
  BY DEF IInv
<1>2. /\ hand[q] # Idle
      /\ Len(rawOutput[hand[q].chan]) < QueueSize
      /\ rawOutput' = [rawOutput EXCEPT ![hand[q].chan] = Append(@, hand[q].buf)]
      /\ hand' = [hand EXCEPT ![q] = Idle]
      /\ ops' = [ops EXCEPT ![q] = After(outPacket[hand[q].buf].pktType) \o BeforeFirst(todo[q])]
      /\ UNCHANGED <<load, inVars, procVars, outChanToUse, outPool, outPacket, made, sendVars, queued,
                     parser, proc, todo, outcome, gotTime>>
  BY DEF Send
<1>3. /\ Exclusive(outPool, hand', rawOutput', tx)
      /\ Places(hand', rawOutput', tx, Producer, TX, TX)
      /\ hand[q].buf \in Given(hand)
      /\ Minus(Given(hand), hand[q].buf, Given(hand'))
      /\ Plus(Queued(rawOutput), hand[q].buf, Queued(rawOutput'))
  <2>1. Places(hand, rawOutput, tx, Producer, TX, TX) /\ Exclusive(outPool, hand, rawOutput, tx)
    BY <1>1, PlacesOK DEF SingleOwner
  <2>2. TX \subseteq Nat
    BY Counts
  <2>3. /\ hand[q] # Idle /\ Updated(hand, hand', q, Idle)
        /\ Appended(rawOutput, rawOutput', hand[q].chan, hand[q].buf)
    BY <1>2 DEF Updated, Appended
  <2> QED BY <2>1, <2>2, <2>3, SendToChannel
<1>4. OutBuffers' = OutBuffers
  BY <1>3 DEF OutBuffers, Plus, Minus
<1>5. TypeOK'
  <2>1. hand' \in [Producer -> Hand(TX)]
    BY <1>3 DEF Places, Hand
  <2>2. hand[q].buf \in Buffer /\ hand[q].chan \in TX /\ rawOutput \in [TX -> Channel]
    BY <1>1, <1>2 DEF TypeOK, Hand
  <2>3. rawOutput' \in [TX -> Channel]
    BY <1>2, <2>2, RoomForOne
  <2>4. ops' \in [Producer -> Seq(Heap)]
    <3>1. After(outPacket[hand[q].buf].pktType) \o BeforeFirst(todo[q]) \in Seq(Heap)
      BY OperationTypes, ConcatProperties
    <3> QED BY <1>1, <1>2, <3>1 DEF TypeOK
  <2> QED BY <1>1, <1>2, <2>1, <2>3, <2>4 DEF TypeOK, inVars, procVars, sendVars
<1>6. SingleOwner'
  BY <1>1, <1>2, <1>3 DEF SingleOwner, inVars, procVars, sendVars
<1>7. HandledAsReceived' /\ Shape'
  BY <1>1, <1>2 DEF HandledAsReceived, Shape, arrivals, inVars
<1>8. InputOK'
  BY <1>1, <1>2, InputUnchanged DEF inVars
<1>9. DecoderOK'
  <2>1. \A b \in InBuffers' : b \in InBuffers /\ inPacket'[b].ts = inPacket[b].ts
    BY <1>2 DEF InBuffers, inVars
  <2> QED BY <1>1, <1>2, <2>1, DecoderUnchanged DEF inVars, procVars
<1>10. OutputOK'
  BY <1>1, <1>2, <1>4 DEF OutputOK, sendVars
<1>11. MadeOK'
  BY <1>1, <1>2, MadeUnchanged
<1> QED
  BY <1>5, <1>6, <1>7, <1>8, <1>9, <1>10, <1>11 DEF IInv

LEMMA TransmitEndInv ==
    ASSUME IInv, NEW t \in TX, TransmitEnd(t)
    PROVE  IInv'
<1>1. /\ TypeOK /\ SingleOwner /\ HandledAsReceived
      /\ Shape /\ InputOK /\ DecoderOK /\ OutputOK /\ MadeOK
  BY DEF IInv
<1>2. /\ tx[t] # Idle
      /\ outPool' = outPool \cup {tx[t]}
      /\ tx' = [tx EXCEPT ![t] = Idle]
      /\ UNCHANGED <<load, inVars, procVars, rawOutput, outChanToUse, outPacket, hand, made,
                     sentTime, opVars, parser, proc, todo, outcome, gotTime>>
  BY DEF TransmitEnd
<1>3. /\ Exclusive(outPool, hand, rawOutput, tx')
      /\ Places(hand, rawOutput, tx', Producer, TX, TX)
      /\ Minus(Taken(tx), tx[t], Taken(tx'))
      /\ tx[t] \in Buffer
      /\ tx[t] \notin Given(hand) \cup Queued(rawOutput) \cup Taken(tx')
  <2>1. Places(hand, rawOutput, tx, Producer, TX, TX) /\ Exclusive(outPool, hand, rawOutput, tx)
    BY <1>1, PlacesOK DEF SingleOwner
  <2>2. tx[t] # Idle /\ Updated(tx, tx', t, Idle)
    BY <1>2 DEF Updated
  <2> QED BY <2>1, <2>2, GiveUpBuffer
<1>4. Exclusive(outPool \cup {tx[t]}, hand, rawOutput, tx')
  BY <1>3, PutIntoPool
<1>5. TypeOK'
  <2>1. tx' \in [TX -> Buffer \cup {Idle}]
    BY <1>3 DEF Places
  <2> QED BY <1>1, <1>2, <1>3, <2>1 DEF TypeOK, inVars, procVars, opVars
<1>6. SingleOwner'
  BY <1>1, <1>2, <1>4 DEF SingleOwner, inVars, procVars
<1>7. HandledAsReceived' /\ Shape'
  BY <1>1, <1>2 DEF HandledAsReceived, Shape, arrivals, inVars
<1>8. InputOK'
  BY <1>1, <1>2, InputUnchanged DEF inVars
<1>9. DecoderOK'
  <2>1. \A b \in InBuffers' : b \in InBuffers /\ inPacket'[b].ts = inPacket[b].ts
    BY <1>2 DEF InBuffers, inVars
  <2> QED BY <1>1, <1>2, <2>1, DecoderUnchanged DEF inVars, procVars
<1>10. OutputOK'
  BY <1>1, <1>2, <1>3 DEF OutputOK, OutBuffers, Minus
<1>11. MadeOK'
  BY <1>1, <1>2, MadeUnchanged
<1> QED
  BY <1>5, <1>6, <1>7, <1>8, <1>9, <1>10, <1>11 DEF IInv

LEMMA ProcessEndInv ==
    ASSUME IInv, NEW q \in Processor, ProcessEnd(q)
    PROVE  IInv'
<1>1. /\ TypeOK /\ SingleOwner /\ HandledAsReceived
      /\ Shape /\ InputOK /\ DecoderOK /\ OutputOK /\ MadeOK
  BY DEF IInv
<1>2. /\ proc[q] # Idle
      /\ decoderPool' = decoderPool \cup {proc[q]}
      /\ proc' = [proc EXCEPT ![q] = Idle]
      /\ UNCHANGED <<load, inVars, pktToProc, pktProcChanToUse, decoder, outVars, sendVars, opVars,
                     parser, todo, outcome>>
  BY DEF ProcessEnd
<1>3. /\ Exclusive(decoderPool, parser, pktToProc, proc')
      /\ Places(parser, pktToProc, proc', Parser, Processor, Processor)
      /\ Minus(Taken(proc), proc[q], Taken(proc'))
      /\ proc[q] \in Buffer
      /\ proc[q] \notin Given(parser) \cup Queued(pktToProc) \cup Taken(proc')
  <2>1. /\ Places(parser, pktToProc, proc, Parser, Processor, Processor)
        /\ Exclusive(decoderPool, parser, pktToProc, proc)
    BY <1>1, PlacesOK DEF SingleOwner
  <2>2. proc[q] # Idle /\ Updated(proc, proc', q, Idle)
    BY <1>2 DEF Updated
  <2> QED BY <2>1, <2>2, GiveUpBuffer
<1>4. Exclusive(decoderPool \cup {proc[q]}, parser, pktToProc, proc')
  BY <1>3, PutIntoPool
<1>5. TypeOK'
  <2>1. proc' \in [Processor -> Buffer \cup {Idle}]
    BY <1>3 DEF Places
  <2> QED BY <1>1, <1>2, <1>3, <2>1 DEF TypeOK, inVars, outVars, sendVars, opVars
<1>6. SingleOwner'
  BY <1>1, <1>2, <1>4 DEF SingleOwner, inVars, outVars, sendVars
<1>7. HandledAsReceived' /\ Shape'
  BY <1>1, <1>2 DEF HandledAsReceived, Shape, arrivals, inVars
<1>8. InputOK'
  BY <1>1, <1>2, InputUnchanged DEF inVars
<1>9. DecoderOK'
  <2>1. Taken(proc') \subseteq DOMAIN decoder'
    BY <1>1, <1>2, <1>3 DEF DecoderOK, Minus
  <2>2. /\ decoder' = decoder /\ inPacket' = inPacket /\ Decoders' = Decoders
        /\ InBuffers' = InBuffers /\ Waiting' = Waiting /\ arrivals' = arrivals
    BY <1>2 DEF Decoders, InBuffers, Waiting, arrivals, inVars
  <2> QED BY <1>1, <2>1, <2>2 DEF DecoderOK
<1>10. OutputOK' /\ MadeOK'
  BY <1>1, <1>2, OutputUnchanged, MadeUnchanged DEF outVars, sendVars
<1> QED
  BY <1>5, <1>6, <1>7, <1>8, <1>9, <1>10 DEF IInv

LEMMA TransmitInv ==
    ASSUME IInv, NEW t \in TX, Transmit(t)
    PROVE  IInv'
<1> DEFINE b == Head(rawOutput[t])
           id == outPacket[b].id
           out == outPacket[b]
<1>1. /\ TypeOK /\ SingleOwner /\ HandledAsReceived
      /\ Shape /\ InputOK /\ DecoderOK /\ OutputOK /\ MadeOK
  BY DEF IInv
<1>2. /\ tx[t] = Idle /\ rawOutput[t] # <<>>
      /\ tx' = [tx EXCEPT ![t] = b]
      /\ made' = [made EXCEPT ![id].sent = Append(@, [data |-> out.data, cl |-> out.cl])]
      /\ rawOutput' = [rawOutput EXCEPT ![t] = Tail(@)]
      /\ UNCHANGED <<load, inVars, procVars, outChanToUse, outPool, outPacket, hand, opVars,
                     parser, proc, todo, outcome, gotTime>>
  BY DEF Transmit
<1>3. /\ Exclusive(outPool, hand, rawOutput', tx)
      /\ Places(hand, rawOutput', tx, Producer, TX, TX)
      /\ b \in Buffer \cap Queued(rawOutput)
      /\ Minus(Queued(rawOutput), b, Queued(rawOutput'))
      /\ b \notin outPool \cup Given(hand) \cup Taken(tx)
  <2>1. Places(hand, rawOutput, tx, Producer, TX, TX) /\ Exclusive(outPool, hand, rawOutput, tx)
    BY <1>1, PlacesOK DEF SingleOwner
  <2>2. rawOutput[t] # <<>> /\ Shortened(rawOutput, rawOutput', t)
    BY <1>2 DEF Shortened
  <2>3. TX \subseteq Nat
    BY Counts
  <2> QED BY <2>1, <2>2, <2>3, ReceiveFromChannel
<1> HIDE DEF b
<1>4. /\ Exclusive(outPool, hand, rawOutput', tx')
      /\ Places(hand, rawOutput', tx', Producer, TX, TX)
      /\ Plus(Taken(tx), b, Taken(tx'))
  <2>1. b \notin outPool \cup Given(hand) \cup Queued(rawOutput') \cup Taken(tx)
    BY <1>3 DEF Minus
  <2>2. tx[t] = Idle /\ Updated(tx, tx', t, b)
    BY <1>2 DEF Updated
  <2>3. b \in Buffer
    BY <1>3
  <2> QED BY <1>3, <2>1, <2>2, <2>3, TakeBuffer
<1>5. OutBuffers' = OutBuffers \ {b} /\ b \in OutBuffers
  BY <1>2, <1>3 DEF OutBuffers, Minus
<1>6. TypeOK'
  <2>1. tx' \in [TX -> Buffer \cup {Idle}]
    BY <1>4 DEF Places
  <2>2. rawOutput \in [TX -> Channel]
    BY <1>1 DEF TypeOK
  <2>3. rawOutput' \in [TX -> Channel]
    BY <1>2, <2>2, OneLess
  <2> QED BY <1>1, <1>2, <2>1, <2>3 DEF TypeOK, inVars, procVars, opVars
<1>7. SingleOwner'
  BY <1>1, <1>2, <1>4 DEF SingleOwner, inVars, procVars
<1>8. HandledAsReceived' /\ Shape'
  BY <1>1, <1>2 DEF HandledAsReceived, Shape, arrivals, inVars
<1>9. InputOK'
  BY <1>1, <1>2, InputUnchanged DEF inVars
<1>10. DecoderOK'
  <2>1. \A a \in InBuffers' : a \in InBuffers /\ inPacket'[a].ts = inPacket[a].ts
    BY <1>2 DEF InBuffers, inVars
  <2> QED BY <1>1, <1>2, <2>1, DecoderUnchanged DEF inVars, procVars
<1> DEFINE w == made[id].work
<1>11. /\ b \in DOMAIN outPacket /\ id \in DOMAIN made
       /\ made[id].sent = <<>> /\ out = Craft([id |-> id, work |-> w])
  BY <1>1, <1>5 DEF OutputOK
<1>12. made[id] = [work |-> w, sent |-> <<>>]
  BY <1>1, <1>11 DEF MadeOK
<1> DEFINE new == [data |-> out.data, cl |-> out.cl]
<1>13. new = SentAs([id |-> id, work |-> w])
  BY <1>11 DEF SentAs
<1>14. /\ DOMAIN made' = DOMAIN made
       /\ made'[id] = [work |-> w, sent |-> <<new>>]
       /\ \A j \in DOMAIN made : j # id => made'[j] = made[j]
  <2>1. made' = [made EXCEPT ![id] = [made[id] EXCEPT !.sent = Append(made[id].sent, new)]]
    BY <1>2
  <2>2. [made[id] EXCEPT !.sent = Append(made[id].sent, new)]
          = [work |-> w, sent |-> Append(<<>>, new)]
    BY <1>12
  <2> HIDE DEF new, id, w
  <2>3. Append(<<>>, new) = <<new>>
    OBVIOUS
  <2> QED BY <1>11, <2>1, <2>2, <2>3
<1> HIDE DEF new, id, w, out
<1>15. OutputOK'
  <2>1. Taken(tx') \subseteq DOMAIN outPacket'
    BY <1>1, <1>2, <1>4, <1>11 DEF OutputOK, Plus
  <2>2. outPacket' = outPacket
    BY <1>2
  <2>3. \A a \in OutBuffers' : a \in OutBuffers /\ outPacket[a].id # id
    BY <1>1, <1>5 DEF OutputOK, id
  <2>4. \A a \in OutBuffers' : /\ a \in DOMAIN outPacket /\ outPacket[a].id \in DOMAIN made'
                               /\ made'[outPacket[a].id] = made[outPacket[a].id]
    BY <1>1, <1>14, <2>3 DEF OutputOK
  <2>5. \A a \in OutBuffers' :
          /\ made'[outPacket[a].id].sent = <<>>
          /\ outPacket[a] = Craft([id |-> outPacket[a].id, work |-> made'[outPacket[a].id].work])
    BY <1>1, <2>3, <2>4 DEF OutputOK
  <2>6. \A a, c \in OutBuffers' : outPacket[a].id = outPacket[c].id => a = c
    BY <1>1, <2>3 DEF OutputOK
  <2> QED BY <2>1, <2>2, <2>4, <2>5, <2>6 DEF OutputOK
<1>16. MadeOK'
  <2>1. todo' = todo /\ Sources' = Sources
    BY <1>2 DEF Sources, arrivals
  <2>2. \A j \in DOMAIN made :
          /\ j \in Nat \X Nat /\ j[1] \in Sources
          /\ made[j] = [work |-> made[j].work, sent |-> made[j].sent]
          /\ made[j].work \in Work
          /\ made[j].sent \in {<<>>, <<SentAs([id |-> j, work |-> made[j].work])>>}
    BY <1>1 DEF MadeOK
  <2>3. made'[id].work = w /\ made'[id].sent = <<SentAs([id |-> id, work |-> w])>>
    BY <1>13, <1>14
  <2>4. w \in Work
    BY <1>11, <2>2 DEF w
  <2>5. \A j \in DOMAIN made' :
          /\ j \in Nat \X Nat /\ j[1] \in Sources
          /\ made'[j] = [work |-> made'[j].work, sent |-> made'[j].sent]
          /\ made'[j].work \in Work
          /\ made'[j].sent \in {<<>>, <<SentAs([id |-> j, work |-> made'[j].work])>>}
    <3> SUFFICES ASSUME NEW j \in DOMAIN made
                 PROVE  /\ j \in Nat \X Nat /\ j[1] \in Sources
                        /\ made'[j] = [work |-> made'[j].work, sent |-> made'[j].sent]
                        /\ made'[j].work \in Work
                        /\ made'[j].sent \in {<<>>, <<SentAs([id |-> j, work |-> made'[j].work])>>}
      BY <1>14
    <3>1. CASE j = id
      <4>1. made'[j] = [work |-> made'[j].work, sent |-> made'[j].sent]
        BY <1>14, <3>1
      <4> QED BY <2>2, <2>3, <2>4, <3>1, <4>1
    <3>2. CASE j # id
      BY <1>14, <2>2, <3>2
    <3> QED BY <3>1, <3>2
  <2>6. \A q \in Producer : \A n \in DOMAIN todo[q] :
          todo[q][n].id[1] \in Sources /\ todo[q][n].id \notin DOMAIN made'
    BY <1>1, <1>14 DEF MadeOK
  <2>7. \A q, r \in Producer : \A n \in DOMAIN todo[q], m \in DOMAIN todo[r] :
          todo[q][n].id = todo[r][m].id => q = r /\ n = m
    BY <1>1 DEF MadeOK
  <2> QED BY <2>1, <2>5, <2>6, <2>7 DEF MadeOK
<1> QED
  BY <1>6, <1>7, <1>8, <1>9, <1>10, <1>15, <1>16 DEF IInv

LEMMA ProcessInv ==
    ASSUME IInv, NEW q \in Processor, Process(q)
    PROVE  IInv'
<1> DEFINE d == Head(pktToProc[q])
           i == decoder[d].ts
           done == HandlePacket(decoder[d])
           items == Numbered(i, PacketsFor(done))
<1>1. /\ TypeOK /\ SingleOwner /\ HandledAsReceived
      /\ Shape /\ InputOK /\ DecoderOK /\ OutputOK /\ MadeOK
  BY DEF IInv
<1>2. /\ proc[q] = Idle /\ pktToProc[q] # <<>>
      /\ proc' = [proc EXCEPT ![q] = d]
      /\ outcome' = [outcome EXCEPT ![i] = Append(outcome[i], done)]
      /\ todo' = [todo EXCEPT ![q] = items]
      /\ ops' = [ops EXCEPT ![q] = BeforeFirst(items)]
      /\ pktToProc' = [pktToProc EXCEPT ![q] = Tail(@)]
      /\ UNCHANGED <<load, inVars, pktProcChanToUse, decoderPool, decoder, outVars, sendVars,
                     queued, parser, gotTime>>
  BY DEF Process
<1>3. /\ Exclusive(decoderPool, parser, pktToProc', proc)
      /\ Places(parser, pktToProc', proc, Parser, Processor, Processor)
      /\ d \in Buffer \cap Queued(pktToProc)
      /\ Minus(Queued(pktToProc), d, Queued(pktToProc'))
      /\ d \notin decoderPool \cup Given(parser) \cup Taken(proc)
  <2>1. /\ Places(parser, pktToProc, proc, Parser, Processor, Processor)
        /\ Exclusive(decoderPool, parser, pktToProc, proc)
    BY <1>1, PlacesOK DEF SingleOwner
  <2>2. pktToProc[q] # <<>> /\ Shortened(pktToProc, pktToProc', q)
    BY <1>2 DEF Shortened
  <2>3. Processor \subseteq Nat
    BY Counts
  <2> QED BY <2>1, <2>2, <2>3, ReceiveFromChannel
<1> HIDE DEF d
<1>4. /\ Exclusive(decoderPool, parser, pktToProc', proc')
      /\ Places(parser, pktToProc', proc', Parser, Processor, Processor)
      /\ Plus(Taken(proc), d, Taken(proc'))
  <2>1. d \notin decoderPool \cup Given(parser) \cup Queued(pktToProc') \cup Taken(proc)
    BY <1>3 DEF Minus
  <2>2. proc[q] = Idle /\ Updated(proc, proc', q, d)
    BY <1>2 DEF Updated
  <2>3. d \in Buffer
    BY <1>3
  <2> QED BY <1>3, <2>1, <2>2, <2>3, TakeBuffer
<1>5. Decoders' = Decoders \ {d} /\ d \in Decoders
  BY <1>2, <1>3 DEF Decoders, Minus
<1>6. /\ d \in DOMAIN decoder /\ i \in Waiting /\ done = Promised(arrivals[i])
      /\ \A e \in Decoders \ {d} : decoder[e].ts # i
      /\ \A b \in InBuffers : inPacket[b].ts # i
  BY <1>1, <1>5 DEF DecoderOK
<1> HIDE DEF i, done, items
<1>7. i \in DOMAIN arrivals /\ i \notin unread /\ outcome[i] = <<>> /\ load \in Load
  BY <1>1, <1>6 DEF Waiting, Shape
<1>8. i \in Nat \ {0}
  BY <1>7, PipelineAssumption DEF arrivals
<1>9. items \in Seq(Item) /\ \A n \in DOMAIN items : items[n].id = <<i, n>>
  <2>1. done \in Seq(Done)
    BY <1>6, <1>7, PromisedType DEF arrivals
  <2>2. PacketsFor(done) \in Seq(Work)
    BY <2>1, PacketsForType
  <2> QED BY <1>8, <2>2, NumberedType DEF items
<1>10. /\ outcome' = [j \in DOMAIN arrivals |-> outcome'[j]]
       /\ outcome'[i] = <<Promised(arrivals[i])>>
       /\ \A j \in DOMAIN arrivals : j # i => outcome'[j] = outcome[j]
       /\ load' = load /\ arrivals' = arrivals /\ unread' = unread
  <2>1. outcome = [j \in DOMAIN arrivals |-> outcome[j]]
    BY <1>1 DEF Shape
  <2>2. Append(outcome[i], done) = <<done>>
    <3>1. \A x : Append(<<>>, x) = <<x>>
      OBVIOUS
    <3> QED BY <1>7, <3>1
  <2>3. outcome' = [outcome EXCEPT ![i] = <<done>>]
    BY <1>2, <2>2
  <2>4. load' = load /\ arrivals' = arrivals /\ unread' = unread
    BY <1>2 DEF arrivals, inVars
  <2>5. DOMAIN outcome = DOMAIN arrivals
    BY <2>1
  <2>6. outcome' = [j \in DOMAIN arrivals |-> outcome'[j]]
    BY <2>3, <2>5
  <2>7. outcome'[i] = <<done>> /\ \A j \in DOMAIN arrivals : j # i => outcome'[j] = outcome[j]
    BY <1>7, <2>3, <2>5
  <2> QED BY <1>6, <2>4, <2>6, <2>7
<1>11. Waiting' = Waiting \ {i} /\ Sources' = Sources \cup {i} /\ i \notin Sources
  <2>1. \A j \in DOMAIN arrivals : outcome'[j] = <<>> <=> outcome[j] = <<>> /\ j # i
    BY <1>7, <1>10
  <2>2. Waiting' = Waiting \ {i}
    BY <1>10, <2>1 DEF Waiting
  <2>3. Sources' = Sources \cup {i}
    BY <1>7, <1>10, <2>1 DEF Sources
  <2> QED BY <1>7, <1>8, <2>2, <2>3 DEF Sources
<1>12. /\ todo' \in [Producer -> Seq(Item)] /\ q \in Producer /\ todo'[q] = items
       /\ \A r \in Producer : r # q => todo'[r] = todo[r]
  <2>1. todo \in [Producer -> Seq(Item)]
    BY <1>1 DEF Shape
  <2>2. q \in Producer
    BY DEF Producer
  <2> QED BY <1>2, <1>9, <2>1, <2>2
<1>13. TypeOK'
  <2>1. proc' \in [Processor -> Buffer \cup {Idle}]
    BY <1>4 DEF Places
  <2>2. pktToProc \in [Processor -> Channel]
    BY <1>1 DEF TypeOK
  <2>3. pktToProc' \in [Processor -> Channel]
    BY <1>2, <2>2, OneLess
  <2>4. ops' \in [Producer -> Seq(Heap)]
    BY <1>1, <1>2, OperationTypes DEF TypeOK
  <2> QED BY <1>1, <1>2, <2>1, <2>3, <2>4 DEF TypeOK, inVars, outVars, sendVars
<1>14. SingleOwner'
  BY <1>1, <1>2, <1>4 DEF SingleOwner, inVars, outVars, sendVars
<1>15. HandledAsReceived'
  <2>1. \A j \in DOMAIN arrivals : outcome'[j] \in {<<>>, <<Promised(arrivals[j])>>}
    BY <1>1, <1>10 DEF HandledAsReceived
  <2> QED BY <1>10, <2>1 DEF HandledAsReceived
<1>16. Shape'
  <2>1. \A j \in unread : outcome'[j] = <<>>
    BY <1>1, <1>7, <1>10 DEF Shape
  <2>2. load \in Load /\ unread \subseteq DOMAIN arrivals
    BY <1>1 DEF Shape
  <2> QED BY <1>10, <1>12, <2>1, <2>2 DEF Shape
<1>17. InputOK'
  <2>1. InBuffers' = InBuffers /\ inPacket' = inPacket
    BY <1>2 DEF InBuffers, inVars
  <2>2. \A b \in InBuffers : inPacket[b].ts \in Waiting'
    BY <1>1, <1>6, <1>11 DEF InputOK
  <2> QED BY <1>1, <1>10, <2>1, <2>2 DEF InputOK
<1>18. DecoderOK'
  <2>1. InBuffers' = InBuffers /\ inPacket' = inPacket /\ decoder' = decoder
    BY <1>2 DEF InBuffers, inVars
  <2>2. Taken(proc') \subseteq DOMAIN decoder
    BY <1>1, <1>4, <1>6 DEF DecoderOK, Plus
  <2>3. \A e \in Decoders' : e \in Decoders /\ decoder[e].ts # i
    BY <1>5, <1>6
  <2>4. \A e \in Decoders' : /\ e \in DOMAIN decoder /\ decoder[e].ts \in Waiting'
                             /\ HandlePacket(decoder[e]) = Promised(arrivals[decoder[e].ts])
    <3>1. \A e \in Decoders : /\ e \in DOMAIN decoder /\ decoder[e].ts \in Waiting
                              /\ HandlePacket(decoder[e]) = Promised(arrivals[decoder[e].ts])
      BY <1>1 DEF DecoderOK
    <3> QED BY <1>11, <2>3, <3>1
  <2>5. /\ \A e, f \in Decoders' : decoder[e].ts = decoder[f].ts => e = f
        /\ \A e \in Decoders', b \in InBuffers : decoder[e].ts # inPacket[b].ts
        /\ \A e \in DOMAIN decoder : IsDecoder(decoder[e])
    BY <1>1, <2>3 DEF DecoderOK
  <2> QED BY <1>10, <2>1, <2>2, <2>4, <2>5 DEF DecoderOK
<1>19. OutputOK'
  BY <1>1, <1>2, OutputUnchanged DEF outVars, sendVars
<1>20. MadeOK'
  <2>1. made' = made
    BY <1>2 DEF outVars
  <2>2. \A j \in DOMAIN made :
          /\ j \in Nat \X Nat /\ j[1] \in Sources'
          /\ made[j] = [work |-> made[j].work, sent |-> made[j].sent]
          /\ made[j].work \in Work
          /\ made[j].sent \in {<<>>, <<SentAs([id |-> j, work |-> made[j].work])>>}
    BY <1>1, <1>11 DEF MadeOK
  <2>3. \A j \in DOMAIN made : j[1] # i
    BY <1>1, <1>11 DEF MadeOK
  <2>4. \A n \in DOMAIN items : items[n].id[1] = i /\ items[n].id \notin DOMAIN made
    BY <1>9, <2>3
  <2>5. \A r \in Producer \ {q} : \A n \in DOMAIN todo[r] :
          /\ todo[r][n].id[1] \in Sources /\ todo[r][n].id[1] # i
          /\ todo[r][n].id \notin DOMAIN made
    BY <1>1, <1>11 DEF MadeOK
  <2>6. \A r \in Producer : \A n \in DOMAIN todo'[r] :
          todo'[r][n].id[1] \in Sources' /\ todo'[r][n].id \notin DOMAIN made
    <3> SUFFICES ASSUME NEW r \in Producer, NEW n \in DOMAIN todo'[r]
                 PROVE  todo'[r][n].id[1] \in Sources' /\ todo'[r][n].id \notin DOMAIN made
      OBVIOUS
    <3>1. CASE r = q
      BY <1>11, <1>12, <2>4, <3>1
    <3>2. CASE r # q
      BY <1>11, <1>12, <2>5, <3>2
    <3> QED BY <3>1, <3>2
  <2>7. ASSUME NEW r \in Producer, NEW s \in Producer, NEW n \in DOMAIN todo'[r],
               NEW m \in DOMAIN todo'[s], todo'[r][n].id = todo'[s][m].id
        PROVE  r = s /\ n = m
    <3>1. CASE r = q /\ s = q
      <4>1. todo'[r][n].id = <<i, n>> /\ todo'[s][m].id = <<i, m>>
        BY <1>9, <1>12, <3>1
      <4> QED BY <2>7, <3>1, <4>1
    <3>2. CASE r = q /\ s # q
      BY <1>12, <2>4, <2>5, <2>7, <3>2
    <3>3. CASE r # q /\ s = q
      BY <1>12, <2>4, <2>5, <2>7, <3>3
    <3>4. CASE r # q /\ s # q
      BY <1>1, <1>12, <2>7, <3>4 DEF MadeOK
    <3> QED BY <3>1, <3>2, <3>3, <3>4
  <2> QED BY <2>1, <2>2, <2>6, <2>7 DEF MadeOK
<1> QED
  BY <1>13, <1>14, <1>15, <1>16, <1>17, <1>18, <1>19, <1>20 DEF IInv

LEMMA ParseInv ==
    ASSUME IInv, NEW p \in Parser, Parse(p)
    PROVE  IInv'
<1> DEFINE b == Head(rawInput[p])
           i == inPacket[b].ts
<1>1. /\ TypeOK /\ SingleOwner /\ HandledAsReceived
      /\ Shape /\ InputOK /\ DecoderOK /\ OutputOK /\ MadeOK
  BY DEF IInv
<1>2. PICK d \in Get(decoderPool, decoder) :
        /\ decoder' = With(decoder, d,
             [DecodeLayers(IF d \in DOMAIN decoder THEN decoder[d] ELSE NewDecoder,
                           inPacket[b].data)
                EXCEPT !.ts = inPacket[b].ts, !.fromTX = inPacket[b].fromTX])
        /\ decoderPool' = decoderPool \ {d}
        /\ inPool' = inPool \cup {b}
        /\ parser' = [parser EXCEPT ![p] =
             [buf |-> d, chan |-> Chosen(pktProcChanToUse, NumPacketProcessors)]]
  BY DEF Parse
<1>3. /\ parser[p] = Idle /\ rawInput[p] # <<>>
      /\ rawInput' = [rawInput EXCEPT ![p] = Tail(@)]
      /\ pktProcChanToUse' = Advance(pktProcChanToUse)
      /\ UNCHANGED <<load, unread, inChanToUse, inPacket, rx, pktToProc, outVars, sendVars, opVars,
                     proc, todo, outcome, gotTime>>
  BY DEF Parse
<1>4. /\ Exclusive(inPool, rx, rawInput', <<>>)
      /\ Places(rx, rawInput', <<>>, RX, Parser, {})
      /\ b \in Buffer \cap Queued(rawInput)
      /\ Minus(Queued(rawInput), b, Queued(rawInput'))
      /\ b \notin inPool \cup Given(rx) \cup Taken(<<>>)
  <2>1. Places(rx, rawInput, <<>>, RX, Parser, {}) /\ Exclusive(inPool, rx, rawInput, <<>>)
    BY <1>1, PlacesOK DEF SingleOwner
  <2>2. rawInput[p] # <<>> /\ Shortened(rawInput, rawInput', p)
    BY <1>3 DEF Shortened
  <2>3. Parser \subseteq Nat
    BY Counts
  <2> QED BY <2>1, <2>2, <2>3, ReceiveFromChannel
<1> HIDE DEF b
<1>5. Exclusive(inPool \cup {b}, rx, rawInput', <<>>)
  <2>1. b \notin Given(rx) \cup Queued(rawInput') \cup Taken(<<>>)
    BY <1>4 DEF Minus
  <2> QED BY <1>4, <2>1, PutIntoPool
<1>6. InBuffers' = InBuffers \ {b} /\ b \in InBuffers
  BY <1>3, <1>4 DEF InBuffers, Minus
<1>7. /\ i \in Waiting /\ inPacket[b].data = arrivals[i] /\ inPacket[b].fromTX = FALSE
      /\ \A a \in InBuffers \ {b} : inPacket[a].ts # i
  BY <1>1, <1>6 DEF InputOK
<1>8. \A e \in Decoders : decoder[e].ts # i
  BY <1>1, <1>6 DEF DecoderOK
<1> HIDE DEF i
<1>9. d \in Buffer /\ d \notin Decoders \cup Taken(proc)
  <2>1. decoderPool \subseteq Buffer
    BY <1>1 DEF TypeOK
  <2>2. d \in Buffer /\ (d \in decoderPool \/ d \notin DOMAIN decoder)
    BY <2>1, GetFacts
  <2>3. Decoders \subseteq DOMAIN decoder /\ Taken(proc) \subseteq DOMAIN decoder
    BY <1>1 DEF DecoderOK
  <2>4. decoderPool \cap (Decoders \cup Taken(proc)) = {}
    BY <1>1 DEF SingleOwner, Exclusive, Decoders
  <2> QED BY <2>2, <2>3, <2>4
<1> DEFINE c == Chosen(pktProcChanToUse, NumPacketProcessors)
<1>10. Advance(pktProcChanToUse) \in 0..(Word32 - 1) /\ c \in Processor
  BY <1>1, ChosenType, Counts DEF TypeOK
<1> HIDE DEF c
<1>11. /\ Exclusive(decoderPool \ {d}, parser', pktToProc, proc)
       /\ Places(parser', pktToProc, proc, Parser, Processor, Processor)
       /\ Plus(Given(parser), d, Given(parser'))
  <2>1. /\ Places(parser, pktToProc, proc, Parser, Processor, Processor)
        /\ Exclusive(decoderPool, parser, pktToProc, proc)
    BY <1>1, PlacesOK DEF SingleOwner
  <2>2. d \notin Given(parser) \cup Queued(pktToProc) \cup Taken(proc)
    BY <1>9 DEF Decoders
  <2> DEFINE h == [buf |-> d, chan |-> c]
  <2>3. Updated(parser, parser', p, h)
    BY <1>2 DEF c, Updated
  <2>4. Processor \subseteq Nat /\ h \in [buf : Buffer, chan : Processor] /\ h.buf = d
    BY <1>9, <1>10, Counts
  <2>5. parser[p] = Idle /\ d \in Buffer
    BY <1>3, <1>9
  <2> HIDE DEF h
  <2> QED BY <2>1, <2>2, <2>3, <2>4, <2>5, TakeFromPool
<1>12. Decoders' = Decoders \cup {d}
  BY <1>3, <1>11 DEF Decoders, Plus
<1> DEFINE d0 == IF d \in DOMAIN decoder THEN decoder[d] ELSE NewDecoder
           e == [DecodeLayers(d0, arrivals[i]) EXCEPT !.ts = i, !.fromTX = FALSE]
<1>13. decoder' = With(decoder, d, e)
  BY <1>2, <1>7 DEF i
<1>14. IsDecoder(e) /\ e.ts = i /\ HandlePacket(e) = Promised(arrivals[i])
  <2>1. IsDecoder(d0)
    <3>1. IsDecoder(NewDecoder)
      BY DEF IsDecoder, NewDecoder
    <3> QED BY <1>1, <3>1 DEF DecoderOK
  <2>2. i \in DOMAIN arrivals /\ load \in Load
    BY <1>1, <1>7 DEF Waiting, Shape
  <2>3. IsPacket(arrivals[i])
    BY <2>2, PipelineAssumption DEF arrivals
  <2>4. Decoded(d0, arrivals[i], i, e)
    BY DEF Decoded
  <2> HIDE DEF d0, e
  <2> QED BY <2>1, <2>3, <2>4, DecodesOne
<1> HIDE DEF d0, e
<1>15. /\ DOMAIN decoder' = DOMAIN decoder \cup {d} /\ decoder'[d] = e
       /\ \A f \in DOMAIN decoder : f # d => decoder'[f] = decoder[f]
  BY <1>13 DEF With
<1>16. TypeOK'
  <2>1. parser' \in [Parser -> Hand(Processor)]
    BY <1>11 DEF Places, Hand
  <2>2. rawInput \in [Parser -> Channel]
    BY <1>1 DEF TypeOK
  <2>3. rawInput' \in [Parser -> Channel]
    BY <1>3, <2>2, OneLess
  <2>4. inPool' \subseteq Buffer /\ decoderPool' \subseteq Buffer /\ outPool' \subseteq Buffer
    BY <1>1, <1>2, <1>3, <1>4 DEF TypeOK, outVars
  <2> QED BY <1>1, <1>3, <1>10, <2>1, <2>3, <2>4 DEF TypeOK, outVars, sendVars, opVars
<1>17. SingleOwner'
  BY <1>1, <1>2, <1>3, <1>5, <1>11 DEF SingleOwner, outVars, sendVars
<1>18. HandledAsReceived' /\ Shape'
  BY <1>1, <1>3 DEF HandledAsReceived, Shape, arrivals
<1>19. /\ Waiting' = Waiting /\ arrivals' = arrivals /\ inPacket' = inPacket /\ proc' = proc
  BY <1>3 DEF Waiting, arrivals
<1>20. InputOK'
  <2>1. \A a \in InBuffers' : a \in InBuffers
    BY <1>6
  <2> QED BY <1>1, <1>19, <2>1 DEF InputOK
<1>21. DecoderOK'
  <2>1. \A f \in Decoders : f \in DOMAIN decoder /\ f # d /\ decoder'[f] = decoder[f]
    BY <1>1, <1>9, <1>15 DEF DecoderOK
  <2>2. \A f \in Decoders' : f = d \/ f \in Decoders
    BY <1>12
  <2>3. \A f \in Decoders :
          /\ decoder'[f].ts \in Waiting /\ decoder'[f].ts # i
          /\ HandlePacket(decoder'[f]) = Promised(arrivals[decoder'[f].ts])
    <3>1. \A f \in Decoders : /\ decoder[f].ts \in Waiting
                              /\ HandlePacket(decoder[f]) = Promised(arrivals[decoder[f].ts])
      BY <1>1 DEF DecoderOK
    <3> QED BY <1>8, <2>1, <3>1
  <2>4. /\ d \in DOMAIN decoder' /\ decoder'[d].ts = i
        /\ HandlePacket(decoder'[d]) = Promised(arrivals[i])
    BY <1>14, <1>15
  <2>5. \A f \in Decoders' : /\ f \in DOMAIN decoder' /\ decoder'[f].ts \in Waiting
                             /\ HandlePacket(decoder'[f]) = Promised(arrivals[decoder'[f].ts])
    BY <1>7, <1>15, <2>1, <2>2, <2>3, <2>4
  <2>6. \A f, g \in Decoders' : decoder'[f].ts = decoder'[g].ts => f = g
    <3>1. \A f, g \in Decoders : decoder[f].ts = decoder[g].ts => f = g
      BY <1>1 DEF DecoderOK
    <3> QED BY <2>1, <2>2, <2>3, <2>4, <3>1
  <2>7. \A f \in Decoders', a \in InBuffers' : decoder'[f].ts # inPacket[a].ts
    <3>1. \A f \in Decoders, a \in InBuffers : decoder[f].ts # inPacket[a].ts
      BY <1>1 DEF DecoderOK
    <3>2. \A a \in InBuffers' : a \in InBuffers /\ inPacket[a].ts # i
      BY <1>6, <1>7
    <3> QED BY <2>1, <2>2, <2>4, <3>1, <3>2
  <2>8. Taken(proc) \subseteq DOMAIN decoder'
    BY <1>1, <1>15 DEF DecoderOK
  <2>9. \A f \in DOMAIN decoder' : IsDecoder(decoder'[f])
    <3>1. \A f \in DOMAIN decoder : IsDecoder(decoder[f])
      BY <1>1 DEF DecoderOK
    <3>2. \A f \in DOMAIN decoder' : decoder'[f] = e \/ (f \in DOMAIN decoder /\ decoder'[f] = decoder[f])
      BY <1>15
    <3> QED BY <1>14, <3>1, <3>2
  <2> QED BY <1>19, <2>5, <2>6, <2>7, <2>8, <2>9 DEF DecoderOK
<1>22. OutputOK' /\ MadeOK'
  BY <1>1, <1>3, OutputUnchanged, MadeUnchanged DEF outVars, sendVars
<1> QED
  BY <1>16, <1>17, <1>18, <1>20, <1>21, <1>22 DEF IInv

LEMMA MakeInv ==
    ASSUME IInv, NEW q \in Producer, Make(q)
    PROVE  IInv'
<1> DEFINE item == Head(todo[q])
           id == item.id
<1>1. /\ TypeOK /\ SingleOwner /\ HandledAsReceived
      /\ Shape /\ InputOK /\ DecoderOK /\ OutputOK /\ MadeOK
  BY DEF IInv
<1>2. PICK b \in Get(outPool, outPacket) :
        /\ outPacket' = With(outPacket, b, Craft(item))
        /\ outPool' = outPool \ {b}
        /\ hand' = [hand EXCEPT ![q] = [buf |-> b, chan |-> Chosen(outChanToUse, NumTXWorkers)]]
  BY DEF Make
<1>3. /\ todo[q] # <<>> /\ hand[q] = Idle
      /\ outChanToUse' = Advance(outChanToUse)
      /\ made' = With(made, id, [work |-> item.work, sent |-> <<>>])
      /\ todo' = [todo EXCEPT ![q] = Tail(@)]
      /\ UNCHANGED <<load, inVars, procVars, rawOutput, sendVars, opVars, parser, proc, outcome,
                     gotTime>>
  BY DEF Make, CanMake
<1>4. b \in Buffer /\ b \notin OutBuffers \cup Taken(tx)
  <2>1. outPool \subseteq Buffer
    BY <1>1 DEF TypeOK
  <2>2. b \in Buffer /\ (b \in outPool \/ b \notin DOMAIN outPacket)
    BY <2>1, GetFacts
  <2>3. OutBuffers \subseteq DOMAIN outPacket /\ Taken(tx) \subseteq DOMAIN outPacket
    BY <1>1 DEF OutputOK
  <2>4. outPool \cap (OutBuffers \cup Taken(tx)) = {}
    BY <1>1 DEF SingleOwner, Exclusive, OutBuffers
  <2> QED BY <2>2, <2>3, <2>4
<1> DEFINE c == Chosen(outChanToUse, NumTXWorkers)
<1>5. Advance(outChanToUse) \in 0..(Word32 - 1) /\ c \in TX
  BY <1>1, ChosenType, Counts DEF TypeOK
<1> HIDE DEF c
<1>6. /\ Exclusive(outPool \ {b}, hand', rawOutput, tx)
      /\ Places(hand', rawOutput, tx, Producer, TX, TX)
      /\ Plus(Given(hand), b, Given(hand'))
  <2>1. Places(hand, rawOutput, tx, Producer, TX, TX) /\ Exclusive(outPool, hand, rawOutput, tx)
    BY <1>1, PlacesOK DEF SingleOwner
  <2>2. b \notin Given(hand) \cup Queued(rawOutput) \cup Taken(tx)
    BY <1>4 DEF OutBuffers
  <2> DEFINE h == [buf |-> b, chan |-> c]
  <2>3. Updated(hand, hand', q, h)
    BY <1>2 DEF c, Updated
  <2>4. TX \subseteq Nat /\ h \in [buf : Buffer, chan : TX] /\ h.buf = b
    BY <1>4, <1>5, Counts
  <2>5. hand[q] = Idle /\ b \in Buffer
    BY <1>3, <1>4
  <2> HIDE DEF h
  <2> QED BY <2>1, <2>2, <2>3, <2>4, <2>5, TakeFromPool
<1>7. OutBuffers' = OutBuffers \cup {b}
  BY <1>3, <1>6 DEF OutBuffers, Plus
<1>8. /\ todo \in [Producer -> Seq(Item)] /\ todo[q] \in Seq(Item) \ {<<>>}
      /\ item = todo[q][1] /\ 1 \in DOMAIN todo[q] /\ item \in Item
      /\ Tail(todo[q]) \in Seq(Item)
      /\ \A n \in DOMAIN Tail(todo[q]) : /\ n + 1 \in DOMAIN todo[q] /\ n + 1 # 1 /\ n \in Nat
                                         /\ Tail(todo[q])[n] = todo[q][n + 1]
  <2>1. todo \in [Producer -> Seq(Item)] /\ todo[q] \in Seq(Item) /\ todo[q] # <<>>
    BY <1>1, <1>3 DEF Shape
  <2> HIDE DEF item
  <2>2. Len(todo[q]) \in Nat /\ Len(todo[q]) >= 1 /\ DOMAIN todo[q] = 1..Len(todo[q])
    BY <2>1, EmptySeq, LenProperties
  <2>3. /\ Tail(todo[q]) \in Seq(Item) /\ DOMAIN Tail(todo[q]) = 1..(Len(todo[q]) - 1)
        /\ \A n \in 1..(Len(todo[q]) - 1) : Tail(todo[q])[n] = todo[q][n + 1]
    BY <2>1, HeadTailProperties
  <2>4. item = todo[q][1] /\ item \in Item
    BY <2>1, HeadTailProperties DEF item
  <2> QED BY <2>1, <2>2, <2>3, <2>4
<1> HIDE DEF item
<1>9. item = [id |-> id, work |-> item.work] /\ id \in Nat \X Nat /\ item.work \in Work
  BY <1>8 DEF Item
<1>10. Craft(item).id = id
  BY DEF Craft
<1> DEFINE w == item.work
<1>11. /\ id \notin DOMAIN made /\ id[1] \in Sources
       /\ \A r \in Producer : \A m \in DOMAIN todo[r] :
            todo[r][m].id = id => r = q /\ m = 1
  BY <1>1, <1>8 DEF MadeOK
<1> HIDE DEF id
<1>12. /\ DOMAIN made' = DOMAIN made \cup {id} /\ made'[id] = [work |-> w, sent |-> <<>>]
       /\ \A j \in DOMAIN made : made'[j] = made[j]
  BY <1>3, <1>11 DEF With
<1>13. /\ DOMAIN outPacket' = DOMAIN outPacket \cup {b} /\ outPacket'[b] = Craft(item)
       /\ \A a \in DOMAIN outPacket : a # b => outPacket'[a] = outPacket[a]
  BY <1>2 DEF With
<1>14. /\ todo'[q] = Tail(todo[q]) /\ todo' \in [Producer -> Seq(Item)]
       /\ \A r \in Producer : r # q => todo'[r] = todo[r]
  BY <1>3, <1>8
<1>15. TypeOK'
  <2>1. hand' \in [Producer -> Hand(TX)]
    BY <1>6 DEF Places, Hand
  <2>2. outPool' \subseteq Buffer
    BY <1>1, <1>2 DEF TypeOK
  <2> QED BY <1>1, <1>3, <1>5, <2>1, <2>2 DEF TypeOK, inVars, procVars, sendVars, opVars
<1>16. SingleOwner'
  BY <1>1, <1>2, <1>3, <1>6 DEF SingleOwner, inVars, procVars, sendVars
<1>17. HandledAsReceived'
  BY <1>1, <1>3 DEF HandledAsReceived, arrivals
<1>18. Shape'
  <2>1. load' = load /\ arrivals' = arrivals /\ unread' = unread /\ outcome' = outcome
    BY <1>3 DEF arrivals, inVars
  <2> QED BY <1>1, <1>14, <2>1 DEF Shape
<1>19. InputOK'
  BY <1>1, <1>3, InputUnchanged DEF inVars
<1>20. DecoderOK'
  <2>1. \A a \in InBuffers' : a \in InBuffers /\ inPacket'[a].ts = inPacket[a].ts
    BY <1>3 DEF InBuffers, inVars
  <2> QED BY <1>1, <1>3, <2>1, DecoderUnchanged DEF inVars, procVars
<1>21. OutputOK'
  <2>1. \A a \in OutBuffers : /\ a \in DOMAIN outPacket /\ outPacket'[a] = outPacket[a]
                              /\ outPacket[a].id \in DOMAIN made
                              /\ made'[outPacket[a].id] = made[outPacket[a].id]
    BY <1>1, <1>4, <1>12, <1>13 DEF OutputOK
  <2>2. outPacket'[b].id = id /\ made'[id].sent = <<>> /\ made'[id].work = w
    BY <1>10, <1>12, <1>13
  <2>3. outPacket'[b] = Craft([id |-> id, work |-> made'[id].work])
    BY <1>9, <1>13, <2>2
  <2>4. \A a \in OutBuffers' : a = b \/ a \in OutBuffers
    BY <1>7
  <2>5. \A a \in OutBuffers :
          /\ a \in DOMAIN outPacket' /\ outPacket'[a].id \in DOMAIN made'
          /\ made'[outPacket'[a].id].sent = <<>>
          /\ outPacket'[a] = Craft([id |-> outPacket'[a].id, work |-> made'[outPacket'[a].id].work])
    <3>1. \A a \in OutBuffers :
            /\ made[outPacket[a].id].sent = <<>>
            /\ outPacket[a] = Craft([id |-> outPacket[a].id, work |-> made[outPacket[a].id].work])
      BY <1>1 DEF OutputOK
    <3> QED BY <1>12, <1>13, <2>1, <3>1
  <2>6. \A a \in OutBuffers' :
          /\ a \in DOMAIN outPacket' /\ outPacket'[a].id \in DOMAIN made'
          /\ made'[outPacket'[a].id].sent = <<>>
          /\ outPacket'[a] = Craft([id |-> outPacket'[a].id, work |-> made'[outPacket'[a].id].work])
    BY <1>12, <1>13, <2>2, <2>3, <2>4, <2>5
  <2>7. \A a, d \in OutBuffers' : outPacket'[a].id = outPacket'[d].id => a = d
    <3>1. \A a, d \in OutBuffers : outPacket[a].id = outPacket[d].id => a = d
      BY <1>1 DEF OutputOK
    <3>2. \A a \in OutBuffers : outPacket'[a].id # id
      BY <1>11, <2>1
    <3> QED BY <2>1, <2>2, <2>4, <3>1, <3>2
  <2>8. Taken(tx') \subseteq DOMAIN outPacket'
    BY <1>1, <1>3, <1>13 DEF OutputOK, sendVars
  <2> QED BY <2>6, <2>7, <2>8 DEF OutputOK
<1>22. MadeOK'
  <2>1. Sources' = Sources
    BY <1>3 DEF Sources, arrivals
  <2>2. \A j \in DOMAIN made :
          /\ j \in Nat \X Nat /\ j[1] \in Sources
          /\ made[j] = [work |-> made[j].work, sent |-> made[j].sent]
          /\ made[j].work \in Work
          /\ made[j].sent \in {<<>>, <<SentAs([id |-> j, work |-> made[j].work])>>}
    BY <1>1 DEF MadeOK
  <2>3. \A j \in DOMAIN made' :
          /\ j \in Nat \X Nat /\ j[1] \in Sources
          /\ made'[j] = [work |-> made'[j].work, sent |-> made'[j].sent]
          /\ made'[j].work \in Work
          /\ made'[j].sent \in {<<>>, <<SentAs([id |-> j, work |-> made'[j].work])>>}
    <3> SUFFICES ASSUME NEW j \in DOMAIN made'
                 PROVE  /\ j \in Nat \X Nat /\ j[1] \in Sources
                        /\ made'[j] = [work |-> made'[j].work, sent |-> made'[j].sent]
                        /\ made'[j].work \in Work
                        /\ made'[j].sent \in {<<>>, <<SentAs([id |-> j, work |-> made'[j].work])>>}
      OBVIOUS
    <3>1. CASE j = id
      <4>1. made'[j].work = w /\ made'[j].sent = <<>>
        BY <1>12, <3>1
      <4>2. made'[j] = [work |-> made'[j].work, sent |-> made'[j].sent]
        BY <1>12, <3>1
      <4> QED BY <1>9, <1>11, <3>1, <4>1, <4>2
    <3>2. CASE j # id
      <4>1. j \in DOMAIN made /\ made'[j] = made[j]
        BY <1>12, <3>2
      <4> QED BY <2>2, <4>1
    <3> QED BY <3>1, <3>2
  <2>4. ASSUME NEW r \in Producer, NEW n \in DOMAIN todo'[r]
        PROVE  \E k \in DOMAIN todo[r] : /\ todo'[r][n] = todo[r][k]
                                         /\ IF r = q THEN k = n + 1 /\ k # 1 /\ n \in Nat
                                            ELSE k = n
    <3>1. CASE r = q
      BY <1>8, <1>14, <3>1
    <3>2. CASE r # q
      BY <1>14, <3>2
    <3> QED BY <3>1, <3>2
  <2>5. ASSUME NEW r \in Producer, NEW n \in DOMAIN todo'[r]
        PROVE  todo'[r][n].id[1] \in Sources /\ todo'[r][n].id \notin DOMAIN made'
    <3>1. PICK k \in DOMAIN todo[r] : todo'[r][n] = todo[r][k] /\ ~(r = q /\ k = 1)
      BY <2>4
    <3>2. todo[r][k].id[1] \in Sources /\ todo[r][k].id \notin DOMAIN made
      BY <1>1 DEF MadeOK
    <3>3. todo[r][k].id # id
      BY <1>11, <3>1
    <3> QED BY <1>12, <3>1, <3>2, <3>3
  <2>6. ASSUME NEW r \in Producer, NEW s \in Producer, NEW n \in DOMAIN todo'[r],
               NEW m \in DOMAIN todo'[s], todo'[r][n].id = todo'[s][m].id
        PROVE  r = s /\ n = m
    <3>1. PICK k \in DOMAIN todo[r] : /\ todo'[r][n] = todo[r][k]
                                     /\ IF r = q THEN k = n + 1 /\ n \in Nat ELSE k = n
      BY <2>4
    <3>2. PICK l \in DOMAIN todo[s] : /\ todo'[s][m] = todo[s][l]
                                     /\ IF s = q THEN l = m + 1 /\ m \in Nat ELSE l = m
      BY <2>4
    <3>3. todo[r][k].id = todo[s][l].id
      BY <2>6, <3>1, <3>2
    <3>4. r = s /\ k = l
      BY <1>1, <3>3 DEF MadeOK
    <3> QED BY <3>1, <3>2, <3>4
  <2> QED BY <2>1, <2>3, <2>5, <2>6 DEF MadeOK
<1> QED
  BY <1>15, <1>16, <1>17, <1>18, <1>19, <1>20, <1>21, <1>22 DEF IInv

(* Sending an operation to a heap, or taking one, leaves all buffers alone.    *)
LEMMA OperationInv ==
    ASSUME IInv, (\E q \in Producer : PushOp(q)) \/ (\E h \in Heap : ApplyOp(h))
    PROVE  IInv'
<1>1. /\ TypeOK /\ SingleOwner /\ HandledAsReceived
      /\ Shape /\ InputOK /\ DecoderOK /\ OutputOK /\ MadeOK
  BY DEF IInv
<1>2. UNCHANGED <<load, unread, rawInput, inChanToUse, inPool, inPacket, rx, pktToProc,
                  pktProcChanToUse, decoderPool, decoder, rawOutput, outChanToUse, outPool,
                  outPacket, hand, made, tx, sentTime, parser, proc, todo, outcome, gotTime>>
  BY DEF PushOp, ApplyOp, inVars, procVars, outVars, sendVars
<1>3. ops' \in [Producer -> Seq(Heap)] /\ queued' \in [Heap -> 0..OpQueueSize]
  <2>1. ASSUME NEW q \in Producer, PushOp(q)
        PROVE  ops' \in [Producer -> Seq(Heap)] /\ queued' \in [Heap -> 0..OpQueueSize]
    <3>1. ops[q] \in Seq(Heap) /\ ops[q] # <<>>
      BY <1>1, <2>1 DEF TypeOK, PushOp
    <3>2. Head(ops[q]) \in Heap /\ Tail(ops[q]) \in Seq(Heap)
      BY <3>1, HeadTailProperties
    <3>3. /\ queued[Head(ops[q])] \in 0..OpQueueSize /\ OpQueueSize \in Nat
          /\ queued[Head(ops[q])] < OpQueueSize
      BY <1>1, <2>1, <3>2, PipelineAssumption DEF TypeOK, PushOp
    <3>4. queued[Head(ops[q])] + 1 \in 0..OpQueueSize
      BY <3>3
    <3> QED BY <1>1, <2>1, <3>2, <3>4 DEF TypeOK, PushOp
  <2>2. ASSUME NEW h \in Heap, ApplyOp(h)
        PROVE  ops' \in [Producer -> Seq(Heap)] /\ queued' \in [Heap -> 0..OpQueueSize]
    <3>1. queued[h] \in 0..OpQueueSize /\ queued[h] > 0 /\ OpQueueSize \in Nat
      BY <1>1, <2>2, PipelineAssumption DEF TypeOK, ApplyOp
    <3>2. queued[h] - 1 \in 0..OpQueueSize
      BY <3>1
    <3> QED BY <1>1, <2>2, <3>2 DEF TypeOK, ApplyOp
  <2> QED BY <2>1, <2>2
<1>4. TypeOK' /\ SingleOwner'
  BY <1>1, <1>2, <1>3 DEF TypeOK, SingleOwner
<1>5. HandledAsReceived' /\ Shape'
  BY <1>1, <1>2 DEF HandledAsReceived, Shape, arrivals
<1>6. \A b \in InBuffers' : b \in InBuffers /\ inPacket'[b].ts = inPacket[b].ts
  BY <1>2 DEF InBuffers
<1>7. InputOK' /\ DecoderOK'
  BY <1>1, <1>2, <1>6, InputUnchanged, DecoderUnchanged
<1>8. OutputOK' /\ MadeOK'
  BY <1>1, <1>2, OutputUnchanged, MadeUnchanged
<1> QED
  BY <1>4, <1>5, <1>7, <1>8 DEF IInv

LEMMA StutterInv ==
    ASSUME IInv, UNCHANGED vars
    PROVE  IInv'
<1>1. /\ TypeOK /\ SingleOwner /\ HandledAsReceived
      /\ Shape /\ InputOK /\ DecoderOK /\ OutputOK /\ MadeOK
  BY DEF IInv
<1>2. UNCHANGED <<load, unread, rawInput, inChanToUse, inPool, inPacket, rx, pktToProc,
                  pktProcChanToUse, decoderPool, decoder, rawOutput, outChanToUse, outPool,
                  outPacket, hand, made, tx, sentTime, opVars, parser, proc, todo, outcome, gotTime, ops, queued>>
  BY DEF vars, inVars, procVars, outVars, sendVars, opVars
<1>3. TypeOK' /\ SingleOwner'
  BY <1>1, <1>2 DEF TypeOK, SingleOwner
<1>4. HandledAsReceived' /\ Shape'
  BY <1>1, <1>2 DEF HandledAsReceived, Shape, arrivals
<1>5. \A b \in InBuffers' : b \in InBuffers /\ inPacket'[b].ts = inPacket[b].ts
  BY <1>2 DEF InBuffers
<1>6. InputOK' /\ DecoderOK'
  BY <1>1, <1>2, <1>5, InputUnchanged, DecoderUnchanged
<1>7. OutputOK' /\ MadeOK'
  BY <1>1, <1>2, OutputUnchanged, MadeUnchanged
<1> QED
  BY <1>3, <1>4, <1>6, <1>7 DEF IInv

LEMMA NextInv ==
    ASSUME IInv, [Next]_vars
    PROVE  IInv'
<1>1. ASSUME NEW r \in RX, RxRead(r) \/ RxSend(r) PROVE IInv'
  BY <1>1, RxReadInv, RxSendInv
<1>2. ASSUME NEW p \in Parser, Parse(p) \/ ParserSend(p) PROVE IInv'
  BY <1>2, ParseInv, ParserSendInv
<1>3. ASSUME NEW q \in Processor, Process(q) \/ ProcessEnd(q) PROVE IInv'
  BY <1>3, ProcessInv, ProcessEndInv
<1>4. ASSUME NEW q \in Producer, Make(q) \/ Send(q) PROVE IInv'
  BY <1>4, MakeInv, SendInv
<1>5. ASSUME NEW t \in TX, Transmit(t) \/ TransmitEnd(t) PROVE IInv'
  BY <1>5, TransmitInv, TransmitEndInv
<1>6. CASE (\E q \in Producer : PushOp(q)) \/ (\E h \in Heap : ApplyOp(h))
  BY <1>6, OperationInv
<1>7. CASE UNCHANGED vars
  BY <1>7, StutterInv
<1> QED
  BY <1>1, <1>2, <1>3, <1>4, <1>5, <1>6, <1>7 DEF Next

LEMMA AlwaysIInv == Spec => []IInv
<1>1. Init => IInv
  BY InitInv
<1>2. IInv /\ [Next]_vars => IInv'
  BY NextInv
<1> QED
  BY <1>1, <1>2, PTL DEF Spec

(* Every worker, channel and counter keeps to its type: a chosen channel is   *)
(* one of those there are, whatever the 32-bit counter wraps to, and no       *)
(* channel holds more than its capacity.                                      *)
THEOREM PipelineTypeOK == Spec => []TypeOK
<1>1. IInv => TypeOK
  BY DEF IInv
<1> QED
  BY <1>1, AlwaysIInv, PTL

(* A pooled buffer is in one place at a time, for any number of workers and   *)
(* any sizes of the channels.                                                 *)
THEOREM PipelineSingleOwner == Spec => []SingleOwner
<1>1. IInv => SingleOwner
  BY DEF IInv
<1> QED
  BY <1>1, AlwaysIInv, PTL

(* A packet is handled once at most and as its own content asks for, whatever *)
(* packets used its buffer and its decoder before.                            *)
THEOREM PipelineHandledAsReceived == Spec => []HandledAsReceived
<1>1. IInv => HandledAsReceived
  BY DEF IInv
<1> QED
  BY <1>1, AlwaysIInv, PTL

(* What a client or a reply asks for is sent once at most, and the bytes that *)
(* are sent read as it was meant, with the client it is counted for.          *)
THEOREM PipelineSentAsMade == Spec => []SentAsMade
<1>1. ASSUME IInv PROVE SentAsMade
  <2> SUFFICES ASSUME NEW id \in DOMAIN made
               PROVE  /\ Len(made[id].sent) <= 1
                      /\ \A n \in DOMAIN made[id].sent :
                           /\ Reads(made[id].sent[n]) = made[id].work
                           /\ made[id].sent[n].cl = made[id].work.client
    BY DEF SentAsMade
  <2> DEFINE item == [id |-> id, work |-> made[id].work]
  <2>1. made[id].work \in Work /\ made[id].sent \in {<<>>, <<SentAs(item)>>}
    BY <1>1 DEF IInv, MadeOK
  <2>2. item.work = made[id].work
    OBVIOUS
  <2> HIDE DEF item
  <2>3. Reads(SentAs(item)) = made[id].work /\ SentAs(item).cl = made[id].work.client
    BY <2>1, <2>2, ReadsAsMade
  <2>4. CASE made[id].sent = <<>>
    BY <2>4
  <2>5. CASE made[id].sent = <<SentAs(item)>>
    <3> DEFINE s == SentAs(item)
    <3> HIDE DEF s
    <3>1. made[id].sent = <<s>> /\ Reads(s) = made[id].work /\ s.cl = made[id].work.client
      BY <2>3, <2>5 DEF s
    <3>2. Len(<<s>>) = 1 /\ \A n \in DOMAIN <<s>> : <<s>>[n] = s
      OBVIOUS
    <3> QED BY <3>1, <3>2
  <2> QED BY <2>1, <2>4, <2>5
<1>2. IInv => SentAsMade
  BY <1>1
<1> QED
  BY <1>2, AlwaysIInv, PTL
=============================================================================
