------------------------- MODULE MeasurementProofs --------------------------
(***************************************************************************)
(* The timestamp reader, the management client and the profiler for any    *)
(* number of packets, attempts, calls and periods.                         *)
(*                                                                         *)
(* The first two share an argument.  Results are taken from a queue whose  *)
(* entries increase, so that results increase as well; and as long as no   *)
(* read has failed, the result of the call before is its own, so that the  *)
(* next result lies between the two calls and is the next call's own.      *)
(***************************************************************************)
EXTENDS MCMeasurements, TLAPS

-----------------------------------------------------------------------------
\* TX timestamps.

\* The packets whose reads are over.
Over == IF reading THEN 1..(sent - 1) ELSE 1..sent

StampsIncrease ==
  /\ \A i, k \in 1..Len(errQueue) : i < k => errQueue[i] < errQueue[k]
  /\ \A i \in 1..Len(errQueue) :
       /\ errQueue[i] <= sent /\ found < errQueue[i]
       /\ \A n \in pending : errQueue[i] < n
       /\ \A n \in Over : Stamp(n) < errQueue[i]
  /\ \A n \in pending : found < n /\ \A m \in Over : Stamp(m) < n
  /\ reading /\ found # NoStamp => \A n \in Over : Stamp(n) < found

OwnUnlessFailed ==
  /\ \A n \in Packet \ Over : Stamp(n) = NoStamp
  /\ \A n \in Over :
       /\ Stamp(n) # NoStamp /\ Stamp(n) <= n
       /\ \A m \in 1..(n - 1) : Stamp(n) > 0 => Stamp(m) < Stamp(n)
       /\ (\A m \in 1..(n - 1) : Stamp(m) # Failed) => Stamp(n) \in {Failed, n}

\* A stamp in time waits in the queue or has been found.
InTimeIsThere ==
  /\ \A n \in inTime : (n < sent \/ ~reading) /\ result[n].attempts < MaxTXTS => Stamp(n) = n
  /\ reading /\ sent \in inTime =>
       found = sent \/ \E i \in 1..Len(errQueue) : errQueue[i] = sent

TxInv == TxTypeOK /\ (reading => sent > 0) /\ StampsIncrease /\ OwnUnlessFailed /\ InTimeIsThere

LEMMA TxInvInit == TxInit => TxInv
<1> SUFFICES ASSUME TxInit PROVE TxInv
  OBVIOUS
<1>1. MaxPackets \in Nat /\ MaxTXTS \in Nat
  BY TxAssumption
<1>2. Over = {} /\ Len(errQueue) = 0 /\ \A n \in Packet : Stamp(n) = NoStamp
  BY DEF TxInit, Over, Stamp
<1>3. result \in [Packet -> [stamp : Failed..MaxPackets, attempts : 0..MaxTXTS]]
  BY <1>1 DEF TxInit, Failed, NoStamp
<1>4. TxTypeOK
  <2>1. sent = 0 /\ errQueue = <<>> /\ errQueue \in Seq(Packet) /\ pending = {} /\ inTime = {}
    BY DEF TxInit
  <2>2. reading \in BOOLEAN
    BY DEF TxInit
  <2>3. attempts \in 0..MaxTXTS /\ found \in 0..sent
    BY <1>1, <2>1 DEF TxInit, NoStamp
  <2> QED
    BY <1>1, <1>3, <2>1, <2>2, <2>3 DEF TxTypeOK
<1> QED
  BY <1>1, <1>2, <1>4 DEF TxInit, TxInv, StampsIncrease, OwnUnlessFailed, InTimeIsThere

LEMMA TxSendKeeps ==
  ASSUME TxInv, SendPacket
  PROVE  TxInv'
<1>1. /\ ~reading /\ sent \in Nat /\ sent' = sent + 1 /\ sent' <= MaxPackets
      /\ pending' = pending \cup {sent'} /\ reading' = TRUE /\ attempts' = 0
      /\ found' = NoStamp /\ UNCHANGED <<errQueue, result, inTime>>
      /\ MaxPackets \in Nat /\ MaxTXTS \in Nat
  BY TxAssumption DEF SendPacket, TxInv, TxTypeOK
<1>2. Over' = Over /\ Over = 1..sent
  BY <1>1 DEF Over
<1>3. TxTypeOK' /\ (reading' => sent' > 0)
  BY <1>1 DEF TxInv, TxTypeOK, NoStamp
<1>4. \A n \in 1..sent : Stamp(n) <= n /\ Stamp(n) \in Int
  BY <1>1, <1>2 DEF TxInv, OwnUnlessFailed, TxTypeOK, Stamp, Packet, Failed
<1>5. StampsIncrease'
  <2>1. \A i \in 1..Len(errQueue) : errQueue[i] \in Nat /\ errQueue[i] > 0
    BY DEF TxInv, TxTypeOK, Packet
  <2>2. \A i \in 1..Len(errQueue) : \A n \in pending' : errQueue[i] < n
    BY <1>1, <2>1 DEF TxInv, StampsIncrease
  <2>3. \A n \in pending' : 0 < n /\ \A m \in Over : Stamp(m) < n
    BY <1>1, <1>2, <1>4 DEF TxInv, TxTypeOK, StampsIncrease
  <2> QED
    BY <1>1, <1>2, <2>1, <2>2, <2>3 DEF TxInv, StampsIncrease, Stamp, NoStamp
<1>6. OwnUnlessFailed'
  BY <1>1, <1>2 DEF TxInv, OwnUnlessFailed, Stamp
<1>7. InTimeIsThere'
  BY <1>1, <1>2 DEF TxInv, InTimeIsThere, TxTypeOK, Stamp
<1> QED
  BY <1>3, <1>5, <1>6, <1>7 DEF TxInv

LEMMA ArriveKeeps ==
  ASSUME TxInv, NEW n \in Packet, Arrive(n)
  PROVE  TxInv'
<1>1. /\ n \in pending /\ n \in 1..sent /\ sent \in Nat /\ errQueue \in Seq(Packet)
      /\ errQueue' = Append(errQueue, n) /\ pending' = {m \in pending : m > n}
      /\ UNCHANGED <<sent, reading, attempts, found, result>>
      /\ pending \subseteq 1..sent
  BY DEF Arrive, TxInv, TxTypeOK
<1>2. /\ Len(errQueue') = Len(errQueue) + 1 /\ Len(errQueue) \in Nat
      /\ \A i \in 1..Len(errQueue) : errQueue'[i] = errQueue[i] /\ errQueue[i] \in Packet
      /\ errQueue'[Len(errQueue) + 1] = n
  BY <1>1
<1>3. Over' = Over
  BY <1>1 DEF Over
<1>4. TxTypeOK' /\ (reading' => sent' > 0)
  <2>1. errQueue' \in Seq(Packet)
    BY <1>1
  <2>2. pending' \subseteq 1..sent' /\ inTime' \subseteq 1..sent'
    BY <1>1 DEF TxInv, TxTypeOK, Arrive
  <2> QED
    BY <1>1, <2>1, <2>2 DEF TxInv, TxTypeOK
<1>5. StampsIncrease'
  <2>1. \A i, k \in 1..Len(errQueue') : i < k => errQueue'[i] < errQueue'[k]
    BY <1>1, <1>2 DEF TxInv, StampsIncrease
  <2>2. \A i \in 1..Len(errQueue') :
          /\ errQueue'[i] <= sent /\ found < errQueue'[i]
          /\ \A m \in pending' : errQueue'[i] < m
          /\ \A m \in Over : Stamp(m) < errQueue'[i]
    BY <1>1, <1>2 DEF TxInv, StampsIncrease
  <2> QED
    BY <1>1, <1>3, <2>1, <2>2 DEF TxInv, StampsIncrease, Stamp
<1>6. OwnUnlessFailed'
  BY <1>1, <1>3 DEF TxInv, OwnUnlessFailed, Stamp
<1>7. InTimeIsThere'
  BY <1>1, <1>2 DEF TxInv, InTimeIsThere, TxTypeOK, Stamp, Arrive
<1> QED
  BY <1>4, <1>5, <1>6, <1>7 DEF TxInv

LEMMA AttemptKeeps ==
  ASSUME TxInv, Attempt
  PROVE  TxInv'
<1>1. /\ reading /\ attempts' = attempts + 1 /\ attempts' \in 0..MaxTXTS
      /\ UNCHANGED <<sent, pending, reading, result, inTime>>
      /\ errQueue \in Seq(Packet) /\ sent \in Nat /\ found \in 0..sent
  BY TxAssumption DEF Attempt, TxInv, TxTypeOK
<1>2. Over' = Over
  BY <1>1 DEF Over
<1>3. CASE errQueue = <<>>
  <2>1. UNCHANGED <<found, errQueue>>
    BY <1>3 DEF Attempt
  <2> QED
    BY <1>1, <1>2, <2>1
       DEF TxInv, TxTypeOK, StampsIncrease, OwnUnlessFailed, InTimeIsThere, Stamp
<1>4. CASE errQueue # <<>>
  <2>1. /\ found' = errQueue[1] /\ errQueue' \in Seq(Packet)
        /\ Len(errQueue) \in Nat /\ Len(errQueue) > 0 /\ Len(errQueue') = Len(errQueue) - 1
        /\ \A i \in 1..Len(errQueue') : errQueue'[i] = errQueue[i + 1]
        /\ \A i \in 1..Len(errQueue) : errQueue[i] \in Packet
    <3>1. found' = Head(errQueue) /\ errQueue' = Tail(errQueue)
      BY <1>4 DEF Attempt
    <3>2. Len(errQueue) \in Nat /\ Len(errQueue) > 0
      BY <1>1, <1>4
    <3>3. errQueue' \in Seq(Packet) /\ Len(errQueue') = Len(errQueue) - 1
      BY <1>1, <1>4, <3>1
    <3>4. \A i \in 1..Len(errQueue') : errQueue'[i] = errQueue[i + 1]
      BY <1>1, <1>4, <3>1, <3>2
    <3> QED
      BY <1>1, <1>4, <3>1, <3>2, <3>3, <3>4
  <2>2. found' \in 1..sent /\ found < found'
    BY <1>1, <2>1, TxAssumption DEF TxInv, StampsIncrease, Packet
  <2>3. TxTypeOK' /\ (reading' => sent' > 0)
    <3>1. found' \in 0..sent /\ errQueue' \in Seq(Packet)
      BY <1>1, <2>1, <2>2
    <3> QED
      BY <1>1, <3>1 DEF TxInv, TxTypeOK
  <2>4. StampsIncrease'
    <3>1. \A i, k \in 1..Len(errQueue') : i < k => errQueue'[i] < errQueue'[k]
      BY <2>1 DEF TxInv, StampsIncrease
    <3>2. \A i \in 1..Len(errQueue') :
            /\ errQueue'[i] <= sent /\ found' < errQueue'[i]
            /\ \A m \in pending : errQueue'[i] < m
            /\ \A m \in Over : Stamp(m) < errQueue'[i]
      BY <2>1 DEF TxInv, StampsIncrease
    <3>3. (\A m \in pending : found' < m) /\ \A m \in Over : Stamp(m) < found'
      BY <2>1 DEF TxInv, StampsIncrease
    <3> QED
      BY <1>1, <1>2, <3>1, <3>2, <3>3 DEF TxInv, StampsIncrease, Stamp
  <2>5. OwnUnlessFailed'
    BY <1>1, <1>2 DEF TxInv, OwnUnlessFailed, Stamp
  <2>6. InTimeIsThere'
    <3>1. sent \in inTime => found' = sent \/ \E i \in 1..Len(errQueue') : errQueue'[i] = sent
      <4> SUFFICES ASSUME sent \in inTime, found' # sent
                   PROVE  \E i \in 1..Len(errQueue') : errQueue'[i] = sent
        OBVIOUS
      <4>1. found # sent
        BY <1>1, <2>2
      <4>2. PICK i \in 1..Len(errQueue) : errQueue[i] = sent
        BY <1>1, <4>1 DEF TxInv, InTimeIsThere
      <4>3. i # 1
        BY <2>1, <4>2
      <4>4. i - 1 \in 1..Len(errQueue') /\ errQueue'[i - 1] = errQueue[i]
        BY <2>1, <4>3
      <4> QED
        BY <4>2, <4>4
    <3> QED
      BY <1>1, <3>1 DEF TxInv, InTimeIsThere, Stamp
  <2> QED
    BY <2>3, <2>4, <2>5, <2>6 DEF TxInv
<1> QED
  BY <1>3, <1>4

LEMMA ReadReturnsKeeps ==
  ASSUME TxInv, ReadReturns
  PROVE  TxInv'
<1>1. /\ reading /\ reading' = FALSE /\ sent \in Nat /\ sent > 0 /\ sent \in Packet
      /\ UNCHANGED <<sent, pending, errQueue, attempts, found, inTime>>
      /\ found \in 0..sent /\ attempts \in 0..MaxTXTS /\ MaxTXTS \in Nat
  BY TxAssumption DEF ReadReturns, TxInv, TxTypeOK, Packet
<1>2. Over = 1..(sent - 1) /\ Over' = 1..sent /\ Over \subseteq Packet /\ Over' \subseteq Packet
  BY <1>1, TxAssumption DEF Over, Packet, TxInv, TxTypeOK
<1>3. /\ result' \in [Packet -> [stamp : Failed..MaxPackets, attempts : 0..MaxTXTS]]
      /\ result'[sent].stamp = (IF found = NoStamp THEN Failed ELSE found)
      /\ result'[sent].attempts = attempts
      /\ \A m \in Packet : m # sent => result'[m] = result[m]
  BY <1>1, TxAssumption DEF ReadReturns, TxInv, TxTypeOK, Packet, Failed, NoStamp
<1>4. TxTypeOK' /\ (reading' => sent' > 0)
  BY <1>1, <1>3 DEF TxInv, TxTypeOK
<1>5. \A m \in Packet : result[m].stamp \in Int /\ result'[m].stamp \in Int
  BY <1>3, TxAssumption DEF TxInv, TxTypeOK, Failed
<1>6. StampsIncrease'
  <2>1. /\ \A i \in 1..Len(errQueue) : errQueue[i] \in Nat
        /\ \A n \in pending : n \in Nat
        /\ \A m \in Over' : (m \in Over /\ m # sent /\ m \in Packet) \/ m = sent
    <3>1. \A i \in 1..Len(errQueue) : errQueue[i] \in Nat
      BY DEF TxInv, TxTypeOK, Packet
    <3>2. \A n \in pending : n \in Nat
      BY <1>1 DEF TxInv, TxTypeOK
    <3>3. \A m \in Over' : (m \in Over /\ m # sent /\ m \in Packet) \/ m = sent
      BY <1>1, <1>2
    <3> QED
      BY <3>1, <3>2, <3>3
  <2>2. \A i \in 1..Len(errQueue) : \A m \in Over' : result'[m].stamp < errQueue[i]
    <3> SUFFICES ASSUME NEW i \in 1..Len(errQueue), NEW m \in Over'
                 PROVE  result'[m].stamp < errQueue[i]
      OBVIOUS
    <3>1. CASE m = sent
      BY <1>1, <1>3, <2>1, <3>1 DEF TxInv, StampsIncrease, Failed
    <3>2. CASE m # sent
      BY <1>3, <2>1, <3>2 DEF TxInv, StampsIncrease, Stamp
    <3> QED
      BY <3>1, <3>2
  <2>3. \A n \in pending : \A m \in Over' : result'[m].stamp < n
    <3> SUFFICES ASSUME NEW n \in pending, NEW m \in Over'
                 PROVE  result'[m].stamp < n
      OBVIOUS
    <3>1. CASE m = sent
      BY <1>1, <1>3, <2>1, <3>1 DEF TxInv, StampsIncrease, Failed
    <3>2. CASE m # sent
      BY <1>3, <2>1, <3>2 DEF TxInv, StampsIncrease, Stamp
    <3> QED
      BY <3>1, <3>2
  <2> QED
    BY <1>1, <2>2, <2>3 DEF TxInv, StampsIncrease, Stamp
<1>7. OwnUnlessFailed'
  <2>1. \A m \in Packet \ Over' : result'[m].stamp = NoStamp
    <3>1. \A m \in Packet \ Over' : m # sent /\ m \notin Over
      BY <1>1, <1>2
    <3> QED
      BY <1>3, <3>1 DEF TxInv, OwnUnlessFailed, Stamp
  <2>2. ASSUME NEW n \in Over', n # sent
        PROVE  /\ result'[n].stamp # NoStamp /\ result'[n].stamp <= n
               /\ \A m \in 1..(n - 1) : result'[n].stamp > 0 => result'[m].stamp < result'[n].stamp
               /\ (\A m \in 1..(n - 1) : result'[m].stamp # Failed)
                    => result'[n].stamp \in {Failed, n}
    <3>1. n \in Over /\ n \in Packet /\ \A m \in 1..(n - 1) : m \in Packet /\ m # sent
      BY <1>1, <1>2, <2>2
    <3> QED
      BY <1>3, <2>2, <3>1 DEF TxInv, OwnUnlessFailed, Stamp
  <2>3. /\ result'[sent].stamp # NoStamp /\ result'[sent].stamp <= sent
        /\ \A m \in 1..(sent - 1) :
             result'[sent].stamp > 0 => result'[m].stamp < result'[sent].stamp
    <3>1. /\ result'[sent].stamp = IF found = NoStamp THEN Failed ELSE found
          /\ \A m \in 1..(sent - 1) : result'[m].stamp = result[m].stamp /\ m \in Over
      BY <1>1, <1>2, <1>3
    <3>2. CASE found = NoStamp
      BY <1>1, <3>1, <3>2 DEF Failed, NoStamp
    <3>3. CASE found # NoStamp
      <4>1. \A m \in Over : Stamp(m) < found
        BY <1>1, <3>3 DEF TxInv, StampsIncrease
      <4> QED
        BY <1>1, <3>1, <3>3, <4>1 DEF Stamp, NoStamp
    <3> QED
      BY <3>2, <3>3
  <2>4. (\A m \in 1..(sent - 1) : result'[m].stamp # Failed)
          => result'[sent].stamp \in {Failed, sent}
    <3> SUFFICES ASSUME \A m \in 1..(sent - 1) : result'[m].stamp # Failed, found # NoStamp
                 PROVE  found = sent
      BY <1>3
    <3>1. \A m \in 1..(sent - 1) : result[m].stamp # Failed /\ m \in Packet
      BY <1>1, <1>2, <1>3
    <3>2. CASE sent = 1
      BY <1>1, <3>2 DEF NoStamp
    <3>3. CASE sent > 1
      <4>1. sent - 1 \in Over /\ \A m \in 1..(sent - 1 - 1) : result[m].stamp # Failed
        BY <1>1, <1>2, <3>1, <3>3
      <4>2. result[sent - 1].stamp = sent - 1
        BY <1>1, <3>1, <3>3, <4>1 DEF TxInv, OwnUnlessFailed, Stamp
      <4>3. sent - 1 < found
        BY <1>1, <4>1, <4>2 DEF TxInv, StampsIncrease, Stamp
      <4> QED
        BY <1>1, <4>3
    <3> QED
      BY <1>1, <3>2, <3>3
  <2> QED
    BY <1>1, <1>2, <2>1, <2>2, <2>3, <2>4 DEF OwnUnlessFailed, Stamp
<1>8. InTimeIsThere'
  <2>1. ASSUME NEW n \in inTime, result'[n].attempts < MaxTXTS
        PROVE  result'[n].stamp = n
    <3>1. n \in 1..sent /\ n \in Packet
      BY <1>1, TxAssumption DEF TxInv, TxTypeOK, Packet
    <3>2. CASE n # sent
      BY <1>1, <1>3, <2>1, <3>1, <3>2 DEF TxInv, InTimeIsThere, Stamp
    <3>3. CASE n = sent
      <4>1. errQueue = <<>> /\ found # NoStamp
        BY <1>1, <1>3, <2>1, <3>3 DEF ReadReturns
      <4>2. found = sent
        BY <1>1, <3>3, <4>1 DEF TxInv, InTimeIsThere
      <4> QED
        BY <1>3, <3>3, <4>1, <4>2
    <3> QED
      BY <3>2, <3>3
  <2> QED
    BY <1>1, <2>1 DEF InTimeIsThere, Stamp
<1> QED
  BY <1>4, <1>6, <1>7, <1>8 DEF TxInv

LEMMA TxInvInductive == TxInv /\ [TxNext]_txVars => TxInv'
<1> SUFFICES ASSUME TxInv, [TxNext]_txVars PROVE TxInv'
  OBVIOUS
<1>1. CASE SendPacket  BY <1>1, TxSendKeeps
<1>2. ASSUME NEW n \in Packet, Arrive(n) PROVE TxInv'  BY <1>2, ArriveKeeps
<1>3. CASE Attempt  BY <1>3, AttemptKeeps
<1>4. CASE ReadReturns  BY <1>4, ReadReturnsKeeps
<1>5. CASE UNCHANGED txVars
  BY <1>5 DEF txVars, TxInv, TxTypeOK, StampsIncrease, OwnUnlessFailed, InTimeIsThere, Over, Stamp
<1> QED
  BY <1>1, <1>2, <1>3, <1>4, <1>5 DEF TxNext

LEMMA TxInvImplies == TxInv => ShiftNeedsFailure /\ OwnStampFound
<1> SUFFICES ASSUME TxInv PROVE ShiftNeedsFailure /\ OwnStampFound
  OBVIOUS
<1>1. \A n \in Packet : Stamp(n) # NoStamp => n \in Over
  BY DEF TxInv, OwnUnlessFailed
<1>2. ShiftNeedsFailure
  BY <1>1 DEF TxInv, OwnUnlessFailed, ShiftNeedsFailure, NoStamp, Failed
<1>3. OwnStampFound
  <2>1. sent \in Nat /\ \A n \in inTime : n \in 1..sent /\ n \in Packet
    BY TxAssumption DEF TxInv, TxTypeOK, Packet
  <2>2. \A n \in Over : n < sent \/ ~reading
    BY <2>1 DEF Over
  <2> QED
    BY <1>1, <2>1, <2>2 DEF TxInv, InTimeIsThere, OwnStampFound
<1> QED
  BY <1>2, <1>3

\* However late stamps come, a packet gets another's only after a failed read,
\* and no stamp is given twice or backwards.
THEOREM NoShiftWithoutFailure == TxSpec => []ShiftNeedsFailure
  BY TxInvInit, TxInvInductive, TxInvImplies, PTL DEF TxSpec

\* Draining the queue finds the packet's own stamp when it came in time.
THEOREM DrainFindsOwnStamp == TxSpec => []OwnStampFound
  BY TxInvInit, TxInvInductive, TxInvImplies, PTL DEF TxSpec

-----------------------------------------------------------------------------
\* The management client.

Done == IF waiting THEN 1..(calls - 1) ELSE 1..calls

Reply == [status : {"ok", "error"}, seq : 0..(SeqWord - 1), call : Call, type : DataSet]
Request == [seq : 0..(SeqWord - 1), call : Call, type : DataSet]
Result == [status : {"none", "ok", "rejected", "failed"}, call : 0..MaxCalls,
           type : DataSet \cup {"none"}]

\* What is on its way, in the order of the calls, is for calls that were made
\* and later than all that has been taken for an answer.
CallsIncrease ==
  /\ \A i, k \in 1..Len(answers) : i < k => answers[i].call < answers[k].call
  /\ \A i, k \in 1..Len(requests) : i < k => requests[i].call < requests[k].call
  /\ \A i \in 1..Len(answers) : \A k \in 1..Len(requests) : answers[i].call < requests[k].call
  /\ \A i \in 1..Len(answers) :
       /\ answers[i].call <= calls /\ answers[i].type = wanted[answers[i].call]
       /\ \A b \in Done : returned[b].call < answers[i].call
  /\ \A i \in 1..Len(requests) :
       /\ requests[i].call <= calls /\ requests[i].type = wanted[requests[i].call]
       /\ \A b \in Done : returned[b].call < requests[i].call

OwnUnlessBroken ==
  /\ \A c \in Call \ Done : returned[c].status = "none"
  /\ \A c \in Done :
       /\ returned[c].call <= c
       /\ returned[c].status = "ok" => returned[c].type = wanted[c]
       /\ returned[c].status # "failed" =>
            /\ \A b \in 1..(c - 1) : returned[b].call < returned[c].call
            /\ (\A b \in 1..(c - 1) : returned[b].status # "failed") => returned[c].call = c

MgInv ==
  /\ MgTypeOK /\ (waiting => calls > 0)
  /\ requests \in Seq(Request) /\ answers \in Seq(Reply) /\ returned \in [Call -> Result]
  /\ CallsIncrease /\ OwnUnlessBroken

LEMMA MgInvInit == MgInit => MgInv
<1> SUFFICES ASSUME MgInit PROVE MgInv
  OBVIOUS
<1>1. MaxCalls \in Nat /\ SeqWord \in Nat /\ SeqWord > 0
  BY MgmtAssumption
<1>2. Done = {} /\ Len(answers) = 0 /\ Len(requests) = 0 /\ returned = [c \in Call |-> Pending]
  BY DEF MgInit, Done
<1>3. Pending \in Result
  BY <1>1 DEF Pending, Result
<1>4. \A c \in Call : returned[c].status = "none"
  BY <1>2 DEF Pending
<1>5. sequence \in 0..(SeqWord - 1) /\ calls \in 0..MaxCalls
  BY <1>1 DEF MgInit
<1>6. waiting = FALSE /\ wanted \in [Call -> DataSet \cup {"none"}]
  BY DEF MgInit
<1>7. MgTypeOK
  BY <1>4, <1>5, <1>6 DEF MgTypeOK
<1>8. requests \in Seq(Request) /\ answers \in Seq(Reply) /\ returned \in [Call -> Result]
  BY <1>2, <1>3 DEF MgInit
<1>9. CallsIncrease /\ OwnUnlessBroken
  BY <1>2, <1>4 DEF CallsIncrease, OwnUnlessBroken
<1> QED
  BY <1>6, <1>7, <1>8, <1>9 DEF MgInv

LEMMA MgSendKeeps ==
  ASSUME MgInv, NEW set \in DataSet, SendRequest(set)
  PROVE  MgInv'
<1>1. CallsIncrease
  BY DEF MgInv
<1>2. /\ ~waiting /\ calls \in Nat /\ calls' = calls + 1 /\ calls' \in Call /\ MaxCalls \in Nat
      /\ SeqWord \in Nat /\ SeqWord > 0 /\ sequence' \in 0..(SeqWord - 1)
      /\ wanted' = [wanted EXCEPT ![calls'] = set] /\ answers' = answers
      /\ wanted \in [Call -> DataSet \cup {"none"}] /\ returned \in [Call -> Result]
  BY MgmtAssumption DEF SendRequest, MgInv, MgTypeOK, Call
<1>3. Done = 1..calls /\ Done \subseteq Call
  BY <1>2 DEF Done, Call
<1>4. /\ wanted' \in [Call -> DataSet \cup {"none"}] /\ wanted'[calls'] = set
      /\ \A c \in Call : c # calls' => wanted'[c] = wanted[c]
  BY <1>2
<1>5. /\ \A i \in 1..Len(answers) : answers[i] \in Reply /\ answers[i].call \in Call
                                    /\ answers[i].call # calls'
      /\ \A i \in 1..Len(requests) : requests[i] \in Request /\ requests[i].call \in Call
                                     /\ requests[i].call # calls'
  <2>1. \A i \in 1..Len(answers) : answers[i] \in Reply /\ answers[i].call \in Call
    <3>1. answers \in Seq(Reply) /\ \A m \in Reply : m.call \in Call
      BY DEF MgInv, Reply
    <3> QED
      BY <3>1
  <2>2. \A i \in 1..Len(requests) : requests[i] \in Request /\ requests[i].call \in Call
    <3>1. requests \in Seq(Request) /\ \A m \in Request : m.call \in Call
      BY DEF MgInv, Request
    <3> QED
      BY <3>1
  <2>3. /\ \A i \in 1..Len(answers) : answers[i].call <= calls
        /\ \A i \in 1..Len(requests) : requests[i].call <= calls
    BY DEF MgInv, CallsIncrease
  <2> QED
    BY <1>2, <2>1, <2>2, <2>3 DEF Call
<1>6. CASE /\ requests' = Append(requests, [seq |-> sequence', call |-> calls', type |-> set])
           /\ waiting' = TRUE /\ UNCHANGED returned
  <2> DEFINE new == [seq |-> sequence', call |-> calls', type |-> set]
  <2>1. new \in Request /\ new.call = calls' /\ new.type = set
    BY <1>2 DEF Request
  <2> HIDE DEF new
  <2>2. /\ requests' = Append(requests, new) /\ requests' \in Seq(Request)
        /\ Len(requests') = Len(requests) + 1 /\ Len(requests) \in Nat
        /\ \A i \in 1..Len(requests) : requests'[i] = requests[i]
        /\ requests'[Len(requests) + 1] = new
    <3>1. requests' = Append(requests, new) /\ requests \in Seq(Request)
      BY <1>6 DEF MgInv, new
    <3> QED
      BY <2>1, <3>1
  <2>3. Done' = Done
    BY <1>2, <1>3, <1>6 DEF Done
  <2>4. \A b \in Done : returned[b].call <= b
    BY DEF MgInv, OwnUnlessBroken
  <2>5. CallsIncrease'
    <3>1. \A i, k \in 1..Len(requests') : i < k => requests'[i].call < requests'[k].call
      <4> SUFFICES ASSUME NEW i \in 1..Len(requests'), NEW k \in 1..Len(requests'), i < k
                   PROVE  requests'[i].call < requests'[k].call
        OBVIOUS
      <4>1. i \in 1..Len(requests) /\ (k \in 1..Len(requests) \/ k = Len(requests) + 1)
        BY <2>2
      <4>2. requests[i].call <= calls /\ requests[i].call \in Nat
        BY <1>1, <1>5, <4>1 DEF CallsIncrease, Call
      <4>3. CASE k \in 1..Len(requests)
        BY <1>1, <2>2, <4>1, <4>3 DEF CallsIncrease
      <4>4. CASE k = Len(requests) + 1
        BY <1>2, <2>1, <2>2, <4>1, <4>2, <4>4
      <4> QED
        BY <4>1, <4>3, <4>4
    <3>2. \A i \in 1..Len(answers) :
            /\ answers[i].call <= calls' /\ answers[i].type = wanted'[answers[i].call]
            /\ \A b \in Done : returned[b].call < answers[i].call
            /\ \A k \in 1..Len(requests') : answers[i].call < requests'[k].call
      <4> SUFFICES ASSUME NEW i \in 1..Len(answers)
                   PROVE  /\ answers[i].call <= calls'
                          /\ answers[i].type = wanted'[answers[i].call]
                          /\ \A b \in Done : returned[b].call < answers[i].call
                          /\ \A k \in 1..Len(requests') : answers[i].call < requests'[k].call
        OBVIOUS
      <4>1. answers[i].call <= calls /\ answers[i].call \in Nat
        BY <1>1, <1>5 DEF CallsIncrease, Call
      <4>2. answers[i].type = wanted'[answers[i].call]
        BY <1>1, <1>4, <1>5 DEF CallsIncrease
      <4>3. \A k \in 1..Len(requests') : k \in 1..Len(requests) \/ k = Len(requests) + 1
        BY <2>2
      <4>4. \A k \in 1..Len(requests') : answers[i].call < requests'[k].call
        <5> SUFFICES ASSUME NEW k \in 1..Len(requests')
                     PROVE  answers[i].call < requests'[k].call
          OBVIOUS
        <5>1. CASE k \in 1..Len(requests)
          BY <1>1, <2>2, <5>1 DEF CallsIncrease
        <5>2. CASE k = Len(requests) + 1
          BY <1>2, <2>1, <2>2, <4>1, <5>2
        <5> QED
          BY <4>3, <5>1, <5>2
      <4> QED
        BY <1>1, <1>2, <4>1, <4>2, <4>4 DEF CallsIncrease
    <3>3. \A i \in 1..Len(requests') :
            /\ requests'[i].call <= calls' /\ requests'[i].type = wanted'[requests'[i].call]
            /\ \A b \in Done : returned[b].call < requests'[i].call
      <4> SUFFICES ASSUME NEW i \in 1..Len(requests')
                   PROVE  /\ requests'[i].call <= calls'
                          /\ requests'[i].type = wanted'[requests'[i].call]
                          /\ \A b \in Done : returned[b].call < requests'[i].call
        OBVIOUS
      <4>1. CASE i \in 1..Len(requests)
        <5>1. requests[i].call <= calls /\ requests[i].call \in Nat
          BY <1>1, <1>5, <4>1 DEF CallsIncrease, Call
        <5>2. requests[i].type = wanted'[requests[i].call]
          BY <1>1, <1>4, <1>5, <4>1 DEF CallsIncrease
        <5> QED
          BY <1>1, <1>2, <2>2, <4>1, <5>1, <5>2 DEF CallsIncrease
      <4>2. CASE i = Len(requests) + 1
        <5>1. \A b \in Done : returned[b].call < calls'
          <6>1. \A b \in Done : returned[b] \in Result /\ b <= calls /\ b \in Nat
            BY <1>2, <1>3
          <6> QED
            BY <1>2, <2>4, <6>1 DEF Result
        <5> QED
          BY <1>2, <1>4, <2>1, <2>2, <4>2, <5>1
      <4> QED
        BY <2>2, <4>1, <4>2
    <3> QED
      BY <1>1, <1>2, <1>6, <2>3, <3>1, <3>2, <3>3 DEF CallsIncrease
  <2>6. OwnUnlessBroken'
    <3>1. \A c \in Done : wanted'[c] = wanted[c]
      BY <1>2, <1>3, <1>4
    <3> QED
      BY <1>6, <2>3, <3>1 DEF MgInv, OwnUnlessBroken
  <2>7. MgTypeOK'
    BY <1>2, <1>4, <1>6 DEF MgInv, MgTypeOK, Call
  <2> QED
    BY <1>2, <1>6, <2>2, <2>5, <2>6, <2>7 DEF MgInv
<1>7. CASE /\ returned' = [returned EXCEPT ![calls'] = Broken]
           /\ UNCHANGED <<requests, waiting>>
  <2>1. Done' = Done \cup {calls'} /\ calls' \notin Done
    BY <1>2, <1>3, <1>7 DEF Done
  <2>2. Broken \in Result /\ Broken.status = "failed" /\ Broken.call = 0
    BY <1>2 DEF Broken, Result
  <2>3. /\ returned' \in [Call -> Result] /\ returned'[calls'] = Broken
        /\ \A c \in Call : c # calls' => returned'[c] = returned[c]
    BY <1>2, <1>7, <2>2
  <2>4. MgTypeOK'
    BY <1>2, <1>4, <1>7, <2>3 DEF MgInv, MgTypeOK, Call, Result
  <2>5. CallsIncrease'
    <3>1. \A i \in 1..Len(answers) :
            /\ answers[i].call <= calls' /\ answers[i].type = wanted'[answers[i].call]
            /\ \A b \in Done' : returned'[b].call < answers[i].call
      <4> SUFFICES ASSUME NEW i \in 1..Len(answers)
                   PROVE  /\ answers[i].call <= calls'
                          /\ answers[i].type = wanted'[answers[i].call]
                          /\ \A b \in Done' : returned'[b].call < answers[i].call
        OBVIOUS
      <4>1. CallsIncrease
        BY DEF MgInv
      <4>2. answers[i].call <= calls /\ answers[i].call \in Nat /\ answers[i].call > 0
        BY <1>5, <4>1 DEF CallsIncrease, Call
      <4>3. answers[i].type = wanted'[answers[i].call]
        BY <1>4, <1>5, <4>1 DEF CallsIncrease
      <4>4. \A b \in Done : b # calls' /\ b \in Call /\ returned[b].call < answers[i].call
        BY <1>1, <1>3, <2>1 DEF CallsIncrease
      <4>5. \A b \in Done' : returned'[b].call < answers[i].call
        BY <2>1, <2>2, <2>3, <4>2, <4>4
      <4>6. answers[i].call <= calls'
        BY <1>2, <4>2
      <4> QED
        BY <4>3, <4>5, <4>6
    <3>2. \A i \in 1..Len(requests) :
            /\ requests[i].call <= calls' /\ requests[i].type = wanted'[requests[i].call]
            /\ \A b \in Done' : returned'[b].call < requests[i].call
      <4> SUFFICES ASSUME NEW i \in 1..Len(requests)
                   PROVE  /\ requests[i].call <= calls'
                          /\ requests[i].type = wanted'[requests[i].call]
                          /\ \A b \in Done' : returned'[b].call < requests[i].call
        OBVIOUS
      <4>1. requests[i].call <= calls /\ requests[i].call \in Nat /\ requests[i].call > 0
        BY <1>1, <1>5 DEF CallsIncrease, Call
      <4>2. requests[i].type = wanted'[requests[i].call]
        BY <1>1, <1>4, <1>5 DEF CallsIncrease
      <4>3. \A b \in Done : b # calls' /\ b \in Call /\ returned[b].call < requests[i].call
        BY <1>1, <1>3, <2>1 DEF CallsIncrease
      <4>4. \A b \in Done' : returned'[b].call < requests[i].call
        BY <2>1, <2>2, <2>3, <4>1, <4>3
      <4>5. requests[i].call <= calls'
        BY <1>2, <4>1
      <4> QED
        BY <4>2, <4>4, <4>5
    <3> QED
      BY <1>1, <1>2, <1>7, <3>1, <3>2 DEF CallsIncrease
  <2>6. OwnUnlessBroken'
    <3>1. \A c \in Call \ Done' : returned'[c].status = "none"
      BY <2>1, <2>3 DEF MgInv, OwnUnlessBroken
    <3>2. \A c \in Done : /\ c # calls' /\ returned'[c] = returned[c] /\ wanted'[c] = wanted[c]
                          /\ \A b \in 1..(c - 1) : returned'[b] = returned[b]
      <4>1. \A c \in Done : c # calls' /\ c \in Call /\ \A b \in 1..(c - 1) : b \in Done
        BY <1>2, <1>3, <2>1
      <4>2. \A b \in Done : returned'[b] = returned[b] /\ wanted'[b] = wanted[b]
        BY <1>4, <2>3, <4>1
      <4> QED
        BY <4>1, <4>2
    <3>3. \A c \in Done :
            /\ returned'[c].call <= c
            /\ returned'[c].status = "ok" => returned'[c].type = wanted'[c]
            /\ returned'[c].status # "failed" =>
                 /\ \A b \in 1..(c - 1) : returned'[b].call < returned'[c].call
                 /\ (\A b \in 1..(c - 1) : returned'[b].status # "failed")
                      => returned'[c].call = c
      BY <3>2 DEF MgInv, OwnUnlessBroken
    <3>4. /\ returned'[calls'].call <= calls' /\ returned'[calls'].status = "failed"
      BY <1>2, <2>2, <2>3
    <3> QED
      BY <2>1, <3>1, <3>3, <3>4 DEF OwnUnlessBroken
  <2> QED
    BY <1>2, <1>7, <2>3, <2>4, <2>5, <2>6 DEF MgInv
<1> QED
  BY <1>6, <1>7 DEF SendRequest

LEMMA ServerKeeps ==
  ASSUME MgInv, ServerAnswers
  PROVE  MgInv'
<1>1. /\ requests \in Seq(Request) /\ requests # <<>> /\ requests' = Tail(requests)
      /\ answers \in Seq(Reply)
      /\ UNCHANGED <<sequence, calls, waiting, wanted, returned>>
  BY DEF ServerAnswers, MgInv
<1>2. Done' = Done
  BY <1>1 DEF Done
<1>3. /\ requests' \in Seq(Request) /\ Len(requests) \in Nat /\ Len(requests) > 0
      /\ Len(requests') = Len(requests) - 1
      /\ \A i \in 1..Len(requests') : requests'[i] = requests[i + 1]
      /\ requests[1] \in Request /\ requests[1] = Head(requests)
  <2>1. Len(requests) \in Nat /\ Len(requests) > 0
    BY <1>1
  <2>2. requests' \in Seq(Request) /\ Len(requests') = Len(requests) - 1
    BY <1>1
  <2>3. \A i \in 1..Len(requests') : requests'[i] = requests[i + 1]
    BY <1>1, <2>1
  <2>4. requests[1] \in Request /\ requests[1] = Head(requests)
    BY <1>1, <2>1
  <2> QED
    BY <2>1, <2>2, <2>3, <2>4
\* The requests that stay are in order and later than the one that leaves.
<1>4. /\ \A i, k \in 1..Len(requests') : i < k => requests'[i].call < requests'[k].call
      /\ \A k \in 1..Len(requests') : requests[1].call < requests'[k].call
      /\ \A i \in 1..Len(answers) : \A k \in 1..Len(requests') :
           answers[i].call < requests'[k].call
      /\ \A i \in 1..Len(answers) : answers[i].call < requests[1].call
      /\ \A i \in 1..Len(requests') :
           /\ requests'[i].call <= calls /\ requests'[i].type = wanted[requests'[i].call]
           /\ \A b \in Done : returned[b].call < requests'[i].call
      /\ requests[1].call <= calls /\ requests[1].type = wanted[requests[1].call]
      /\ \A b \in Done : returned[b].call < requests[1].call
  <2>1. CallsIncrease
    BY DEF MgInv
  <2>2. 1 \in 1..Len(requests) /\ \A i \in 1..Len(requests') : i + 1 \in 1..Len(requests) /\ 1 < i + 1
    BY <1>3
  <2>3. \A i, k \in 1..Len(requests') : i < k => i + 1 < k + 1
    OBVIOUS
  <2>4. \A i, k \in 1..Len(requests') : i < k => requests'[i].call < requests'[k].call
    BY <1>3, <2>1, <2>2, <2>3 DEF CallsIncrease
  <2>5. \A k \in 1..Len(requests') : requests[1].call < requests'[k].call
    BY <1>3, <2>1, <2>2 DEF CallsIncrease
  <2>6. \A i \in 1..Len(answers) : \A k \in 1..Len(requests') :
          answers[i].call < requests'[k].call
    BY <1>3, <2>1, <2>2 DEF CallsIncrease
  <2>7. \A i \in 1..Len(requests') :
          /\ requests'[i].call <= calls /\ requests'[i].type = wanted[requests'[i].call]
          /\ \A b \in Done : returned[b].call < requests'[i].call
    BY <1>3, <2>1, <2>2 DEF CallsIncrease
  <2>8. /\ \A i \in 1..Len(answers) : answers[i].call < requests[1].call
        /\ requests[1].call <= calls /\ requests[1].type = wanted[requests[1].call]
        /\ \A b \in Done : returned[b].call < requests[1].call
    BY <2>1, <2>2 DEF CallsIncrease
  <2> QED
    BY <2>4, <2>5, <2>6, <2>7, <2>8
<1>5. CASE UNCHANGED answers
  <2>1. CallsIncrease'
    BY <1>1, <1>2, <1>4, <1>5 DEF MgInv, CallsIncrease
  <2>2. MgTypeOK' /\ OwnUnlessBroken'
    BY <1>1, <1>2 DEF MgInv, MgTypeOK, OwnUnlessBroken
  <2> QED
    BY <1>1, <1>3, <1>5, <2>1, <2>2 DEF MgInv
<1>6. ASSUME NEW s \in {"ok", "error"},
             answers' = Append(answers, [status |-> s, seq |-> requests[1].seq,
                                         call |-> requests[1].call,
                                         type |-> requests[1].type])
      PROVE  MgInv'
  <2> DEFINE new == [status |-> s, seq |-> requests[1].seq, call |-> requests[1].call,
                     type |-> requests[1].type]
  <2>1. new \in Reply /\ new.call = requests[1].call /\ new.type = requests[1].type
    BY <1>3, <1>6 DEF Reply, Request
  <2>2. answers' = Append(answers, new)
    BY <1>6
  <2> HIDE DEF new
  <2>3. /\ answers' \in Seq(Reply) /\ Len(answers) \in Nat /\ Len(answers') = Len(answers) + 1
        /\ \A i \in 1..Len(answers) : answers'[i] = answers[i]
        /\ answers'[Len(answers) + 1] = new
    BY <1>1, <2>1, <2>2
  <2>4. \A i \in 1..Len(answers') : i \in 1..Len(answers) \/ i = Len(answers) + 1
    BY <2>3
  <2>5. \A i, k \in 1..Len(answers') : i < k => i \in 1..Len(answers)
    BY <2>3
  <2>6. \A i, k \in 1..Len(answers') : i < k => answers'[i].call < answers'[k].call
    BY <1>4, <2>1, <2>3, <2>4, <2>5 DEF MgInv, CallsIncrease
  <2>7. \A i \in 1..Len(answers') :
          /\ answers'[i].call <= calls /\ answers'[i].type = wanted[answers'[i].call]
          /\ \A b \in Done : returned[b].call < answers'[i].call
          /\ \A k \in 1..Len(requests') : answers'[i].call < requests'[k].call
    BY <1>4, <2>1, <2>3, <2>4 DEF MgInv, CallsIncrease
  <2>8. CallsIncrease'
    BY <1>1, <1>2, <1>4, <2>6, <2>7 DEF CallsIncrease
  <2>9. MgTypeOK' /\ OwnUnlessBroken'
    BY <1>1, <1>2 DEF MgInv, MgTypeOK, OwnUnlessBroken
  <2> QED
    BY <1>1, <1>3, <2>3, <2>8, <2>9 DEF MgInv
<1> QED
  BY <1>3, <1>5, <1>6 DEF ServerAnswers

\* A result is noted for the call that waited.  An answer taken from the queue
\* is later than all before it, so it is the call's own if theirs were.
LEMMA ReturnKeeps ==
  ASSUME MgInv, waiting, waiting' = FALSE,
         UNCHANGED <<sequence, calls, wanted, requests>>,
         NEW r \in Result, returned' = [returned EXCEPT ![calls] = r],
         \/ answers' = answers /\ r = Broken
         \/ /\ answers # <<>> /\ answers' = Tail(answers)
            /\ r = Outcome(Head(answers), wanted[calls])
  PROVE  MgInv'
<1>1. /\ calls \in Nat /\ calls > 0 /\ calls \in Call /\ MaxCalls \in Nat
      /\ answers \in Seq(Reply) /\ requests \in Seq(Request) /\ returned \in [Call -> Result]
  BY MgmtAssumption DEF MgInv, MgTypeOK, Call
<1>2. /\ Done = 1..(calls - 1) /\ Done' = 1..calls /\ calls \notin Done
      /\ Done' = Done \cup {calls} /\ Done \subseteq Call
  BY <1>1 DEF Done, Call
<1>3. /\ returned' \in [Call -> Result] /\ returned'[calls] = r
      /\ \A c \in Call : c # calls => returned'[c] = returned[c]
  BY <1>1
<1>4. MgTypeOK'
  <2>1. \A c \in Call : returned'[c].status \in {"none", "ok", "rejected", "failed"}
    BY <1>3 DEF Result
  <2> QED
    BY <2>1 DEF MgInv, MgTypeOK
\* What is left in the queue, and what came out of it.
<1>5. /\ answers' \in Seq(Reply)
      /\ \A i \in 1..Len(answers') : \E k \in 1..Len(answers) :
           answers'[i] = answers[k] /\ r.call < answers[k].call
      /\ \A i, k \in 1..Len(answers') : i < k => answers'[i].call < answers'[k].call
      /\ \A k \in 1..Len(requests) : r.call < requests[k].call
      /\ r.call <= calls
      /\ r.status = "ok" => r.type = wanted[calls]
      /\ r.status # "failed" => \A b \in Done : returned[b].call < r.call
  <2>1. /\ \A k \in 1..Len(requests) : requests[k].call \in Nat /\ requests[k].call > 0
        /\ \A k \in 1..Len(answers) : answers[k].call \in Nat /\ answers[k].call > 0
    <3>1. /\ \A m \in Request : m.call \in Nat /\ m.call > 0
          /\ \A m \in Reply : m.call \in Nat /\ m.call > 0
      BY DEF Request, Reply, Call
    <3> QED
      BY <1>1, <3>1
  <2>2. CASE answers' = answers /\ r = Broken
    <3>1. r.call = 0 /\ r.status = "failed"
      BY <2>2 DEF Broken
    <3> QED
      BY <1>1, <2>1, <2>2, <3>1 DEF MgInv, CallsIncrease
  <2>3. CASE /\ answers # <<>> /\ answers' = Tail(answers)
             /\ r = Outcome(Head(answers), wanted[calls])
    <3>1. /\ Len(answers) \in Nat /\ Len(answers) > 0 /\ Head(answers) = answers[1]
          /\ 1 \in 1..Len(answers)
      BY <1>1, <2>3
    <3>2. /\ answers' \in Seq(Reply) /\ Len(answers') = Len(answers) - 1
      BY <1>1, <2>3
    <3>3. \A i \in 1..Len(answers') : answers'[i] = answers[i + 1]
      BY <1>1, <2>3, <3>1
    <3>4. \A i \in 1..Len(answers') : i + 1 \in 1..Len(answers) /\ 1 < i + 1
      BY <3>1, <3>2
    <3>5. r.call = answers[1].call /\ (r.status = "ok" => r.type = wanted[calls])
          /\ r.status # "failed"
      BY <2>3, <3>1 DEF Outcome
    <3>6. \A i \in 1..Len(answers') : answers'[i] = answers[i + 1] /\ r.call < answers[i + 1].call
      BY <3>1, <3>3, <3>4, <3>5 DEF MgInv, CallsIncrease
    <3>7. \A i, k \in 1..Len(answers') : i < k => answers'[i].call < answers'[k].call
      <4>1. \A i, k \in 1..Len(answers') : i < k => i + 1 < k + 1
        OBVIOUS
      <4> QED
        BY <3>3, <3>4, <4>1 DEF MgInv, CallsIncrease
    <3>8. /\ \A k \in 1..Len(requests) : r.call < requests[k].call
          /\ r.call <= calls /\ \A b \in Done : returned[b].call < r.call
      BY <3>1, <3>5 DEF MgInv, CallsIncrease
    <3> QED
      BY <3>2, <3>4, <3>5, <3>6, <3>7, <3>8
  <2> QED
    BY <2>2, <2>3
<1>6. CallsIncrease'
  <2>1. \A b \in Done' : (b \in Done /\ returned'[b] = returned[b]) \/ (b = calls /\ returned'[b] = r)
    <3>1. \A b \in Done : b \in Call /\ b # calls
      BY <1>2
    <3>2. \A b \in Done : returned'[b] = returned[b]
      BY <1>3, <3>1
    <3>3. returned'[calls] = r
      BY <1>3
    <3>4. \A b \in Done' : b \in Done \/ b = calls
      BY <1>2
    <3> QED
      BY <3>2, <3>3, <3>4
  <2>2. ASSUME NEW i \in 1..Len(answers')
        PROVE  /\ answers'[i].call <= calls /\ answers'[i].type = wanted[answers'[i].call]
               /\ \A b \in Done' : returned'[b].call < answers'[i].call
               /\ \A k \in 1..Len(requests) : answers'[i].call < requests[k].call
    <3>1. PICK k \in 1..Len(answers) : answers'[i] = answers[k] /\ r.call < answers[k].call
      BY <1>5
    <3>2. /\ answers[k].call <= calls /\ answers[k].type = wanted[answers[k].call]
          /\ \A b \in Done : returned[b].call < answers[k].call
          /\ \A m \in 1..Len(requests) : answers[k].call < requests[m].call
      BY <3>1 DEF MgInv, CallsIncrease
    <3>3. \A b \in Done' : returned'[b].call < answers[k].call
      BY <2>1, <3>1, <3>2
    <3> QED
      BY <3>1, <3>2, <3>3
  <2>3. \A i \in 1..Len(requests) : \A b \in Done' : returned'[b].call < requests[i].call
    BY <1>5, <2>1 DEF MgInv, CallsIncrease
  <2> QED
    BY <1>5, <2>2, <2>3 DEF MgInv, CallsIncrease
<1>7. OwnUnlessBroken'
  <2>1. \A c \in Call \ Done' : returned'[c].status = "none"
    BY <1>2, <1>3 DEF MgInv, OwnUnlessBroken
  <2>2. \A b \in Done : b \in Call /\ b # calls /\ returned'[b] = returned[b]
    BY <1>2, <1>3
  <2>3. \A c \in Done : \A b \in 1..(c - 1) : b \in Done
    BY <1>1, <1>2
  <2>4. \A c \in Done :
          /\ returned'[c].call <= c
          /\ returned'[c].status = "ok" => returned'[c].type = wanted[c]
          /\ returned'[c].status # "failed" =>
               /\ \A b \in 1..(c - 1) : returned'[b].call < returned'[c].call
               /\ (\A b \in 1..(c - 1) : returned'[b].status # "failed")
                    => returned'[c].call = c
    BY <2>2, <2>3 DEF MgInv, OwnUnlessBroken
  <2>5. ASSUME r.status # "failed", \A b \in 1..(calls - 1) : returned[b].status # "failed"
        PROVE  r.call = calls
    <3>1. r.call \in Nat /\ r.call <= calls
      BY <1>1, <1>5 DEF Result
    <3>2. CASE calls = 1
      <4>1. r.call # 0
        <5>1. r # Broken
          BY <2>5 DEF Broken
        <5>2. r.call = Head(answers).call /\ Head(answers) \in Reply
          BY <1>1, <5>1 DEF Outcome
        <5> QED
          BY <5>2 DEF Reply, Call
      <4> QED
        BY <3>1, <3>2, <4>1
    <3>3. CASE calls > 1
      <4>1. calls - 1 \in Done /\ \A b \in 1..(calls - 1 - 1) : returned[b].status # "failed"
        BY <1>1, <1>2, <2>5, <3>3
      <4>2. returned[calls - 1].status # "failed"
        BY <1>2, <2>5, <4>1
      <4>3. returned[calls - 1].call = calls - 1
        BY <4>1, <4>2 DEF MgInv, OwnUnlessBroken
      <4>4. calls - 1 < r.call
        BY <1>5, <2>5, <4>1, <4>3
      <4> QED
        BY <1>1, <3>1, <4>4
    <3> QED
      BY <1>1, <3>2, <3>3
  <2>6. /\ r.call <= calls
        /\ r.status = "ok" => r.type = wanted[calls]
        /\ r.status # "failed" =>
             /\ \A b \in 1..(calls - 1) : returned'[b].call < r.call
             /\ (\A b \in 1..(calls - 1) : returned'[b].status # "failed") => r.call = calls
    BY <1>2, <1>5, <2>2, <2>5
  <2> QED
    BY <1>2, <1>3, <2>1, <2>4, <2>6 DEF OwnUnlessBroken
<1> QED
  BY <1>1, <1>3, <1>4, <1>5, <1>6, <1>7 DEF MgInv

LEMMA ReadsKeep ==
  ASSUME MgInv, ReadAnswer \/ ReadFails
  PROVE  MgInv'
<1>1. CASE ReadAnswer
  <2>1. /\ calls \in Call /\ MaxCalls \in Nat /\ answers \in Seq(Reply) /\ answers # <<>>
        /\ wanted \in [Call -> DataSet \cup {"none"}]
    BY <1>1, MgmtAssumption DEF ReadAnswer, MgInv, MgTypeOK, Call
  <2>2. Head(answers) \in Reply
    BY <2>1
  <2>3. Outcome(Head(answers), wanted[calls]) \in Result
    BY <2>1, <2>2 DEF Outcome, Result, Reply, Call
  <2> QED
    BY <1>1, <2>1, <2>3, ReturnKeeps DEF ReadAnswer
<1>2. CASE ReadFails
  <2>1. Broken \in Result
    BY MgmtAssumption DEF Broken, Result
  <2> QED
    BY <1>2, <2>1, ReturnKeeps DEF ReadFails
<1> QED
  BY <1>1, <1>2

LEMMA MgInvInductive == MgInv /\ [MgNext]_mgVars => MgInv'
<1> SUFFICES ASSUME MgInv, [MgNext]_mgVars PROVE MgInv'
  OBVIOUS
<1>1. ASSUME NEW set \in DataSet, SendRequest(set) PROVE MgInv'  BY <1>1, MgSendKeeps
<1>2. CASE ServerAnswers  BY <1>2, ServerKeeps
<1>3. CASE ReadAnswer \/ ReadFails  BY <1>3, ReadsKeep
<1>4. CASE UNCHANGED mgVars
  BY <1>4 DEF mgVars, MgInv, MgTypeOK, CallsIncrease, OwnUnlessBroken, Done
<1> QED
  BY <1>1, <1>2, <1>3, <1>4 DEF MgNext

LEMMA MgInvImplies == MgInv => AnswerFits
  BY DEF MgInv, OwnUnlessBroken, AnswerFits

\* However late the answers and however many reads fail, a call that succeeds
\* has the kind of data it asked for, and its own unless a call before failed.
THEOREM AnswersFit == MgSpec => []AnswerFits
  BY MgInvInit, MgInvInductive, MgInvImplies, PTL DEF MgSpec

-----------------------------------------------------------------------------
\* The profiler.

\* The sum, and what Tock is about to write, are made of work within the length
\* a period has so far, unless work not wholly within it was added.
Fits(length) ==
  /\ totalWorkTime <= length
  /\ startWork # Nothing /\ ~foreign =>
       /\ startAccumulation <= startWork
       /\ totalWorkTime <= startWork - startAccumulation
       /\ tock # Nothing => tock <= length

\* Between the reset and the restart the sum is empty.
Emptied ==
  /\ totalWorkTime = 0
  /\ tock # Nothing /\ ~foreign => tock <= now - startWork

WithinPeriod ==
  /\ stage = "share" => startAccumulation + totalTime <= now
  /\ stage = "wait" /\ ~added => Fits(now - startAccumulation)
  /\ stage = "share" /\ ~added => Fits(totalTime)
  /\ stage = "restart" /\ ~added => Emptied

PrInv ==
  /\ PrTypeOK /\ startAccumulation <= now /\ startWork <= now
  /\ tock # Nothing => startWork # Nothing
  /\ WithinPeriod /\ BusyWithinPeriod

LEMMA PrInvInit == PrInit => PrInv
<1> SUFFICES ASSUME PrInit PROVE PrInv
  OBVIOUS
<1>1. {due, foreign, added, lastAdded} \subseteq BOOLEAN
  BY ZenonT(20) DEF PrInit
<1>2. PrTypeOK
  BY <1>1, ProfilerAssumption DEF PrInit, PrTypeOK, Nothing
<1>3. WithinPeriod
  BY DEF PrInit, WithinPeriod, Fits, Nothing
<1> QED
  BY <1>2, <1>3, ProfilerAssumption DEF PrInit, PrInv, BusyWithinPeriod, Nothing

LEMMA PrInvInductive == PrInv /\ [PrNext]_prVars => PrInv'
<1> SUFFICES ASSUME PrInv, [PrNext]_prVars PROVE PrInv'
  OBVIOUS
<1> USE ProfilerAssumption DEF PrInv, Nothing, shown, ticker
<1>1. /\ now \in Nat /\ totalWorkTime \in Nat /\ totalTime \in Nat /\ startAccumulation \in Nat
      /\ lastWork \in Nat /\ lastTime \in Nat
      /\ startWork \in Nat \cup {-1} /\ tock \in Nat \cup {-1}
      /\ stage \in {"wait", "share", "reset", "restart"}
      /\ due \in BOOLEAN /\ foreign \in BOOLEAN /\ added \in BOOLEAN /\ lastAdded \in BOOLEAN
  BY DEF PrTypeOK
\* The two sides of the type invariant: truth values and numbers.
<1>2. {due', foreign', added', lastAdded'} \subseteq BOOLEAN
  <2>1. due' \in BOOLEAN
    BY <1>1 DEF PrNext, TimePasses, Tick, TockReads, TockWrites, PeriodEnds, PeriodMeasures,
                PeriodShares, PeriodResets, PeriodRestarts, prVars
  <2>2. foreign' \in BOOLEAN
    BY <1>1 DEF PrNext, TimePasses, Tick, TockReads, TockWrites, PeriodEnds, PeriodMeasures,
                PeriodShares, PeriodResets, PeriodRestarts, prVars
  <2>3. added' \in BOOLEAN
    BY <1>1 DEF PrNext, TimePasses, Tick, TockReads, TockWrites, PeriodEnds, PeriodMeasures,
                PeriodShares, PeriodResets, PeriodRestarts, prVars
  <2>4. lastAdded' \in BOOLEAN
    BY <1>1 DEF PrNext, TimePasses, Tick, TockReads, TockWrites, PeriodEnds, PeriodMeasures,
                PeriodShares, PeriodResets, PeriodRestarts, prVars
  <2> QED
    BY <2>1, <2>2, <2>3, <2>4
<1>3. CASE TimePasses
  <2>1. PrTypeOK'
    BY <1>1, <1>2, <1>3 DEF TimePasses, PrTypeOK
  <2>2. WithinPeriod'
    BY <1>1, <1>3 DEF TimePasses, WithinPeriod, Fits, Emptied
  <2>3. BusyWithinPeriod'
    BY <1>1, <1>3 DEF TimePasses, WithinPeriod, Fits, BusyWithinPeriod
  <2> QED
    BY <1>1, <1>3, <2>1, <2>2, <2>3 DEF TimePasses
<1>4. CASE Tick
  <2>1. PrTypeOK'
    BY <1>1, <1>2, <1>4 DEF Tick, PrTypeOK
  <2>2. WithinPeriod'
    BY <1>1, <1>4 DEF Tick, WithinPeriod, Fits, Emptied
  <2>3. BusyWithinPeriod'
    BY <1>1, <1>4 DEF Tick, WithinPeriod, Fits, BusyWithinPeriod
  <2> QED
    BY <1>1, <1>4, <2>1, <2>2, <2>3 DEF Tick
<1>5. CASE TockReads
  <2>1. PrTypeOK'
    BY <1>1, <1>2, <1>5 DEF TockReads, PrTypeOK
  <2>2. WithinPeriod'
    <3>1. ~foreign' => ~foreign /\ ~(stage = "share" /\ now > startAccumulation + totalTime)
      BY <1>5, Zenon DEF TockReads
    <3>2. /\ startWork # -1 /\ startWork \in Nat /\ startWork' = startWork /\ now' = now
          /\ tock' = totalWorkTime + (now - startWork) /\ totalWorkTime' = totalWorkTime
          /\ startAccumulation' = startAccumulation /\ totalTime' = totalTime
          /\ stage' = stage /\ added' = added
      BY <1>1, <1>5 DEF TockReads
    <3>3. CASE stage = "wait"
      BY <1>1, <3>1, <3>2, <3>3 DEF WithinPeriod, Fits
    <3>4. CASE stage = "share"
      BY <1>1, <3>1, <3>2, <3>4 DEF WithinPeriod, Fits
    <3>5. CASE stage = "restart"
      BY <1>1, <3>1, <3>2, <3>5 DEF WithinPeriod, Emptied
    <3>6. CASE stage = "reset"
      BY <1>1, <3>2, <3>6 DEF WithinPeriod
    <3> QED
      BY <1>1, <3>3, <3>4, <3>5, <3>6
  <2>3. BusyWithinPeriod'
    BY <1>1, <1>5 DEF TockReads, WithinPeriod, Fits, BusyWithinPeriod
  <2> QED
    BY <1>1, <1>5, <2>1, <2>2, <2>3 DEF TockReads
<1>6. CASE TockWrites
  <2>1. PrTypeOK'
    BY <1>1, <1>2, <1>6 DEF TockWrites, PrTypeOK
  <2>2. WithinPeriod'
    <3>1. ~added' => ~added /\ ~foreign /\ ~(stage = "restart" /\ tock > 0)
      BY <1>6, Zenon DEF TockWrites
    <3>2. /\ startWork # -1 /\ tock # -1 /\ startWork' = -1 /\ tock' = -1
          /\ totalWorkTime' = tock /\ now' = now
          /\ startAccumulation' = startAccumulation /\ totalTime' = totalTime
          /\ stage' = stage
      BY <1>1, <1>6 DEF TockWrites
    <3> QED
      BY <1>1, <3>1, <3>2 DEF WithinPeriod, Fits, Emptied
  <2>3. BusyWithinPeriod'
    BY <1>1, <1>6 DEF TockWrites, WithinPeriod, Fits, BusyWithinPeriod
  <2> QED
    BY <1>1, <1>6, <2>1, <2>2, <2>3 DEF TockWrites
<1>7. CASE PeriodMeasures
  <2>1. PrTypeOK'
    BY <1>1, <1>2, <1>7 DEF PeriodMeasures, PrTypeOK
  <2>2. WithinPeriod'
    BY <1>1, <1>7 DEF PeriodMeasures, WithinPeriod, Fits, Emptied
  <2>3. BusyWithinPeriod'
    BY <1>1, <1>7 DEF PeriodMeasures, WithinPeriod, Fits, BusyWithinPeriod
  <2> QED
    BY <1>1, <1>7, <2>1, <2>2, <2>3 DEF PeriodMeasures
<1>8. CASE PeriodShares
  <2>1. PrTypeOK'
    BY <1>1, <1>2, <1>8 DEF PeriodShares, PrTypeOK
  <2>2. WithinPeriod'
    BY <1>1, <1>8 DEF PeriodShares, WithinPeriod, Fits, Emptied
  <2>3. BusyWithinPeriod'
    BY <1>1, <1>8 DEF PeriodShares, WithinPeriod, Fits, BusyWithinPeriod
  <2> QED
    BY <1>1, <1>8, <2>1, <2>2, <2>3 DEF PeriodShares
<1>9. CASE PeriodResets
  <2>1. PrTypeOK'
    BY <1>1, <1>2, <1>9 DEF PeriodResets, PrTypeOK
  <2>2. WithinPeriod'
    BY <1>1, <1>9 DEF PeriodResets, WithinPeriod, Fits, Emptied
  <2>3. BusyWithinPeriod'
    BY <1>1, <1>9 DEF PeriodResets, WithinPeriod, Fits, BusyWithinPeriod
  <2> QED
    BY <1>1, <1>9, <2>1, <2>2, <2>3 DEF PeriodResets
<1>10. CASE PeriodRestarts
  <2>1. PrTypeOK'
    BY <1>1, <1>2, <1>10 DEF PeriodRestarts, PrTypeOK
  <2>2. WithinPeriod'
    <3>1. ~foreign' => ~foreign /\ ~(startWork # -1 /\ startWork < now)
      BY <1>10, Zenon DEF PeriodRestarts
    <3>2. /\ startWork' = startWork /\ tock' = tock /\ totalWorkTime' = totalWorkTime
          /\ now' = now /\ startAccumulation' = now /\ added' = added
          /\ stage = "restart" /\ stage' = "wait"
      BY <1>1, <1>10 DEF PeriodRestarts
    <3> QED
      BY <1>1, <3>1, <3>2 DEF WithinPeriod, Fits, Emptied
  <2>3. BusyWithinPeriod'
    BY <1>1, <1>10 DEF PeriodRestarts, WithinPeriod, Fits, BusyWithinPeriod
  <2> QED
    BY <1>1, <1>10, <2>1, <2>2, <2>3 DEF PeriodRestarts
<1>11. CASE UNCHANGED prVars
  BY <1>11 DEF prVars, PrTypeOK, WithinPeriod, Fits, Emptied, BusyWithinPeriod
<1> QED
  BY <1>3, <1>4, <1>5, <1>6, <1>7, <1>8, <1>9, <1>10, <1>11 DEF PrNext, PeriodEnds

\* Work not wholly within the measured length of a period is the only way to
\* more than 100 %, however late the ticks are handled and wherever Tick and Tock
\* fall between the steps of a period's end.
THEOREM ProfilerWithinPeriod == PrSpec => []BusyWithinPeriod
<1>1. PrInv => BusyWithinPeriod
  BY DEF PrInv
<1> QED
  BY <1>1, PrInvInit, PrInvInductive, PTL DEF PrSpec

-----------------------------------------------------------------------------
\* Side by side: the tools share no state, so that each keeps its invariant.
MeasurementInv == TxInv /\ MgInv /\ PrInv

LEMMA MeasurementInvInductive == MeasurementInv /\ [Next]_all => MeasurementInv'
<1>1. [Next]_all => [TxNext]_txVars /\ [MgNext]_mgVars /\ [PrNext]_prVars
  BY DEF Next, all
<1> QED
  BY <1>1, TxInvInductive, MgInvInductive, PrInvInductive DEF MeasurementInv

\* Packets, requests and profiler samples keep their types in any behaviour of
\* the reader, the client or the profiler.
THEOREM MeasurementTypeCorrect == Spec => []TypeOK
<1>1. Init => MeasurementInv
  BY TxInvInit, MgInvInit, PrInvInit DEF Init, MeasurementInv
<1>2. MeasurementInv => TypeOK
  BY DEF MeasurementInv, TypeOK, TxInv, MgInv, PrInv
<1> QED
  BY <1>1, <1>2, MeasurementInvInductive, PTL DEF Spec
=============================================================================
