------------------------- MODULE ClientEngineProofs -------------------------
(* Theorems about ClientEngine and the rounds of its requests, for any number *)
(* of clients, packet, retransmit and restart processors and any capacity of  *)
(* the channels.                                                              *)
EXTENDS RequestRounds, TLAPS

\* A thread that chose a request chose it for a state that asks for one.
RequestingState ==
    \A t \in Threads : th[t].pc \in {"count", "mark"} => th[t].cur \in States \ {"Done"}

TypeInv == TypeOK /\ RequestingState

(* A client's timers live with one processor of each kind.                    *)
LEMMA ProcTypes ==
    \A c \in Clients : RetransProc(c) \in RetransProcs /\ RestartProc(c) \in RestartProcs
BY SizesAssumption DEF Clients, RetransProc, RestartProc, RetransProcs, RestartProcs

(* The helpers of the handlers return what their callers store.               *)
LEMMA HelperTypes ==
    /\ \A k \in Kinds : GrantedState(k) \in States
    /\ \A s \in States \ {"Done"} : RequestFor(s) \in Kinds
BY DEF Kinds, States, GrantedState, RequestFor

(* A send on a retransmit channel keeps its type and its capacity.            *)
LEMMA SendRetransType ==
    ASSUME TypeOK, NEW c \in Clients, NEW op \in {"insert", "remove"}, SendRetransOp(op, c)
    PROVE  /\ retransQ' \in [RetransProcs -> Seq(Ops)]
           /\ \A p \in RetransProcs : Len(retransQ'[p]) <= OpQueueSize
<1> DEFINE r == RetransProc(c)
<1>1. r \in RetransProcs
  BY ProcTypes
<1>2. Op(op, c) \in Ops
  BY DEF Op, Ops
<1>3. Append(retransQ[r], Op(op, c)) \in Seq(Ops)
      /\ Len(Append(retransQ[r], Op(op, c))) = Len(retransQ[r]) + 1
  BY <1>1, <1>2 DEF TypeOK
<1>4. Len(retransQ[r]) + 1 <= OpQueueSize
  BY <1>1, SizesAssumption DEF TypeOK, SendRetransOp
<1> QED
  BY <1>1, <1>3, <1>4 DEF TypeOK, SendRetransOp

(* And so does a send on a restart channel.                                   *)
LEMMA SendRestartType ==
    ASSUME TypeOK, NEW c \in Clients, NEW op \in {"insert", "remove"}, SendRestartOp(op, c)
    PROVE  /\ restartQ' \in [RestartProcs -> Seq(Ops)]
           /\ \A p \in RestartProcs : Len(restartQ'[p]) <= OpQueueSize
<1> DEFINE r == RestartProc(c)
<1>1. r \in RestartProcs
  BY ProcTypes
<1>2. Op(op, c) \in Ops
  BY DEF Op, Ops
<1>3. Append(restartQ[r], Op(op, c)) \in Seq(Ops)
      /\ Len(Append(restartQ[r], Op(op, c))) = Len(restartQ[r]) + 1
  BY <1>1, <1>2 DEF TypeOK
<1>4. Len(restartQ[r]) + 1 <= OpQueueSize
  BY <1>1, SizesAssumption DEF TypeOK, SendRestartOp
<1> QED
  BY <1>1, <1>3, <1>4 DEF TypeOK, SendRestartOp

(* Moving one thread keeps the threads' type.                                 *)
LEMMA GotoType ==
    ASSUME TypeInv, NEW t \in Threads, NEW p \in Steps, NEW c \in Clients,
           NEW s \in States \cup {"None"}, Goto(t, p, c, s),
           p \in {"count", "mark"} => s \in States \ {"Done"}
    PROVE  /\ th' \in [Threads -> [pc : Steps, cl : Clients, cur : States \cup {"None"}]]
           /\ RequestingState'
BY DEF TypeInv, TypeOK, Goto, RequestingState

LEMMA ReturnType ==
    ASSUME TypeInv, NEW t \in Threads, Return(t)
    PROVE  /\ th' \in [Threads -> [pc : Steps, cl : Clients, cur : States \cup {"None"}]]
           /\ RequestingState'
<1>1. Idle \in [pc : Steps, cl : Clients, cur : States \cup {"None"}]
  BY SizesAssumption DEF Idle, Steps, Clients
<1> QED
  BY <1>1 DEF TypeInv, TypeOK, Return, RequestingState, Idle

LEMMA ThreadTypes ==
    /\ PacketThreads \subseteq Threads
    /\ RetransThreads \subseteq Threads
    /\ RestartThreads \subseteq Threads
    /\ \A t \in RetransThreads : t[2] \in RetransProcs
    /\ \A t \in RestartThreads : t[2] \in RestartProcs
BY DEF Threads, RetransThreads, RestartThreads

LEMMA InitType == Init => TypeInv
<1> SUFFICES ASSUME Init PROVE TypeInv
  OBVIOUS
<1>1. Idle \in [pc : Steps, cl : Clients, cur : States \cup {"None"}]
  BY SizesAssumption DEF Idle, Steps, Clients
<1>2. <<>> \in Seq(Ops) /\ Len(<<>>) = 0
  OBVIOUS
<1> QED
  BY <1>1, <1>2, SizesAssumption DEF Init, TypeInv, TypeOK, RequestingState, Idle, States

-----------------------------------------------------------------------------
(* One lemma per part of the next-state relation.                             *)

LEMMA HandleRetransmitType ==
    ASSUME TypeInv, NEW t \in Threads, HandleRetransmit(t)
    PROVE  TypeInv'
<1> DEFINE c == th[t].cl
<1>1. /\ c \in Clients
      /\ th[t].cur \in States \cup {"None"}
      /\ state[c] \in States
  BY DEF TypeInv, TypeOK
<1>2. CASE ReadState(t)
  <2> DEFINE p == IF state[c] = "Done" THEN "check" ELSE "count"
  <2>1. p \in Steps /\ (p \in {"count", "mark"} => state[c] \in States \ {"Done"})
    BY <1>1 DEF Steps
  <2>2. Goto(t, p, c, state[c])
    BY <1>2 DEF ReadState
  <2> QED
    BY <1>1, <1>2, <2>1, <2>2, GotoType DEF ReadState, TypeInv, TypeOK
<1>3. CASE CheckDone(t)
  <2>1. CASE lapsed[c]
    BY <1>3, <2>1, ReturnType DEF CheckDone, TypeInv, TypeOK
  <2>2. CASE ~lapsed[c]
    <3>1. Goto(t, "rearm", c, "Done") /\ "rearm" \in Steps /\ "Done" \in States
      BY <1>3, <2>2 DEF CheckDone, Steps, States
    <3> QED
      BY <1>1, <1>3, <3>1, GotoType DEF CheckDone, TypeInv, TypeOK
  <2> QED
    BY <2>1, <2>2
<1>4. CASE CountRequest(t)
  <2>1. th[t].cur \in States \ {"Done"} /\ RequestFor(th[t].cur) \in Kinds
    BY <1>4, HelperTypes DEF CountRequest, TypeInv, RequestingState
  <2>2. Goto(t, "mark", c, th[t].cur) /\ "mark" \in Steps
    BY <1>4 DEF CountRequest, Steps
  <2> QED
    BY <1>1, <1>4, <2>1, <2>2, GotoType DEF CountRequest, TypeInv, TypeOK
<1>5. CASE MarkAndSend(t)
  <2>1. RequestFor(th[t].cur) \in Kinds
    BY <1>5, HelperTypes DEF MarkAndSend, TypeInv, RequestingState
  <2>2. Goto(t, "rearm", c, "None") /\ "rearm" \in Steps
    BY <1>5 DEF MarkAndSend, Steps
  <2>3. /\ laststate' \in [Clients -> States \cup {"None"}]
        /\ sent' \subseteq Clients \X Kinds
    BY <1>1, <1>5, <2>1 DEF MarkAndSend, TypeInv, TypeOK
  <2>4. /\ th' \in [Threads -> [pc : Steps, cl : Clients, cur : States \cup {"None"}]]
        /\ RequestingState'
    BY <1>1, <2>2, GotoType
  <2> QED
    BY <1>5, <2>3, <2>4 DEF MarkAndSend, TypeInv, TypeOK
<1>6. CASE Rearm(t)
  <2>1. SendRetransOp("insert", c) /\ Return(t)
    BY <1>6 DEF Rearm
  <2> QED
    BY <1>1, <1>6, <2>1, SendRetransType, ReturnType DEF Rearm, TypeInv, TypeOK
<1> QED
  BY <1>2, <1>3, <1>4, <1>5, <1>6 DEF HandleRetransmit

LEMMA RemoveRetransmitType ==
    ASSUME TypeInv, NEW t \in Threads, RemoveRetransmit(t)
    PROVE  TypeInv'
<1>1. th[t].cl \in Clients
  BY DEF TypeInv, TypeOK
<1>2. SendRetransOp("remove", th[t].cl) /\ Goto(t, "read", th[t].cl, "None") /\ "read" \in Steps
  BY DEF RemoveRetransmit, Steps
<1> QED
  BY <1>1, <1>2, SendRetransType, GotoType DEF RemoveRetransmit, TypeInv, TypeOK

LEMMA ReceiveGrantType ==
    ASSUME TypeInv, NEW t \in PacketThreads, NEW c \in Clients, NEW k \in Kinds,
           ReceiveGrant(t, c, k)
    PROVE  TypeInv'
<1>1. t \in Threads /\ GrantedState(k) \in States
  BY ThreadTypes, HelperTypes
<1>2. "restartPush" \in Steps /\ "remove" \in Steps
  BY DEF Steps
<1>3. /\ th' \in [Threads -> [pc : Steps, cl : Clients, cur : States \cup {"None"}]]
      /\ RequestingState'
  BY <1>1, <1>2, GotoType DEF ReceiveGrant
<1>4. lapsed' \in [Clients -> BOOLEAN]
  BY DEF ReceiveGrant, TypeInv, TypeOK
<1> QED
  BY <1>1, <1>3, <1>4 DEF ReceiveGrant, TypeInv, TypeOK

LEMMA PushRestartType ==
    ASSUME TypeInv, NEW t \in Threads, PushRestart(t)
    PROVE  TypeInv'
<1>1. th[t].cl \in Clients
  BY DEF TypeInv, TypeOK
<1>2. SendRestartOp("insert", th[t].cl) /\ Goto(t, "remove", th[t].cl, "None") /\ "remove" \in Steps
  BY DEF PushRestart, Steps
<1> QED
  BY <1>1, <1>2, SendRestartType, GotoType DEF PushRestart, TypeInv, TypeOK

LEMMA RetransStepType ==
    ASSUME TypeInv, NEW t \in RetransThreads, RetransStep(t)
    PROVE  TypeInv'
<1>1. t \in Threads /\ t[2] \in RetransProcs
  BY ThreadTypes
<1>2. CASE ApplyRetransOp(t)
  <2> DEFINE q == retransQ[t[2]]
  <2>1. q \in Seq(Ops) /\ q # <<>> /\ Len(q) <= OpQueueSize
    BY <1>1, <1>2 DEF ApplyRetransOp, TypeInv, TypeOK
  <2>2. Head(q) \in Ops /\ Tail(q) \in Seq(Ops) /\ Len(Tail(q)) <= OpQueueSize
    BY <2>1, SizesAssumption
  <2> QED
    BY <1>1, <1>2, <2>2 DEF ApplyRetransOp, TypeInv, TypeOK, Ops, RequestingState
<1>3. ASSUME NEW c \in Clients, PopRetransTimer(t, c) PROVE TypeInv'
  <2>1. "read" \in Steps
    BY DEF Steps
  <2> QED
    BY <1>1, <1>3, <2>1, GotoType DEF PopRetransTimer, TypeInv, TypeOK
<1> QED
  BY <1>1, <1>2, <1>3, HandleRetransmitType DEF RetransStep

LEMMA RestartStepType ==
    ASSUME TypeInv, NEW t \in RestartThreads, RestartStep(t)
    PROVE  TypeInv'
<1>1. t \in Threads /\ t[2] \in RestartProcs
  BY ThreadTypes
<1>2. CASE ApplyRestartOp(t)
  <2> DEFINE q == restartQ[t[2]]
  <2>1. q \in Seq(Ops) /\ q # <<>> /\ Len(q) <= OpQueueSize
    BY <1>1, <1>2 DEF ApplyRestartOp, TypeInv, TypeOK
  <2>2. Head(q) \in Ops /\ Tail(q) \in Seq(Ops) /\ Len(Tail(q)) <= OpQueueSize
    BY <2>1, SizesAssumption
  <2> QED
    BY <1>1, <1>2, <2>2 DEF ApplyRestartOp, TypeInv, TypeOK, Ops, RequestingState
<1>3. ASSUME NEW c \in Clients, PopRestartTimer(t, c) PROVE TypeInv'
  <2>1. "reset" \in Steps
    BY DEF Steps
  <2> QED
    BY <1>1, <1>3, <2>1, GotoType DEF PopRestartTimer, TypeInv, TypeOK
<1>4. CASE ResetClient(t)
  <2>1. Goto(t, "remove", th[t].cl, "None") /\ "remove" \in Steps /\ th[t].cl \in Clients
    BY <1>1, <1>4 DEF ResetClient, Steps, TypeInv, TypeOK
  <2>2. "Init" \in States
    BY DEF States
  <2> QED
    BY <1>1, <1>4, <2>1, <2>2, GotoType DEF ResetClient, TypeInv, TypeOK
<1> QED
  BY <1>1, <1>2, <1>3, <1>4, HandleRetransmitType, RemoveRetransmitType DEF RestartStep

LEMMA StepType == TypeInv /\ [Next]_vars => TypeInv'
<1> SUFFICES ASSUME TypeInv, [Next]_vars PROVE TypeInv'
  OBVIOUS
<1>1. ASSUME NEW c \in Clients, Kickoff(c) PROVE TypeInv'
  BY <1>1, SendRetransType DEF Kickoff, TypeInv, TypeOK, RequestingState
<1>2. ASSUME NEW c \in Clients, GrantLapses(c) PROVE TypeInv'
  BY <1>2 DEF GrantLapses, TypeInv, TypeOK, RequestingState
<1>3. ASSUME NEW t \in PacketThreads, PacketStep(t) PROVE TypeInv'
  BY <1>3, ThreadTypes, PushRestartType, RemoveRetransmitType, HandleRetransmitType DEF PacketStep
<1>4. CASE UNCHANGED vars
  BY <1>4 DEF vars, TypeInv, TypeOK, RequestingState
<1> QED
  BY <1>1, <1>2, <1>3, <1>4, ReceiveGrantType, RetransStepType, RestartStepType DEF Next

(* Type correctness: every variable keeps its type, no client ever reaches a   *)
(* state handleRetransmit calls weird, no channel exceeds its capacity.        *)
THEOREM TypeCorrect == Spec => []TypeOK
<1>1. Init => TypeInv
  BY InitType
<1>2. TypeInv /\ [Next]_vars => TypeInv'
  BY StepType
<1>3. TypeInv => TypeOK
  BY DEF TypeInv
<1> QED
  BY <1>1, <1>2, <1>3, PTL DEF Spec

-----------------------------------------------------------------------------
(* No client is forgotten. NeverForgotten is not inductive: a thread at check  *)
(* returns when the grant lapsed, and by then the client may be in another     *)
(* state than the Done it read. Such a thread counts only while it is Done.    *)

QueueCovers(c) == InsertQueued(c) \/ TimerStays(c)

Kept(c) ==
    \/ Covered(c)
    \/ state[c] = "Done" /\ (lapsed[c] \/ \E t \in Threads : Checking(t, c))

KeptInv == \A c \in Clients : Kept(c)

(* An insert sent last for a client covers it.                                *)
LEMMA SendInsertCovers ==
    ASSUME TypeOK, NEW c \in Clients, SendRetransOp("insert", c)
    PROVE  InsertQueued(c)'
<1> DEFINE r == RetransProc(c)
<1> DEFINE q == retransQ[r]
<1>1. r \in RetransProcs /\ q \in Seq(Ops) /\ Op("insert", c) \in Ops
  BY ProcTypes DEF TypeOK, Op, Ops
<1>2. retransQ'[r] = Append(q, Op("insert", c))
  BY <1>1 DEF SendRetransOp, TypeOK
<1>3. /\ Len(q) + 1 \in DOMAIN Append(q, Op("insert", c))
      /\ Append(q, Op("insert", c))[Len(q) + 1] = Op("insert", c)
      /\ \A j \in DOMAIN Append(q, Op("insert", c)) : ~(j > Len(q) + 1)
  BY <1>1
<1> QED
  BY <1>2, <1>3 DEF InsertQueued

(* An operation sent for one client leaves the others covered.                *)
LEMMA SendKeepsOthers ==
    ASSUME TypeOK, NEW c \in Clients, NEW d \in Clients, c # d,
           NEW op \in {"insert", "remove"}, SendRetransOp(op, d),
           reTimer' = reTimer, QueueCovers(c)
    PROVE  QueueCovers(c)'
<1> DEFINE r == RetransProc(c)
<1> DEFINE q == retransQ[r]
<1>1. r \in RetransProcs /\ q \in Seq(Ops) /\ Op(op, d) \in Ops /\ Op(op, d).cl # c
  BY ProcTypes DEF TypeOK, Op, Ops
<1>2. retransQ'[r] = q \/ retransQ'[r] = Append(q, Op(op, d))
  BY <1>1, ProcTypes DEF SendRetransOp, TypeOK
<1>3. CASE retransQ'[r] = q
  BY <1>3 DEF QueueCovers, InsertQueued, TimerStays
<1>4. CASE retransQ'[r] = Append(q, Op(op, d))
  <2> DEFINE q2 == Append(q, Op(op, d))
  <2>1. /\ DOMAIN q = 1 .. Len(q)
        /\ DOMAIN q2 = 1 .. Len(q) + 1
        /\ Len(q) \in Nat
        /\ \A i \in 1 .. Len(q) : q2[i] = q[i]
        /\ q2[Len(q) + 1] = Op(op, d)
    BY <1>1
  <2>2. ASSUME InsertQueued(c) PROVE InsertQueued(c)'
    <3>1. PICK i \in DOMAIN q : /\ q[i] = Op("insert", c)
                                /\ \A j \in DOMAIN q : j > i => q[j].cl # c
      BY <2>2 DEF InsertQueued
    <3>2. i \in DOMAIN q2 /\ q2[i] = Op("insert", c)
      BY <2>1, <3>1
    <3>3. \A j \in DOMAIN q2 : j > i => q2[j].cl # c
      BY <1>1, <2>1, <3>1
    <3> QED
      BY <1>4, <3>2, <3>3 DEF InsertQueued
  <2>3. ASSUME TimerStays(c) PROVE TimerStays(c)'
    <3>1. \A i \in DOMAIN q2 : q2[i].cl # c
      BY <1>1, <2>1, <2>3 DEF TimerStays
    <3> QED
      BY <1>4, <2>3, <3>1 DEF TimerStays
  <2> QED
    BY <2>2, <2>3 DEF QueueCovers
<1> QED
  BY <1>2, <1>3, <1>4

(* Every operation waits in the channel of its client's processor.            *)
Routed ==
    \A p \in RetransProcs : \A i \in DOMAIN retransQ[p] : RetransProc(retransQ[p][i].cl) = p

LEMMA SendRouted ==
    ASSUME TypeOK, Routed, NEW c \in Clients, NEW op \in {"insert", "remove"},
           SendRetransOp(op, c)
    PROVE  Routed'
<1> DEFINE r == RetransProc(c)
<1> DEFINE q == retransQ[r]
<1> DEFINE q2 == Append(q, Op(op, c))
<1>1. r \in RetransProcs /\ q \in Seq(Ops) /\ Op(op, c) \in Ops /\ Op(op, c).cl = c
  BY ProcTypes DEF TypeOK, Op, Ops
<1>2. /\ DOMAIN q = 1 .. Len(q)
      /\ DOMAIN q2 = 1 .. Len(q) + 1
      /\ Len(q) \in Nat
      /\ \A i \in 1 .. Len(q) : q2[i] = q[i]
      /\ q2[Len(q) + 1] = Op(op, c)
  BY <1>1
<1>3. \A i \in DOMAIN q2 : RetransProc(q2[i].cl) = r
  BY <1>1, <1>2 DEF Routed
<1>4. \A p \in RetransProcs : retransQ'[p] = IF p = r THEN q2 ELSE retransQ[p]
  BY <1>1 DEF SendRetransOp, TypeOK
<1>5. RetransProc(c)' = RetransProc(c)
  BY DEF RetransProc
<1> QED
  BY <1>3, <1>4 DEF Routed, RetransProc

LEMMA ApplyRouted ==
    ASSUME TypeOK, Routed, NEW t \in RetransThreads, ApplyRetransOp(t)
    PROVE  Routed'
<1> DEFINE q == retransQ[t[2]]
<1>1. t[2] \in RetransProcs /\ q \in Seq(Ops) /\ q # <<>>
  BY ThreadTypes DEF TypeOK, ApplyRetransOp
<1>2. \A i \in DOMAIN Tail(q) : i + 1 \in DOMAIN q /\ Tail(q)[i] = q[i + 1]
  BY <1>1
<1>3. \A p \in RetransProcs : retransQ'[p] = IF p = t[2] THEN Tail(q) ELSE retransQ[p]
  BY <1>1 DEF ApplyRetransOp, TypeOK
<1>4. ASSUME NEW p \in RetransProcs, NEW i \in DOMAIN retransQ'[p]
      PROVE  RetransProc(retransQ'[p][i].cl) = p
  <2>1. CASE p # t[2]
    BY <1>3, <1>4, <2>1 DEF Routed
  <2>2. CASE p = t[2]
    <3>1. i + 1 \in DOMAIN q /\ retransQ'[p][i] = q[i + 1]
      BY <1>2, <1>3, <1>4, <2>2
    <3> QED
      BY <1>1, <2>2, <3>1 DEF Routed
  <2> QED
    BY <2>1, <2>2
<1> QED
  BY <1>4 DEF Routed, RetransProc

LEMMA StepRouted == TypeOK /\ Routed /\ [Next]_vars => Routed'
<1> SUFFICES ASSUME TypeOK, Routed, [Next]_vars PROVE Routed'
  OBVIOUS
<1>1. \A t \in Threads : th[t].cl \in Clients
  BY DEF TypeOK
<1>2. ASSUME retransQ' = retransQ PROVE Routed'
  BY <1>2 DEF Routed, RetransProc
<1>3. ASSUME NEW t \in Threads, HandleRetransmit(t) PROVE Routed'
  BY <1>1, <1>2, <1>3, SendRouted
     DEF HandleRetransmit, ReadState, CheckDone, CountRequest, MarkAndSend, Rearm
<1>4. ASSUME NEW t \in Threads, RemoveRetransmit(t) PROVE Routed'
  BY <1>1, <1>4, SendRouted DEF RemoveRetransmit
<1>5. ASSUME NEW c \in Clients, Kickoff(c) \/ GrantLapses(c) PROVE Routed'
  BY <1>2, <1>5, SendRouted DEF Kickoff, GrantLapses
<1>6. ASSUME NEW t \in PacketThreads, NEW c \in Clients, NEW k \in Kinds, ReceiveGrant(t, c, k)
      PROVE Routed'
  BY <1>2, <1>6 DEF ReceiveGrant
<1>7. ASSUME NEW t \in PacketThreads, PacketStep(t) PROVE Routed'
  BY <1>2, <1>3, <1>4, <1>7, ThreadTypes DEF PacketStep, PushRestart
<1>8. ASSUME NEW t \in RetransThreads, RetransStep(t) PROVE Routed'
  BY <1>2, <1>3, <1>8, ThreadTypes, ApplyRouted DEF RetransStep, PopRetransTimer
<1>9. ASSUME NEW t \in RestartThreads, RestartStep(t) PROVE Routed'
  BY <1>2, <1>3, <1>4, <1>9, ThreadTypes
     DEF RestartStep, ApplyRestartOp, PopRestartTimer, ResetClient
<1>10. CASE UNCHANGED vars
  BY <1>2, <1>10 DEF vars
<1> QED
  BY <1>5, <1>6, <1>7, <1>8, <1>9, <1>10 DEF Next

(* Taking the operation at the head of a channel keeps every client covered:  *)
(* a remove is only taken while something behind it, or elsewhere, covers.    *)
LEMMA ApplyKeepsCover ==
    ASSUME TypeOK, Routed, NEW c \in Clients, NEW t \in RetransThreads, ApplyRetransOp(t),
           QueueCovers(c)
    PROVE  QueueCovers(c)'
<1> DEFINE r == RetransProc(c)
<1> DEFINE p == retransQ[t[2]]
<1>1. r \in RetransProcs /\ t[2] \in RetransProcs /\ p \in Seq(Ops) /\ p # <<>> /\ Head(p) \in Ops
  BY ProcTypes, ThreadTypes DEF TypeOK, ApplyRetransOp
<1>2. CASE r # t[2]
  <2>1. 1 \in DOMAIN p /\ p[1] = Head(p)
    BY <1>1
  <2>2. Head(p).cl # c
    BY <1>1, <1>2, <2>1 DEF Routed
  <2>3. retransQ'[r] = retransQ[r] /\ reTimer'[c] = reTimer[c]
    BY <1>1, <1>2, <2>2 DEF ApplyRetransOp, TypeOK
  <2> QED
    BY <2>3 DEF QueueCovers, InsertQueued, TimerStays, RetransProc
<1>3. CASE r = t[2]
  <2> DEFINE q2 == Tail(p)
  <2>1. /\ DOMAIN p = 1 .. Len(p)
        /\ Len(p) \in Nat \ {0}
        /\ DOMAIN q2 = 1 .. Len(p) - 1
        /\ \A i \in 1 .. Len(p) - 1 : q2[i] = p[i + 1]
        /\ Head(p) = p[1]
    BY <1>1
  <2>2. retransQ'[r] = q2 /\ retransQ[r] = p
    BY <1>1, <1>3 DEF ApplyRetransOp, TypeOK
  <2>3. reTimer'[c] = IF Head(p).cl = c THEN Head(p).op = "insert" ELSE reTimer[c]
    BY <1>1 DEF ApplyRetransOp, TypeOK
  <2>4. ASSUME InsertQueued(c) PROVE QueueCovers(c)'
    <3>1. PICK i \in DOMAIN p : /\ p[i] = Op("insert", c)
                                /\ \A j \in DOMAIN p : j > i => p[j].cl # c
      BY <2>2, <2>4 DEF InsertQueued
    <3>2. CASE i = 1
      <4>1. reTimer'[c]
        <5>1. Head(p).cl = c /\ Head(p).op = "insert"
          BY <2>1, <3>1, <3>2 DEF Op
        <5>2. reTimer'[c] = (Head(p).op = "insert")
          BY <2>3, <5>1
        <5> QED
          BY <5>1, <5>2
      <4>2. \A j \in DOMAIN q2 : q2[j].cl # c
        BY <2>1, <3>1, <3>2, SMTT(30)
      <4> QED
        BY <2>2, <4>1, <4>2 DEF QueueCovers, TimerStays, RetransProc
    <3>3. CASE i # 1
      <4>1. i - 1 \in DOMAIN q2 /\ q2[i - 1] = Op("insert", c)
        BY <2>1, <3>1, <3>3
      <4>2. \A j \in DOMAIN q2 : j > i - 1 => q2[j].cl # c
        BY <2>1, <3>1, <3>3
      <4> QED
        BY <2>2, <4>1, <4>2 DEF QueueCovers, InsertQueued, RetransProc
    <3> QED
      BY <3>2, <3>3
  <2>5. ASSUME TimerStays(c) PROVE QueueCovers(c)'
    <3>1. reTimer[c] /\ \A i \in DOMAIN p : p[i].cl # c
      BY <2>2, <2>5 DEF TimerStays
    <3>2. \A j \in DOMAIN q2 : q2[j].cl # c
      BY <2>1, <3>1
    <3> QED
      BY <2>1, <2>2, <2>3, <3>1, <3>2 DEF QueueCovers, TimerStays, RetransProc
  <2> QED
    BY <2>4, <2>5 DEF QueueCovers
<1> QED
  BY <1>2, <1>3

(* A thread's step for another client, or the end of its idling, leaves c as   *)
(* it was, if it leaves c's state and its cover.                               *)
LEMMA OtherThreadKeeps ==
    ASSUME TypeOK, NEW c \in Clients, Kept(c), NEW t \in Threads, NEW x,
           th' = [th EXCEPT ![t] = x],
           th[t].pc = "idle" \/ th[t].cl # c,
           state'[c] = state[c], lapsed'[c] = lapsed[c], c \in unkicked => c \in unkicked',
           QueueCovers(c) => QueueCovers(c)'
    PROVE  Kept(c)'
<1>1. \A u \in Threads : Serving(u, c) \/ Checking(u, c) => th'[u] = th[u]
  BY DEF Serving, Checking, TypeOK
<1>2. \A u \in Threads : Serving(u, c) => Serving(u, c)'
  BY <1>1 DEF Serving
<1>3. \A u \in Threads : Checking(u, c) => Checking(u, c)'
  BY <1>1 DEF Checking
<1> QED
  BY <1>2, <1>3 DEF Kept, Covered, QueueCovers

(* A thread on its way to a re-arm covers its client.                         *)
LEMMA ServingKeeps ==
    ASSUME TypeOK, NEW t \in Threads, NEW c \in Clients, NEW p, NEW s, Goto(t, p, c, s),
           p \notin {"idle", "check"}
    PROVE  Kept(c)'
<1>1. Serving(t, c)'
  BY DEF Goto, Serving, TypeOK
<1> QED
  BY <1>1 DEF Kept, Covered

\* The cover depends on the channels and the timers only.
LEMMA SameQueueCovers ==
    ASSUME NEW c \in Clients, retransQ' = retransQ, reTimer'[c] = reTimer[c]
    PROVE  QueueCovers(c) => QueueCovers(c)'
BY DEF QueueCovers, InsertQueued, TimerStays, RetransProc

LEMMA HandleRetransmitKeeps ==
    ASSUME TypeOK, NEW t \in Threads, HandleRetransmit(t), NEW c \in Clients, Kept(c)
    PROVE  Kept(c)'
<1> DEFINE d == th[t].cl
<1>1. d \in Clients
  BY DEF TypeOK
<1>2. CASE d # c
  <2>1. state' = state /\ lapsed' = lapsed /\ unkicked' = unkicked /\ reTimer' = reTimer
    BY DEF HandleRetransmit, ReadState, CheckDone, CountRequest, MarkAndSend, Rearm
  <2>2. retransQ' = retransQ \/ SendRetransOp("insert", d)
    BY DEF HandleRetransmit, ReadState, CheckDone, CountRequest, MarkAndSend, Rearm
  <2>3. QueueCovers(c) => QueueCovers(c)'
    BY <1>1, <1>2, <2>1, <2>2, SameQueueCovers, SendKeepsOthers
  <2>4. PICK x : th' = [th EXCEPT ![t] = x]
    BY DEF HandleRetransmit, ReadState, CheckDone, CountRequest, MarkAndSend, Rearm, Goto, Return
  <2> QED
    BY <1>2, <2>1, <2>3, <2>4, OtherThreadKeeps
<1>3. CASE d = c
  <2>1. CASE ReadState(t)
    <3>1. CASE state[c] = "Done"
      <4>1. Checking(t, c)' /\ state'[c] = "Done"
        BY <1>3, <2>1, <3>1 DEF ReadState, Goto, Checking, TypeOK
      <4> QED
        BY <4>1 DEF Kept
    <3>2. CASE state[c] # "Done"
      <4>1. Goto(t, "count", c, state[c])
        BY <1>3, <2>1, <3>2 DEF ReadState
      <4> QED
        BY <4>1, ServingKeeps
    <3> QED
      BY <3>1, <3>2
  <2>2. CASE CheckDone(t)
    <3>1. CASE lapsed[c]
      <4>1. /\ state' = state /\ lapsed' = lapsed /\ unkicked' = unkicked
            /\ retransQ' = retransQ /\ reTimer' = reTimer
        BY <2>2 DEF CheckDone
      <4>2. \A u \in Threads : Serving(u, c) => Serving(u, c)'
        BY <1>3, <2>2, <3>1 DEF CheckDone, Return, Serving, TypeOK
      <4>3. QueueCovers(c) => QueueCovers(c)'
        BY <4>1, SameQueueCovers
      <4> QED
        BY <3>1, <4>1, <4>2, <4>3 DEF Kept, Covered, QueueCovers
    <3>2. CASE ~lapsed[c]
      <4>1. Goto(t, "rearm", c, "Done")
        BY <1>3, <2>2, <3>2 DEF CheckDone
      <4> QED
        BY <4>1, ServingKeeps
    <3> QED
      BY <3>1, <3>2
  <2>3. CASE CountRequest(t)
    <3>1. Goto(t, "mark", c, th[t].cur)
      BY <1>3, <2>3 DEF CountRequest
    <3> QED
      BY <3>1, ServingKeeps
  <2>4. CASE MarkAndSend(t)
    <3>1. Goto(t, "rearm", c, "None")
      BY <1>3, <2>4 DEF MarkAndSend
    <3> QED
      BY <3>1, ServingKeeps
  <2>5. CASE Rearm(t)
    <3>1. InsertQueued(c)'
      BY <1>3, <2>5, SendInsertCovers DEF Rearm
    <3> QED
      BY <3>1 DEF Kept, Covered
  <2> QED
    BY <2>1, <2>2, <2>3, <2>4, <2>5 DEF HandleRetransmit
<1> QED
  BY <1>2, <1>3

LEMMA RemoveRetransmitKeeps ==
    ASSUME TypeOK, NEW t \in Threads, RemoveRetransmit(t), NEW c \in Clients, Kept(c)
    PROVE  Kept(c)'
<1>1. Goto(t, "read", th[t].cl, "None") /\ th[t].cl \in Clients
  BY DEF RemoveRetransmit, TypeOK
<1>2. CASE th[t].cl = c
  BY <1>1, <1>2, ServingKeeps
<1>3. CASE th[t].cl # c
  <2>1. QueueCovers(c) => QueueCovers(c)'
    BY <1>1, <1>3, SendKeepsOthers DEF RemoveRetransmit
  <2> QED
    BY <1>3, <2>1, OtherThreadKeeps DEF RemoveRetransmit, Goto
<1> QED
  BY <1>2, <1>3

LEMMA ReceiveGrantKeeps ==
    ASSUME TypeOK, NEW t \in PacketThreads, NEW d \in Clients, NEW k \in Kinds,
           ReceiveGrant(t, d, k), NEW c \in Clients, Kept(c)
    PROVE  Kept(c)'
<1>1. t \in Threads
  BY ThreadTypes
<1>2. PICK p \in {"restartPush", "remove"} : Goto(t, p, d, "None")
  BY DEF ReceiveGrant
<1>3. CASE d = c
  BY <1>1, <1>2, <1>3, ServingKeeps
<1>4. CASE d # c
  <2>1. /\ state'[c] = state[c] /\ lapsed'[c] = lapsed[c] /\ unkicked' = unkicked
        /\ retransQ' = retransQ /\ reTimer' = reTimer /\ th[t].pc = "idle"
    BY <1>4 DEF ReceiveGrant, TypeOK
  <2> QED
    BY <1>1, <1>2, <2>1, OtherThreadKeeps, SameQueueCovers DEF Goto
<1> QED
  BY <1>3, <1>4

LEMMA PushRestartKeeps ==
    ASSUME TypeOK, NEW t \in Threads, PushRestart(t), NEW c \in Clients, Kept(c)
    PROVE  Kept(c)'
<1>1. Goto(t, "remove", th[t].cl, "None")
  BY DEF PushRestart
<1>2. CASE th[t].cl = c
  BY <1>1, <1>2, ServingKeeps
<1>3. CASE th[t].cl # c
  BY <1>1, <1>3, OtherThreadKeeps, SameQueueCovers DEF PushRestart, Goto
<1> QED
  BY <1>2, <1>3

LEMMA RetransStepKeeps ==
    ASSUME TypeOK, Routed, NEW t \in RetransThreads, RetransStep(t), NEW c \in Clients, Kept(c)
    PROVE  Kept(c)'
<1>1. t \in Threads
  BY ThreadTypes
<1>2. CASE ApplyRetransOp(t)
  <2>1. state' = state /\ lapsed' = lapsed /\ unkicked' = unkicked /\ th' = th
    BY <1>2 DEF ApplyRetransOp
  <2>2. QueueCovers(c) => QueueCovers(c)'
    BY <1>2, ApplyKeepsCover
  <2> QED
    BY <2>1, <2>2 DEF Kept, Covered, QueueCovers, Serving, Checking
<1>3. ASSUME NEW d \in Clients, PopRetransTimer(t, d) PROVE Kept(c)'
  <2>1. Goto(t, "read", d, "None") /\ th[t].pc = "idle"
    BY <1>3 DEF PopRetransTimer
  <2>2. CASE d = c
    BY <1>1, <2>1, <2>2, ServingKeeps
  <2>3. CASE d # c
    <3>1. /\ state' = state /\ lapsed' = lapsed /\ unkicked' = unkicked
          /\ retransQ' = retransQ /\ reTimer'[c] = reTimer[c]
      BY <1>3, <2>3 DEF PopRetransTimer, TypeOK
    <3> QED
      BY <1>1, <2>1, <3>1, OtherThreadKeeps, SameQueueCovers DEF Goto
  <2> QED
    BY <2>2, <2>3
<1> QED
  BY <1>1, <1>2, <1>3, HandleRetransmitKeeps DEF RetransStep

LEMMA RestartStepKeeps ==
    ASSUME TypeOK, NEW t \in RestartThreads, RestartStep(t), NEW c \in Clients, Kept(c)
    PROVE  Kept(c)'
<1>1. t \in Threads
  BY ThreadTypes
<1>2. CASE ApplyRestartOp(t)
  <2>1. /\ state' = state /\ lapsed' = lapsed /\ unkicked' = unkicked /\ th' = th
        /\ retransQ' = retransQ /\ reTimer' = reTimer
    BY <1>2 DEF ApplyRestartOp
  <2> QED
    BY <2>1, SameQueueCovers DEF Kept, Covered, QueueCovers, Serving, Checking
<1>3. ASSUME NEW d \in Clients, PopRestartTimer(t, d) PROVE Kept(c)'
  <2>1. Goto(t, "reset", d, "None") /\ th[t].pc = "idle"
    BY <1>3 DEF PopRestartTimer
  <2>2. CASE d = c
    BY <1>1, <2>1, <2>2, ServingKeeps
  <2>3. CASE d # c
    BY <1>1, <1>3, <2>1, OtherThreadKeeps, SameQueueCovers DEF PopRestartTimer, Goto
  <2> QED
    BY <2>2, <2>3
<1>4. CASE ResetClient(t)
  <2>1. Goto(t, "remove", th[t].cl, "None")
    BY <1>4 DEF ResetClient
  <2>2. CASE th[t].cl = c
    BY <1>1, <2>1, <2>2, ServingKeeps
  <2>3. CASE th[t].cl # c
    <3>1. /\ state'[c] = state[c] /\ lapsed' = lapsed /\ unkicked' = unkicked
          /\ retransQ' = retransQ /\ reTimer' = reTimer
      BY <1>4, <2>3 DEF ResetClient, TypeOK
    <3> QED
      BY <1>1, <2>1, <2>3, <3>1, OtherThreadKeeps, SameQueueCovers DEF Goto
  <2> QED
    BY <2>2, <2>3
<1> QED
  BY <1>1, <1>2, <1>3, <1>4, HandleRetransmitKeeps, RemoveRetransmitKeeps DEF RestartStep

LEMMA StepKeeps == TypeOK /\ Routed /\ KeptInv /\ [Next]_vars => KeptInv'
<1> SUFFICES ASSUME TypeOK, Routed, KeptInv, [Next]_vars, NEW c \in Clients
             PROVE  Kept(c)'
  BY DEF KeptInv
<1> USE DEF KeptInv
<1>1. ASSUME NEW d \in Clients, Kickoff(d) PROVE Kept(c)'
  <2>1. CASE d = c
    <3>1. InsertQueued(c)'
      BY <1>1, <2>1, SendInsertCovers DEF Kickoff
    <3> QED
      BY <3>1 DEF Kept, Covered
  <2>2. CASE d # c
    <3>1. QueueCovers(c) => QueueCovers(c)'
      BY <1>1, <2>2, SendKeepsOthers DEF Kickoff
    <3>2. state' = state /\ lapsed' = lapsed /\ th' = th /\ (c \in unkicked => c \in unkicked')
      BY <1>1, <2>2 DEF Kickoff
    <3> QED
      BY <3>1, <3>2 DEF Kept, Covered, QueueCovers, Serving, Checking
  <2> QED
    BY <2>1, <2>2
<1>2. ASSUME NEW d \in Clients, GrantLapses(d) PROVE Kept(c)'
  <2>1. /\ state' = state /\ unkicked' = unkicked /\ th' = th
        /\ retransQ' = retransQ /\ reTimer' = reTimer /\ (lapsed[c] => lapsed'[c])
    BY <1>2 DEF GrantLapses, TypeOK
  <2> QED
    BY <2>1, SameQueueCovers DEF Kept, Covered, QueueCovers, Serving, Checking
<1>3. ASSUME NEW t \in PacketThreads, PacketStep(t) PROVE Kept(c)'
  BY <1>3, ThreadTypes, PushRestartKeeps, RemoveRetransmitKeeps, HandleRetransmitKeeps
     DEF PacketStep
<1>4. CASE UNCHANGED vars
  <2>1. /\ state' = state /\ lapsed' = lapsed /\ unkicked' = unkicked /\ th' = th
        /\ retransQ' = retransQ /\ reTimer' = reTimer
    BY <1>4 DEF vars
  <2> QED
    BY <2>1, SameQueueCovers DEF Kept, Covered, QueueCovers, Serving, Checking
<1> QED
  BY <1>1, <1>2, <1>3, <1>4, ReceiveGrantKeeps, RetransStepKeeps, RestartStepKeeps DEF Next

(* However many processors handle one client at once, the client is never     *)
(* left without a retransmit timer, a queued insert or a thread about to send *)
(* one, unless it is Done and its grants lapsed.                              *)
THEOREM ClientsNeverForgotten == Spec => []NeverForgotten
<1> DEFINE Inv == TypeInv /\ Routed /\ KeptInv
<1>1. Init => Inv
  <2> SUFFICES ASSUME Init PROVE Routed /\ KeptInv
    BY InitType
  <2>1. Routed
    BY DEF Init, Routed
  <2>2. KeptInv
    BY DEF Init, KeptInv, Kept, Covered
  <2> QED
    BY <2>1, <2>2
<1>2. Inv /\ [Next]_vars => Inv'
  BY StepType, StepRouted, StepKeeps DEF TypeInv
<1>3. Inv => NeverForgotten
  BY DEF KeptInv, Kept, NeverForgotten
<1> QED
  BY <1>1, <1>2, <1>3, PTL DEF Spec

-----------------------------------------------------------------------------
(* A restart is ahead of every client that is Done. The restart channels      *)
(* carry inserts only: nothing takes a restart timer out of its heap but the  *)
(* processor that fires it.                                                   *)

InsertsOnly ==
    \A p \in RestartProcs : \A i \in DOMAIN restartQ[p] : restartQ[p][i].op = "insert"

Ahead(c) ==
    \/ rsTimer[c]
    \/ RestartOpPending(c)
    \/ \E t \in Threads : th[t].cl = c /\ th[t].pc = "reset"

Promised(c) == state[c] = "Done" => Ahead(c)

RestartInv == RestartClientsAfterDuration => \A c \in Clients : Promised(c)

LEMMA StepInsertsOnly == TypeOK /\ InsertsOnly /\ [Next]_vars => InsertsOnly'
<1> SUFFICES ASSUME TypeOK, InsertsOnly, [Next]_vars PROVE InsertsOnly'
  OBVIOUS
<1>1. ASSUME restartQ' = restartQ PROVE InsertsOnly'
  BY <1>1 DEF InsertsOnly
<1>2. ASSUME NEW t \in Threads, HandleRetransmit(t) \/ RemoveRetransmit(t) PROVE InsertsOnly'
  BY <1>1, <1>2 DEF HandleRetransmit, ReadState, CheckDone, CountRequest, MarkAndSend, Rearm,
                    RemoveRetransmit
<1>3. ASSUME NEW t \in Threads, PushRestart(t) PROVE InsertsOnly'
  <2> DEFINE c == th[t].cl
  <2> DEFINE r == RestartProc(c)
  <2>1. r \in RestartProcs /\ Op("insert", c) \in Ops /\ Op("insert", c).op = "insert"
    BY ProcTypes DEF TypeOK, Op, Ops
  <2>2. \A p \in RestartProcs :
            restartQ'[p] = IF p = r THEN Append(restartQ[r], Op("insert", c)) ELSE restartQ[p]
    BY <1>3, <2>1 DEF PushRestart, SendRestartOp, TypeOK
  <2>3. \A i \in DOMAIN Append(restartQ[r], Op("insert", c)) :
            Append(restartQ[r], Op("insert", c))[i].op = "insert"
    BY <2>1 DEF InsertsOnly, TypeOK
  <2> QED
    BY <2>2, <2>3 DEF InsertsOnly
<1>4. ASSUME NEW t \in RestartThreads, ApplyRestartOp(t) PROVE InsertsOnly'
  <2> DEFINE q == restartQ[t[2]]
  <2>1. t[2] \in RestartProcs /\ q \in Seq(Ops) /\ q # <<>>
    BY <1>4, ThreadTypes DEF ApplyRestartOp, TypeOK
  <2>2. \A i \in DOMAIN Tail(q) : i + 1 \in DOMAIN q /\ Tail(q)[i] = q[i + 1]
    BY <2>1
  <2>3. \A p \in RestartProcs : restartQ'[p] = IF p = t[2] THEN Tail(q) ELSE restartQ[p]
    BY <1>4, <2>1 DEF ApplyRestartOp, TypeOK
  <2>4. \A i \in DOMAIN Tail(q) : Tail(q)[i].op = "insert"
    BY <2>1, <2>2 DEF InsertsOnly
  <2>5. ASSUME NEW p \in RestartProcs, NEW i \in DOMAIN restartQ'[p]
        PROVE  restartQ'[p][i].op = "insert"
    <3>1. CASE p = t[2]
      BY <2>3, <2>4, <2>5, <3>1
    <3>2. CASE p # t[2]
      BY <2>3, <2>5, <3>2 DEF InsertsOnly
    <3> QED
      BY <3>1, <3>2
  <2> QED
    BY <2>5 DEF InsertsOnly
<1>5. ASSUME NEW c \in Clients, Kickoff(c) \/ GrantLapses(c) PROVE InsertsOnly'
  BY <1>1, <1>5 DEF Kickoff, GrantLapses
<1>6. ASSUME NEW t \in PacketThreads, NEW c \in Clients, NEW k \in Kinds, ReceiveGrant(t, c, k)
      PROVE InsertsOnly'
  BY <1>1, <1>6 DEF ReceiveGrant
<1>7. ASSUME NEW t \in PacketThreads, PacketStep(t) PROVE InsertsOnly'
  BY <1>2, <1>3, <1>7, ThreadTypes DEF PacketStep
<1>8. ASSUME NEW t \in RetransThreads, RetransStep(t) PROVE InsertsOnly'
  BY <1>1, <1>2, <1>8, ThreadTypes DEF RetransStep, ApplyRetransOp, PopRetransTimer
<1>9. ASSUME NEW t \in RestartThreads, RestartStep(t) PROVE InsertsOnly'
  BY <1>1, <1>2, <1>4, <1>9, ThreadTypes DEF RestartStep, PopRestartTimer, ResetClient
<1>10. CASE UNCHANGED vars
  BY <1>1, <1>10 DEF vars
<1> QED
  BY <1>5, <1>6, <1>7, <1>8, <1>9, <1>10 DEF Next

(* A step of a thread that was not itself what c's restart hung on.           *)
LEMMA OtherThreadPromised ==
    ASSUME TypeOK, NEW c \in Clients, Promised(c), NEW t \in Threads, NEW x,
           th' = [th EXCEPT ![t] = x],
           th[t].pc \notin {"restartPush", "reset"} \/ th[t].cl # c,
           state'[c] = state[c], rsTimer'[c] = rsTimer[c],
           restartQ'[RestartProc(c)] = restartQ[RestartProc(c)]
    PROVE  Promised(c)'
<1>1. \A u \in Threads : u # t => th'[u] = th[u]
  BY DEF TypeOK
<1>2. Ahead(c) => Ahead(c)'
  BY <1>1 DEF Ahead, RestartOpPending, RestartProc
<1> QED
  BY <1>2 DEF Promised

LEMMA HandlePromised ==
    ASSUME TypeOK, NEW t \in Threads, HandleRetransmit(t) \/ RemoveRetransmit(t),
           NEW c \in Clients, Promised(c)
    PROVE  Promised(c)'
<1>1. th[t].pc \notin {"restartPush", "reset", "idle"}
  BY DEF HandleRetransmit, ReadState, CheckDone, CountRequest, MarkAndSend, Rearm, RemoveRetransmit
<1>2. state' = state /\ rsTimer' = rsTimer /\ restartQ' = restartQ
  BY DEF HandleRetransmit, ReadState, CheckDone, CountRequest, MarkAndSend, Rearm, RemoveRetransmit
<1>3. PICK x : th' = [th EXCEPT ![t] = x]
  BY DEF HandleRetransmit, ReadState, CheckDone, CountRequest, MarkAndSend, Rearm,
         RemoveRetransmit, Goto, Return
<1> QED
  BY <1>1, <1>2, <1>3, OtherThreadPromised

LEMMA ReceiveGrantPromised ==
    ASSUME TypeOK, RestartClientsAfterDuration, NEW t \in PacketThreads, NEW d \in Clients,
           NEW k \in Kinds, ReceiveGrant(t, d, k), NEW c \in Clients, Promised(c)
    PROVE  Promised(c)'
<1>1. t \in Threads
  BY ThreadTypes
<1>2. CASE d # c
  <2>1. PICK x : th' = [th EXCEPT ![t] = x]
    BY DEF ReceiveGrant, Goto
  <2>2. state'[c] = state[c] /\ rsTimer' = rsTimer /\ restartQ' = restartQ /\ th[t].pc = "idle"
    BY <1>2 DEF ReceiveGrant, TypeOK
  <2> QED
    BY <1>1, <2>1, <2>2, OtherThreadPromised
<1>3. CASE d = c /\ k = "DelayResp"
  <2>1. th'[t].pc = "restartPush" /\ th'[t].cl = c
    BY <1>1, <1>3 DEF ReceiveGrant, Goto, TypeOK
  <2> QED
    BY <1>1, <2>1 DEF Promised, Ahead, RestartOpPending
<1>4. CASE d = c /\ k # "DelayResp"
  <2>1. state'[c] # "Done"
    BY <1>4 DEF ReceiveGrant, TypeOK, Kinds, GrantedState
  <2> QED
    BY <2>1 DEF Promised
<1> QED
  BY <1>2, <1>3, <1>4

LEMMA PushRestartPromised ==
    ASSUME TypeOK, NEW t \in Threads, PushRestart(t), NEW c \in Clients, Promised(c)
    PROVE  Promised(c)'
<1> DEFINE d == th[t].cl
<1> DEFINE r == RestartProc(c)
<1>1. /\ d \in Clients /\ r \in RestartProcs /\ RestartProc(d) \in RestartProcs
      /\ restartQ[r] \in Seq(Ops) /\ Op("insert", d) \in Ops
  BY ProcTypes DEF TypeOK, Op, Ops
<1> DEFINE q2 == Append(restartQ[r], Op("insert", d))
<1>2. /\ DOMAIN restartQ[r] = 1 .. Len(restartQ[r])
      /\ DOMAIN q2 = 1 .. Len(restartQ[r]) + 1
      /\ Len(restartQ[r]) \in Nat
      /\ \A i \in 1 .. Len(restartQ[r]) : q2[i] = restartQ[r][i]
      /\ q2[Len(restartQ[r]) + 1].cl = d
  BY <1>1 DEF Op
<1>3. restartQ'[r] = IF RestartProc(d) = r THEN q2 ELSE restartQ[r]
  BY <1>1 DEF PushRestart, SendRestartOp, TypeOK
<1>4. state' = state /\ rsTimer' = rsTimer
  BY DEF PushRestart
<1>5. CASE d = c
  <2>1. Len(restartQ[r]) + 1 \in DOMAIN restartQ'[r] /\ restartQ'[r][Len(restartQ[r]) + 1].cl = c
    BY <1>2, <1>3, <1>5
  <2> QED
    BY <2>1 DEF Promised, Ahead, RestartOpPending, RestartProc
<1>6. CASE d # c
  <2>1. \A u \in Threads : th[u].cl = c => th'[u] = th[u]
    BY <1>6 DEF PushRestart, Goto, TypeOK
  <2>2. (\E i \in DOMAIN restartQ[r] : restartQ[r][i].cl = c)
            => \E i \in DOMAIN restartQ'[r] : restartQ'[r][i].cl = c
    <3> SUFFICES ASSUME NEW i \in DOMAIN restartQ[r], restartQ[r][i].cl = c
                 PROVE  i \in DOMAIN restartQ'[r] /\ restartQ'[r][i].cl = c
      OBVIOUS
    <3> QED
      BY <1>2, <1>3
  <2> QED
    BY <1>4, <2>1, <2>2 DEF Promised, Ahead, RestartOpPending, RestartProc
<1> QED
  BY <1>5, <1>6

LEMMA ApplyRestartPromised ==
    ASSUME TypeOK, InsertsOnly, NEW t \in RestartThreads, ApplyRestartOp(t),
           NEW c \in Clients, Promised(c)
    PROVE  Promised(c)'
<1> DEFINE q == restartQ[t[2]]
<1> DEFINE r == RestartProc(c)
<1>1. t[2] \in RestartProcs /\ r \in RestartProcs /\ q \in Seq(Ops) /\ q # <<>>
  BY ProcTypes, ThreadTypes DEF TypeOK, ApplyRestartOp
<1>2. 1 \in DOMAIN q /\ Head(q) = q[1] /\ Head(q) \in Ops
  BY <1>1
<1>3. Head(q).op = "insert"
  BY <1>1, <1>2 DEF InsertsOnly
<1>4. rsTimer' = [rsTimer EXCEPT ![Head(q).cl] = TRUE]
  BY <1>3 DEF ApplyRestartOp
<1>5. (rsTimer[c] => rsTimer'[c]) /\ (Head(q).cl = c => rsTimer'[c])
  BY <1>4 DEF TypeOK
<1>6. state' = state /\ th' = th
  BY DEF ApplyRestartOp
<1>7. ASSUME NEW i \in DOMAIN restartQ[r], restartQ[r][i].cl = c
      PROVE  rsTimer'[c] \/ \E j \in DOMAIN restartQ'[r] : restartQ'[r][j].cl = c
  <2>1. CASE r # t[2]
    <3>1. restartQ'[r] = restartQ[r]
      BY <1>1, <2>1 DEF ApplyRestartOp, TypeOK
    <3> QED
      BY <1>7, <3>1
  <2>2. CASE r = t[2] /\ i = 1
    BY <1>2, <1>5, <1>7, <2>2
  <2>3. CASE r = t[2] /\ i # 1
    <3>1. restartQ'[r] = Tail(q)
      BY <1>1, <2>3 DEF ApplyRestartOp, TypeOK
    <3>2. i - 1 \in DOMAIN Tail(q) /\ Tail(q)[i - 1] = q[i]
      BY <1>1, <1>7, <2>3, SMTT(30)
    <3> QED
      BY <1>7, <2>3, <3>1, <3>2
  <2> QED
    BY <2>1, <2>2, <2>3
<1> QED
  BY <1>5, <1>6, <1>7 DEF Promised, Ahead, RestartOpPending, RestartProc

LEMMA RestartTimerPromised ==
    ASSUME TypeOK, NEW t \in RestartThreads, NEW c \in Clients, Promised(c),
           ResetClient(t) \/ \E d \in Clients : PopRestartTimer(t, d)
    PROVE  Promised(c)'
<1>1. t \in Threads
  BY ThreadTypes
<1>2. CASE ResetClient(t)
  <2>1. CASE th[t].cl = c
    BY <1>2, <2>1 DEF ResetClient, Promised, TypeOK
  <2>2. CASE th[t].cl # c
    <3>1. state'[c] = state[c] /\ rsTimer' = rsTimer /\ restartQ' = restartQ
      BY <1>2, <2>2 DEF ResetClient, TypeOK
    <3> QED
      BY <1>1, <1>2, <2>2, <3>1, OtherThreadPromised DEF ResetClient, Goto
  <2> QED
    BY <2>1, <2>2
<1>3. ASSUME NEW d \in Clients, PopRestartTimer(t, d) PROVE Promised(c)'
  <2>1. CASE d = c
    <3>1. th'[t].cl = c /\ th'[t].pc = "reset"
      BY <1>1, <1>3, <2>1 DEF PopRestartTimer, Goto, TypeOK
    <3> QED
      BY <1>1, <3>1 DEF Promised, Ahead
  <2>2. CASE d # c
    <3>1. /\ state' = state /\ rsTimer'[c] = rsTimer[c] /\ restartQ' = restartQ
          /\ th[t].pc = "idle"
      BY <1>3, <2>2 DEF PopRestartTimer, TypeOK
    <3> QED
      BY <1>1, <1>3, <3>1, OtherThreadPromised DEF PopRestartTimer, Goto
  <2> QED
    BY <2>1, <2>2
<1> QED
  BY <1>2, <1>3

LEMMA StepPromised == TypeOK /\ InsertsOnly /\ RestartInv /\ [Next]_vars => RestartInv'
<1> SUFFICES ASSUME TypeOK, InsertsOnly, RestartInv, [Next]_vars,
                    RestartClientsAfterDuration, NEW c \in Clients
             PROVE  Promised(c)'
  BY DEF RestartInv
<1>1. Promised(c)
  BY DEF RestartInv
<1>2. ASSUME state' = state, th' = th, rsTimer' = rsTimer, restartQ' = restartQ
      PROVE  Promised(c)'
  BY <1>1, <1>2 DEF Promised, Ahead, RestartOpPending
<1>3. ASSUME NEW d \in Clients, Kickoff(d) \/ GrantLapses(d) PROVE Promised(c)'
  BY <1>2, <1>3 DEF Kickoff, GrantLapses
<1>4. ASSUME NEW t \in PacketThreads, PacketStep(t) PROVE Promised(c)'
  BY <1>1, <1>4, ThreadTypes, PushRestartPromised, HandlePromised DEF PacketStep
<1>5. ASSUME NEW t \in RetransThreads, RetransStep(t) PROVE Promised(c)'
  <2>1. CASE ApplyRetransOp(t)
    BY <1>2, <2>1 DEF ApplyRetransOp
  <2>2. ASSUME NEW d \in Clients, PopRetransTimer(t, d) PROVE Promised(c)'
    <3>1. state' = state /\ rsTimer' = rsTimer /\ restartQ' = restartQ /\ th[t].pc = "idle"
      BY <2>2 DEF PopRetransTimer
    <3> QED
      BY <1>1, <2>2, <3>1, ThreadTypes, OtherThreadPromised DEF PopRetransTimer, Goto
  <2> QED
    BY <1>1, <1>5, <2>1, <2>2, ThreadTypes, HandlePromised DEF RetransStep
<1>6. ASSUME NEW t \in RestartThreads, RestartStep(t) PROVE Promised(c)'
  BY <1>1, <1>6, ThreadTypes, ApplyRestartPromised, RestartTimerPromised, HandlePromised
     DEF RestartStep
<1>7. CASE UNCHANGED vars
  BY <1>2, <1>7 DEF vars
<1> QED
  BY <1>1, <1>3, <1>4, <1>5, <1>6, <1>7, ReceiveGrantPromised DEF Next

(* With RestartClientsAfterDuration every client that is Done has its restart  *)
(* ahead, whatever grants and older restarts cross each other.                 *)
THEOREM RestartsAhead == Spec => []RestartAhead
<1> DEFINE Inv == TypeInv /\ InsertsOnly /\ RestartInv
<1>1. Init => Inv
  <2> SUFFICES ASSUME Init PROVE InsertsOnly /\ RestartInv
    BY InitType
  <2>1. InsertsOnly
    BY DEF Init, InsertsOnly
  <2>2. RestartInv
    BY DEF Init, RestartInv, Promised
  <2> QED
    BY <2>1, <2>2
<1>2. Inv /\ [Next]_vars => Inv'
  BY StepType, StepInsertsOnly, StepPromised DEF TypeInv
<1>3. Inv => RestartAhead
  BY DEF RestartInv, Promised, Ahead, RestartAhead
<1> QED
  BY <1>1, <1>2, <1>3, PTL DEF Spec

-----------------------------------------------------------------------------
(* The rounds of requests. A request counted in a round was chosen by a state  *)
(* read in that round, and that state, unless an answer this round did not ask *)
(* for led to it, was reached by the requests that come before.                *)

\* The requests c must have counted in its round to be in state s.
Asked(c, s) ==
    /\ s # "Init" => <<c, "Announce">> \in asked
    /\ s \in {"GotGrantSync", "Done"} => <<c, "Sync">> \in asked
    /\ s = "Done" => <<c, "DelayResp">> \in asked

AskedInOrder(c) ==
    /\ <<c, "Sync">> \in asked => <<c, "Announce">> \in asked
    /\ <<c, "DelayResp">> \in asked => <<c, "Sync">> \in asked

\* Thread t chose a request in its client's present round.
Choosing(t) == t \notin carried /\ th[t].pc = "count" /\ th[t].cl \notin late

RoundInv ==
    /\ \A c \in Clients \ late : Asked(c, state[c]) /\ AskedInOrder(c)
    /\ \A t \in Threads : Choosing(t) => Asked(th[t].cl, th[t].cur)

(* The history only watches: every step with it is a step of the engine.       *)
LEMMA RoundStepIsStep == [RoundNext]_<<vars, rounds>> => [Next]_vars
<1> SUFFICES ASSUME [RoundNext]_<<vars, rounds>> PROVE [Next]_vars
  OBVIOUS
<1>1. ASSUME NEW t \in Threads, HandleRetransmit(t) PROVE Next
  BY <1>1 DEF Next, PacketStep, RetransStep, RestartStep, Threads
<1>2. ASSUME NEW t \in Threads, Plain(t) PROVE Next
  <2>1. CASE PushRestart(t) /\ t \in PacketThreads
    BY <2>1 DEF Next, PacketStep
  <2>2. CASE RemoveRetransmit(t) /\ t \notin RetransThreads
    BY <2>2 DEF Next, PacketStep, RestartStep, Threads
  <2>3. CASE HandleRetransmit(t)
    BY <1>1, <2>3
  <2> QED
    BY <1>2, <2>1, <2>2, <2>3 DEF Plain, HandleRetransmit
<1>3. CASE Other
  BY <1>2, <1>3 DEF Other, Next, RetransStep, RestartStep
<1>4. ASSUME NEW t \in Threads, RoundRequest(t) PROVE Next
  BY <1>1, <1>4 DEF RoundRequest, HandleRetransmit
<1>5. ASSUME NEW t \in RestartThreads, RoundReset(t) PROVE Next
  BY <1>5 DEF RoundReset, Next, RestartStep
<1>6. ASSUME NEW t \in PacketThreads, NEW c \in Clients, NEW k \in Kinds, RoundGrant(t, c, k)
      PROVE Next
  BY <1>6 DEF RoundGrant, Next
<1> QED
  BY <1>3, <1>4, <1>5, <1>6 DEF RoundNext

(* A step that counts nothing and changes no state may let a thread read the   *)
(* state and choose a request for it.                                          *)
LEMMA RoundFrame ==
    ASSUME TypeOK, RoundInv, UNCHANGED rounds, state' = state,
           \A t \in Threads :
               \/ th'[t] = th[t]
               \/ th'[t].pc # "count"
               \/ th'[t].cl \in Clients /\ th'[t].cur = state[th'[t].cl]
    PROVE  RoundInv'
<1>1. \A c \in Clients \ late : Asked(c, state[c]) /\ AskedInOrder(c)
  BY DEF RoundInv
<1>2. ASSUME NEW t \in Threads, Choosing(t)' PROVE Asked(th[t].cl, th[t].cur)'
  <2>1. th'[t].pc = "count" /\ t \notin carried /\ th'[t].cl \notin late
    BY <1>2 DEF Choosing, rounds
  <2>2. CASE th'[t] = th[t]
    BY <2>1, <2>2 DEF RoundInv, Choosing, Asked, rounds
  <2>3. CASE th'[t].cl \in Clients /\ th'[t].cur = state[th'[t].cl]
    BY <1>1, <2>1, <2>3 DEF Asked, rounds
  <2> QED
    BY <2>1, <2>2, <2>3
<1> QED
  BY <1>1, <1>2 DEF RoundInv, Asked, AskedInOrder, rounds

LEMMA OtherRound ==
    ASSUME TypeOK, RoundInv, Other \/ UNCHANGED vars, UNCHANGED rounds
    PROVE  RoundInv'
<1>1. ASSUME NEW t \in Threads, Plain(t) PROVE RoundInv'
  <2>1. state' = state
    BY <1>1 DEF Plain, PushRestart, RemoveRetransmit, ReadState, CheckDone, MarkAndSend, Rearm
  <2>2. \A u \in Threads : u # t => th'[u] = th[u]
    BY <1>1 DEF Plain, PushRestart, RemoveRetransmit, ReadState, CheckDone, MarkAndSend, Rearm,
                Goto, Return, TypeOK
  <2>3. CASE ReadState(t)
    BY <2>1, <2>2, <2>3, RoundFrame DEF ReadState, Goto, TypeOK
  <2>4. CASE ~ReadState(t)
    <3>1. th'[t].pc # "count"
      BY <1>1, <2>4 DEF Plain, PushRestart, RemoveRetransmit, CheckDone, MarkAndSend, Rearm,
                        Goto, Return, Idle, TypeOK
    <3> QED
      BY <2>1, <2>2, <3>1, RoundFrame
  <2> QED
    BY <2>3, <2>4
<1>2. ASSUME NEW c \in Clients, Kickoff(c) \/ GrantLapses(c) PROVE RoundInv'
  BY <1>2, RoundFrame DEF Kickoff, GrantLapses
<1>3. ASSUME NEW t \in Threads, ApplyRetransOp(t) \/ ApplyRestartOp(t) PROVE RoundInv'
  BY <1>3, RoundFrame DEF ApplyRetransOp, ApplyRestartOp
<1>4. ASSUME NEW t \in Threads, NEW c \in Clients,
             PopRetransTimer(t, c) \/ PopRestartTimer(t, c)
      PROVE RoundInv'
  <2>1. state' = state /\ \A u \in Threads : th'[u] = th[u] \/ th'[u].pc # "count"
    BY <1>4 DEF PopRetransTimer, PopRestartTimer, Goto, TypeOK
  <2> QED
    BY <2>1, RoundFrame
<1>5. CASE UNCHANGED vars
  BY <1>5, RoundFrame DEF vars
<1> QED
  BY <1>1, <1>2, <1>3, <1>4, <1>5, ThreadTypes DEF Other

(* A request of this round was chosen by a state of this round.                *)
LEMMA RequestRound ==
    ASSUME TypeInv, RoundInv, NEW t \in Threads, RoundRequest(t)
    PROVE  RoundInv'
<1> DEFINE c == th[t].cl
<1> DEFINE k == RequestFor(th[t].cur)
<1>1. /\ c \in Clients /\ th[t].pc = "count" /\ th[t].cur \in States \ {"Done"}
      /\ state' = state /\ late' = late /\ carried' = carried \ {t}
      /\ asked' = IF t \in carried THEN asked ELSE asked \cup {<<c, k>>}
  BY DEF RoundRequest, CountRequest, TypeInv, TypeOK, RequestingState
<1>2. th'[t].pc = "mark" /\ \A u \in Threads : u # t => th'[u] = th[u]
  BY DEF RoundRequest, CountRequest, Goto, TypeInv, TypeOK
<1>3. \A d \in Clients \ late' : Asked(d, state[d])'
  BY <1>1 DEF RoundInv, Asked
<1>4. \A d \in Clients \ late' : AskedInOrder(d)'
  <2>1. CASE t \in carried
    BY <1>1, <2>1 DEF RoundInv, AskedInOrder
  <2>2. CASE t \notin carried
    <3>1. c \notin late => Asked(c, th[t].cur)
      BY <1>1, <2>2 DEF RoundInv, Choosing
    <3> QED
      BY <1>1, <2>2, <3>1 DEF RoundInv, AskedInOrder, Asked, RequestFor, States
  <2> QED
    BY <2>1, <2>2
<1>5. ASSUME NEW u \in Threads, Choosing(u)' PROVE Asked(th[u].cl, th[u].cur)'
  <2>1. u # t /\ th'[u] = th[u]
    BY <1>2, <1>5 DEF Choosing
  <2>2. Choosing(u)
    BY <1>1, <1>5, <2>1 DEF Choosing
  <2> QED
    BY <1>1, <2>1, <2>2 DEF RoundInv, Asked
<1> QED
  BY <1>3, <1>4, <1>5 DEF RoundInv

(* A grant this round asked for finds the requests before it asked for too;    *)
(* any other makes the client late.                                            *)
LEMMA GrantRound ==
    ASSUME TypeOK, RoundInv, NEW t \in PacketThreads, NEW c \in Clients, NEW k \in Kinds,
           RoundGrant(t, c, k)
    PROVE  RoundInv'
<1>1. /\ asked' = asked /\ carried' = carried
      /\ late' = IF <<c, k>> \in asked THEN late ELSE late \cup {c}
      /\ state' = [state EXCEPT ![c] = GrantedState(k)]
  BY DEF RoundGrant, ReceiveGrant
<1>2. \A u \in Threads : th'[u] = th[u] \/ th'[u].pc # "count"
  BY ThreadTypes DEF RoundGrant, ReceiveGrant, Goto, TypeOK
<1>3. ASSUME NEW d \in Clients \ late' PROVE (Asked(d, state[d]) /\ AskedInOrder(d))'
  <2>1. d \notin late /\ Asked(d, state[d]) /\ AskedInOrder(d)
    BY <1>1, <1>3 DEF RoundInv
  <2>2. CASE d = c
    <3>1. <<c, k>> \in asked /\ state'[c] = GrantedState(k)
      BY <1>1, <1>3, <2>2 DEF TypeOK
    <3> QED
      BY <1>1, <2>1, <2>2, <3>1 DEF Asked, AskedInOrder, GrantedState, Kinds
  <2>3. CASE d # c
    BY <1>1, <2>1, <2>3 DEF Asked, AskedInOrder, TypeOK
  <2> QED
    BY <2>2, <2>3
<1>4. ASSUME NEW u \in Threads, Choosing(u)' PROVE Asked(th[u].cl, th[u].cur)'
  <2>1. th'[u] = th[u] /\ Choosing(u)
    BY <1>1, <1>2, <1>4 DEF Choosing
  <2> QED
    BY <1>1, <2>1 DEF RoundInv, Asked
<1> QED
  BY <1>3, <1>4 DEF RoundInv

(* A new round has asked for nothing, and no thread has chosen for it yet.     *)
LEMMA ResetRound ==
    ASSUME TypeOK, RoundInv, NEW t \in RestartThreads, RoundReset(t)
    PROVE  RoundInv'
<1> DEFINE c == th[t].cl
<1>1. /\ asked' = asked \ ({c} \X Kinds) /\ late' = late \ {c}
      /\ carried' = carried \cup {u \in Threads : th[u].cl = c /\ th[u].pc = "count"}
      /\ state' = [state EXCEPT ![c] = "Init"]
  BY DEF RoundReset, ResetClient
<1>2. \A u \in Threads : th'[u] = th[u] \/ th'[u].pc # "count"
  BY ThreadTypes DEF RoundReset, ResetClient, Goto, TypeOK
<1>3. \A k : <<c, k>> \in asked' => k \notin Kinds
  BY <1>1
<1>4. \A d, k : d # c => (<<d, k>> \in asked' <=> <<d, k>> \in asked)
  BY <1>1
<1>5. ASSUME NEW d \in Clients \ late' PROVE (Asked(d, state[d]) /\ AskedInOrder(d))'
  <2>1. CASE d = c
    BY <1>1, <1>3, <2>1 DEF Asked, AskedInOrder, TypeOK, Kinds
  <2>2. CASE d # c
    <3>1. Asked(d, state[d]) /\ AskedInOrder(d) /\ state'[d] = state[d]
      BY <1>1, <1>5, <2>2 DEF RoundInv, TypeOK
    <3> QED
      BY <1>4, <2>2, <3>1 DEF Asked, AskedInOrder
  <2> QED
    BY <2>1, <2>2
<1>6. ASSUME NEW u \in Threads, Choosing(u)' PROVE Asked(th[u].cl, th[u].cur)'
  <2>1. th'[u] = th[u] /\ th[u].pc = "count" /\ th[u].cl # c /\ Choosing(u)
    BY <1>1, <1>2, <1>6 DEF Choosing
  <2> QED
    BY <1>4, <2>1 DEF RoundInv, Asked
<1> QED
  BY <1>5, <1>6 DEF RoundInv

LEMMA StepRound == TypeInv /\ RoundInv /\ [RoundNext]_<<vars, rounds>> => RoundInv'
<1> SUFFICES ASSUME TypeInv, RoundInv, [RoundNext]_<<vars, rounds>> PROVE RoundInv'
  OBVIOUS
<1>1. TypeOK
  BY DEF TypeInv
<1>2. CASE Other /\ UNCHANGED rounds
  BY <1>1, <1>2, OtherRound
<1>3. CASE UNCHANGED <<vars, rounds>>
  BY <1>1, <1>3, OtherRound
<1> QED
  BY <1>1, <1>2, <1>3, GrantRound, RequestRound, ResetRound DEF RoundNext

(* The engine with its rounds is the engine, so all theorems above hold of it. *)
THEOREM RoundsWatch == RoundSpec => Spec
<1>1. RoundInit => Init
  BY DEF RoundInit
<1> QED
  BY <1>1, RoundStepIsStep, PTL DEF RoundSpec, Spec

(* In every round a client's state was asked for, and so were all before it,   *)
(* unless an answer this round did not ask for put it there.                   *)
THEOREM RequestsChained == RoundSpec => []RequestChain
<1> DEFINE Inv == TypeInv /\ RoundInv
<1>1. RoundInit => Inv
  <2> SUFFICES ASSUME RoundInit PROVE TypeInv /\ RoundInv
    OBVIOUS
  <2>1. Init /\ TypeInv
    BY InitType DEF RoundInit
  <2> QED
    BY <2>1 DEF RoundInit, Init, RoundInv, Asked, AskedInOrder, Choosing, Idle
<1>2. Inv /\ [RoundNext]_<<vars, rounds>> => Inv'
  BY StepType, StepRound, RoundStepIsStep
<1>3. Inv => RequestChain
  BY DEF RoundInv, Asked, RequestChain
<1> QED
  BY <1>1, <1>2, <1>3, PTL DEF RoundSpec
=============================================================================
