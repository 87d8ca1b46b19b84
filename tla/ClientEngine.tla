---------------------------- MODULE ClientEngine ----------------------------
(* The client grant engine of clientgenlib: every simulated PTP client asks  *)
(* the server for an Announce, a Sync and a DelayResp unicast grant, one      *)
(* after the other, retransmits while it gets no answer, sends DelayReq once  *)
(* it has them and, if configured, starts over after the grants lapsed.       *)
(* Packet processors, retransmit processors and restart processors are        *)
(* goroutines that interleave on a client; between them stand the operation   *)
(* channels of the parallel timer heaps.                                      *)
EXTENDS Naturals, Sequences

CONSTANTS
    NumClients,                   \* len(cfg.RunData.clients)
    PacketThreads,                \* the packet processors' goroutines
    NumClientRetransmitProcs,
    NumClientRestartProcs,
    OpQueueSize,                  \* capacity of every operationChan (10000 in the code)
    RestartClientsAfterDuration,
    DuplicatingServer,            \* may one request be answered more than once?
    PromptHandlers                \* do handlers and channels keep up with DurationSec?

ASSUME SizesAssumption ==
    /\ NumClients \in Nat \ {0}
    /\ NumClientRetransmitProcs \in Nat \ {0}
    /\ NumClientRestartProcs \in Nat \ {0}
    /\ OpQueueSize \in Nat \ {0}
ASSUME FlagsAssumption ==
    /\ RestartClientsAfterDuration \in BOOLEAN
    /\ DuplicatingServer \in BOOLEAN
    /\ PromptHandlers \in BOOLEAN

Clients == 0 .. NumClients - 1
RetransProcs == 0 .. NumClientRetransmitProcs - 1
RestartProcs == 0 .. NumClientRestartProcs - 1

RetransProc(c) == c % NumClientRetransmitProcs
RestartProc(c) == c % NumClientRestartProcs

RetransThreads == {"retrans"} \X RetransProcs
\* startClientProcessor returns before it starts them when there is no restart.
RestartThreads ==
    IF RestartClientsAfterDuration THEN {"restart"} \X RestartProcs ELSE {}
Threads == PacketThreads \cup RetransThreads \cup RestartThreads

States == {"Init", "GotGrantAnnounce", "GotGrantSync", "Done"}
Kinds == {"Announce", "Sync", "DelayResp"}

\* Where a thread stands inside a handler it runs for a client.
Steps == {"idle", "restartPush", "reset", "remove", "read", "check", "count", "mark", "rearm"}

VARIABLES
    state,      \* state[c]: cl.state
    laststate,  \* laststate[c]: cl.laststate
    lapsed,     \* lapsed[c]: time.Since(cl.timeDoneInit) > DurationSec
    unkicked,   \* clients the kickoff goroutines have not pushed yet
    retransQ,   \* retransQ[p]: retransmitHeap[p].operationChan
    restartQ,   \* restartQ[p]: restartHeap[p].operationChan
    reTimer,    \* reTimer[c]: cl.RetransTimer is in its heap
    rsTimer,    \* rsTimer[c]: cl.RestartTimer is in its heap
    th,         \* th[t]: the step of thread t, its client and its curState
    sent,       \* <<c, k>>: a request of kind k of c is out and may be answered
    reqs,       \* <<c, k>>: the counter of these requests is above 0
    resends     \* <<c, k>>: the resend counter is above 0

vars == <<state, laststate, lapsed, unkicked, retransQ, restartQ, reTimer,
          rsTimer, th, sent, reqs, resends>>

Idle == [pc |-> "idle", cl |-> 0, cur |-> "None"]

\* Thread t goes to step p of the handler it runs for c, with curState s.
Goto(t, p, c, s) == th' = [th EXCEPT ![t] = [pc |-> p, cl |-> c, cur |-> s]]
Return(t) == th' = [th EXCEPT ![t] = Idle]

Op(op, c) == [op |-> op, cl |-> c]

\* A send on operationChan: it waits while the channel is full.
SendRetransOp(op, c) ==
    /\ Len(retransQ[RetransProc(c)]) < OpQueueSize
    /\ retransQ' = [retransQ EXCEPT ![RetransProc(c)] = Append(@, Op(op, c))]

SendRestartOp(op, c) ==
    /\ Len(restartQ[RestartProc(c)]) < OpQueueSize
    /\ restartQ' = [restartQ EXCEPT ![RestartProc(c)] = Append(@, Op(op, c))]

Init ==
    /\ state = [c \in Clients |-> "Init"]
    /\ laststate = [c \in Clients |-> "None"]
    /\ lapsed = [c \in Clients |-> TRUE]      \* the zero time is long past
    /\ unkicked = Clients
    /\ retransQ = [p \in RetransProcs |-> <<>>]
    /\ restartQ = [p \in RestartProcs |-> <<>>]
    /\ reTimer = [c \in Clients |-> FALSE]
    /\ rsTimer = [c \in Clients |-> FALSE]
    /\ th = [t \in Threads |-> Idle]
    /\ sent = {} /\ reqs = {} /\ resends = {}

-----------------------------------------------------------------------------
(* Kickoff: goroutines push every client into its retransmit heap. Several    *)
(* ranges are pushed at once, so the clients come in any order.               *)
Kickoff(c) ==
    /\ c \in unkicked
    /\ SendRetransOp("insert", c)
    /\ unkicked' = unkicked \ {c}
    /\ UNCHANGED <<state, laststate, lapsed, restartQ, reTimer, rsTimer, th, sent, reqs, resends>>

(* With PromptHandlers, what one answer or one restart sets off in its thread  *)
(* and in the retransmit channel is over before the next answer or restart     *)
(* comes. A retransmit processor may still be anywhere in its own handler.     *)
Settled ==
    PromptHandlers =>
        /\ \A t \in PacketThreads \cup RestartThreads : th[t].pc = "idle"
        /\ \A p \in RetransProcs : retransQ[p] = <<>>

(* DurationSec passes after the last DelayResp grant; with PromptHandlers, not *)
(* in the microseconds a retransmission takes.                                 *)
GrantLapses(c) ==
    /\ ~lapsed[c]
    /\ Settled
    /\ PromptHandlers => \A t \in RetransThreads : th[t].pc = "idle"
    /\ lapsed' = [lapsed EXCEPT ![c] = TRUE]
    /\ UNCHANGED <<state, laststate, unkicked, retransQ, restartQ, reTimer, rsTimer, th,
                   sent, reqs, resends>>

-----------------------------------------------------------------------------
(* Packet processors: singleClientHandleIncomingPTP on a grant.               *)

GrantedState(k) ==
    CASE k = "Announce" -> "GotGrantAnnounce"
      [] k = "Sync" -> "GotGrantSync"
      [] k = "DelayResp" -> "Done"

\* Mutant: the grant forgets to hand the client to the restart processors.
ReceiveGrantNoRestart(t, c, k) ==
    /\ th[t].pc = "idle"
    /\ Settled
    /\ <<c, k>> \in sent
    /\ sent' = IF DuplicatingServer THEN sent ELSE sent \ {<<c, k>>}
    /\ state' = [state EXCEPT ![c] = GrantedState(k)]
    /\ lapsed' = [lapsed EXCEPT ![c] = @ /\ k # "DelayResp"]
    /\ Goto(t, "remove", c, "None")
    /\ UNCHANGED <<laststate, unkicked, retransQ, restartQ, reTimer, rsTimer, reqs, resends>>

(* The server answers a request, late or out of order as it likes, with a     *)
(* grant of non-zero duration; the handler stores the new state whatever the  *)
(* old one was. A request the server denies or loses is never received here.  *)
ReceiveGrant(t, c, k) ==
    /\ th[t].pc = "idle"
    /\ Settled
    /\ <<c, k>> \in sent
    /\ sent' = IF DuplicatingServer THEN sent ELSE sent \ {<<c, k>>}
    /\ state' = [state EXCEPT ![c] = GrantedState(k)]
    /\ lapsed' = [lapsed EXCEPT ![c] = @ /\ k # "DelayResp"]
    /\ IF k = "DelayResp" /\ RestartClientsAfterDuration
       THEN Goto(t, "restartPush", c, "None")
       ELSE Goto(t, "remove", c, "None")
    /\ UNCHANGED <<laststate, unkicked, retransQ, restartQ, reTimer, rsTimer, reqs, resends>>

\* Mutant: the operation is a copy of removeClientRestart's.
PushRestartAsRemove(t) ==
    /\ th[t].pc = "restartPush"
    /\ SendRestartOp("remove", th[t].cl)
    /\ Goto(t, "remove", th[t].cl, "None")
    /\ UNCHANGED <<state, laststate, lapsed, unkicked, retransQ, reTimer, rsTimer, sent,
                   reqs, resends>>

\* pushClientRestart after a DelayResp grant.
PushRestart(t) ==
    /\ th[t].pc = "restartPush"
    /\ SendRestartOp("insert", th[t].cl)
    /\ Goto(t, "remove", th[t].cl, "None")
    /\ UNCHANGED <<state, laststate, lapsed, unkicked, retransQ, reTimer, rsTimer, sent,
                   reqs, resends>>

\* removeClientRetransmit, called after a grant and by handleRestart.
RemoveRetransmit(t) ==
    /\ th[t].pc = "remove"
    /\ SendRetransOp("remove", th[t].cl)
    /\ Goto(t, "read", th[t].cl, "None")
    /\ UNCHANGED <<state, laststate, lapsed, unkicked, restartQ, reTimer, rsTimer, sent,
                   reqs, resends>>

-----------------------------------------------------------------------------
(* handleRetransmit, run by any thread. The state is read under the client's  *)
(* semaphore and used after its release.                                      *)

\* Mutant: a client that has the Sync grant asks for it again.
RequestSyncAgain(s) ==
    IF s = "Init" THEN "Announce" ELSE "Sync"

RequestFor(s) ==
    CASE s = "Init" -> "Announce"
      [] s = "GotGrantAnnounce" -> "Sync"
      [] s = "GotGrantSync" -> "DelayResp"

ReadState(t) ==
    /\ th[t].pc = "read"
    /\ Goto(t, IF state[th[t].cl] = "Done" THEN "check" ELSE "count",
            th[t].cl, state[th[t].cl])
    /\ UNCHANGED <<state, laststate, lapsed, unkicked, retransQ, restartQ, reTimer, rsTimer,
                   sent, reqs, resends>>

(* A client that is Done gets a DelayReq and another turn while its grant     *)
(* lasts, and nothing once it lapsed. The DelayReq itself changes no state.   *)
CheckDone(t) ==
    /\ th[t].pc = "check"
    /\ IF lapsed[th[t].cl] THEN Return(t) ELSE Goto(t, "rearm", th[t].cl, "Done")
    /\ UNCHANGED <<state, laststate, lapsed, unkicked, retransQ, restartQ, reTimer, rsTimer,
                   sent, reqs, resends>>

\* The request counter and, when laststate says so, the resend counter.
CountRequest(t) ==
    LET c == th[t].cl  k == RequestFor(th[t].cur) IN
    /\ th[t].pc = "count"
    /\ reqs' = reqs \cup {<<c, k>>}
    /\ resends' = IF laststate[c] = th[t].cur THEN resends \cup {<<c, k>>} ELSE resends
    /\ Goto(t, "mark", c, th[t].cur)
    /\ UNCHANGED <<state, laststate, lapsed, unkicked, retransQ, restartQ, reTimer, rsTimer, sent>>

(* cl.laststate = cl.state reads the state again, with no semaphore; the      *)
(* request chosen before goes out.                                            *)
MarkAndSend(t) ==
    LET c == th[t].cl IN
    /\ th[t].pc = "mark"
    /\ laststate' = [laststate EXCEPT ![c] = state[c]]
    /\ sent' = sent \cup {<<c, RequestFor(th[t].cur)>>}
    /\ Goto(t, "rearm", c, "None")
    /\ UNCHANGED <<state, lapsed, unkicked, retransQ, restartQ, reTimer, rsTimer, reqs, resends>>

\* Mutant: the capacity of the channel is forgotten.
RearmUnbounded(t) ==
    LET p == RetransProc(th[t].cl) IN
    /\ th[t].pc = "rearm"
    /\ retransQ' = [retransQ EXCEPT ![p] = Append(@, Op("insert", th[t].cl))]
    /\ Return(t)
    /\ UNCHANGED <<state, laststate, lapsed, unkicked, restartQ, reTimer, rsTimer, sent,
                   reqs, resends>>

\* Mutant: a send that does not wait, select { case ch <- op: default: }.
RearmOrDrop(t) ==
    /\ th[t].pc = "rearm"
    /\ \/ SendRetransOp("insert", th[t].cl)
       \/ Len(retransQ[RetransProc(th[t].cl)]) = OpQueueSize /\ UNCHANGED retransQ
    /\ Return(t)
    /\ UNCHANGED <<state, laststate, lapsed, unkicked, restartQ, reTimer, rsTimer, sent,
                   reqs, resends>>

\* Mutant: only a retransmission that came from the heap is armed again.
RearmFromPopOnly(t) ==
    /\ th[t].pc = "rearm"
    /\ IF t \in RetransThreads THEN SendRetransOp("insert", th[t].cl) ELSE UNCHANGED retransQ
    /\ Return(t)
    /\ UNCHANGED <<state, laststate, lapsed, unkicked, restartQ, reTimer, rsTimer, sent,
                   reqs, resends>>

\* pushClientRetransmit at the end of handleRetransmit.
Rearm(t) ==
    /\ th[t].pc = "rearm"
    /\ SendRetransOp("insert", th[t].cl)
    /\ Return(t)
    /\ UNCHANGED <<state, laststate, lapsed, unkicked, restartQ, reTimer, rsTimer, sent,
                   reqs, resends>>

-----------------------------------------------------------------------------
(* Retransmit processors: an operation if the channel holds one, otherwise an *)
(* expired timer. There is no clock: an armed timer may have expired.         *)

ApplyRetransOp(t) ==
    LET q == retransQ[t[2]] IN
    /\ th[t].pc = "idle"
    /\ q # <<>>
    /\ reTimer' = [reTimer EXCEPT ![Head(q).cl] = (Head(q).op = "insert")]
    /\ retransQ' = [retransQ EXCEPT ![t[2]] = Tail(@)]
    /\ UNCHANGED <<state, laststate, lapsed, unkicked, restartQ, rsTimer, th, sent, reqs, resends>>

PopRetransTimer(t, c) ==
    /\ th[t].pc = "idle"
    /\ RetransProc(c) = t[2]
    /\ retransQ[t[2]] = <<>>
    /\ reTimer[c]
    /\ reTimer' = [reTimer EXCEPT ![c] = FALSE]
    /\ Goto(t, "read", c, "None")
    /\ UNCHANGED <<state, laststate, lapsed, unkicked, retransQ, restartQ, rsTimer, sent,
                   reqs, resends>>

-----------------------------------------------------------------------------
(* Restart processors, and handleRestart up to its handleRetransmit.          *)

ApplyRestartOp(t) ==
    LET q == restartQ[t[2]] IN
    /\ th[t].pc = "idle"
    /\ q # <<>>
    /\ rsTimer' = [rsTimer EXCEPT ![Head(q).cl] = (Head(q).op = "insert")]
    /\ restartQ' = [restartQ EXCEPT ![t[2]] = Tail(@)]
    /\ UNCHANGED <<state, laststate, lapsed, unkicked, retransQ, reTimer, th, sent, reqs, resends>>

\* A later DelayResp grant has not postponed c's restart timer yet.
RestartOpPending(c) ==
    \/ \E i \in DOMAIN restartQ[RestartProc(c)] : restartQ[RestartProc(c)][i].cl = c
    \/ \E t \in Threads : th[t].pc = "restartPush" /\ th[t].cl = c

(* The restart timer is set to DurationSec and a margin after the grant, so   *)
(* it expires after the grant lapsed, unless it is still an older grant's.    *)
PopRestartTimer(t, c) ==
    /\ th[t].pc = "idle"
    /\ RestartProc(c) = t[2]
    /\ Settled
    /\ restartQ[t[2]] = <<>>
    /\ rsTimer[c]
    /\ lapsed[c] \/ RestartOpPending(c)
    /\ rsTimer' = [rsTimer EXCEPT ![c] = FALSE]
    /\ Goto(t, "reset", c, "None")
    /\ UNCHANGED <<state, laststate, lapsed, unkicked, retransQ, restartQ, reTimer, sent,
                   reqs, resends>>

\* Mutant: the restart forgets to put the state back.
ResetKeepsState(t) ==
    /\ th[t].pc = "reset"
    /\ Goto(t, "remove", th[t].cl, "None")
    /\ UNCHANGED <<state, laststate, lapsed, unkicked, retransQ, restartQ, reTimer, rsTimer, sent,
                   reqs, resends>>

\* The section of handleRestart under the semaphore.
ResetClient(t) ==
    /\ th[t].pc = "reset"
    /\ state' = [state EXCEPT ![th[t].cl] = "Init"]
    /\ Goto(t, "remove", th[t].cl, "None")
    /\ UNCHANGED <<laststate, lapsed, unkicked, retransQ, restartQ, reTimer, rsTimer, sent,
                   reqs, resends>>

-----------------------------------------------------------------------------

HandleRetransmit(t) ==
    \/ ReadState(t) \/ CheckDone(t) \/ CountRequest(t) \/ MarkAndSend(t) \/ Rearm(t)

PacketStep(t) == PushRestart(t) \/ RemoveRetransmit(t) \/ HandleRetransmit(t)

RetransStep(t) ==
    \/ ApplyRetransOp(t)
    \/ \E c \in Clients : PopRetransTimer(t, c)
    \/ HandleRetransmit(t)

RestartStep(t) ==
    \/ ApplyRestartOp(t)
    \/ \E c \in Clients : PopRestartTimer(t, c)
    \/ ResetClient(t) \/ RemoveRetransmit(t) \/ HandleRetransmit(t)

Next ==
    \/ \E c \in Clients : Kickoff(c) \/ GrantLapses(c)
    \/ \E t \in PacketThreads, c \in Clients, k \in Kinds : ReceiveGrant(t, c, k)
    \/ \E t \in PacketThreads : PacketStep(t)
    \/ \E t \in RetransThreads : RetransStep(t)
    \/ \E t \in RestartThreads : RestartStep(t)

Spec == Init /\ [][Next]_vars

(* Every goroutine that can go on does, time passes, and a heap serves its    *)
(* timers in the order of their time, so none waits for ever behind others.   *)
Fairness ==
    /\ \A c \in Clients : WF_vars(Kickoff(c)) /\ SF_vars(GrantLapses(c))
    /\ \A t \in PacketThreads : WF_vars(PacketStep(t))
    /\ \A t \in RetransThreads :
        WF_vars(RetransStep(t)) /\ \A c \in Clients : SF_vars(PopRetransTimer(t, c))
    /\ \A t \in RestartThreads :
        WF_vars(RestartStep(t)) /\ \A c \in Clients : SF_vars(PopRestartTimer(t, c))

FairSpec == Spec /\ Fairness

-----------------------------------------------------------------------------
(* Properties.                                                                *)

Ops == [op : {"insert", "remove"}, cl : Clients]

(* Every variable has its type, a client's state is one of the four its       *)
(* handlers know (the weird-state branch of handleRetransmit is dead), and no *)
(* channel holds more than its capacity.                                      *)
TypeOK ==
    /\ state \in [Clients -> States]
    /\ laststate \in [Clients -> States \cup {"None"}]
    /\ lapsed \in [Clients -> BOOLEAN]
    /\ unkicked \subseteq Clients
    /\ retransQ \in [RetransProcs -> Seq(Ops)]
    /\ \A p \in RetransProcs : Len(retransQ[p]) <= OpQueueSize
    /\ restartQ \in [RestartProcs -> Seq(Ops)]
    /\ \A p \in RestartProcs : Len(restartQ[p]) <= OpQueueSize
    /\ reTimer \in [Clients -> BOOLEAN]
    /\ rsTimer \in [Clients -> BOOLEAN]
    /\ th \in [Threads -> [pc : Steps, cl : Clients, cur : States \cup {"None"}]]
    /\ sent \subseteq Clients \X Kinds
    /\ reqs \subseteq Clients \X Kinds
    /\ resends \subseteq Clients \X Kinds

\* The last operation queued for c is an insert.
InsertQueued(c) ==
    LET q == retransQ[RetransProc(c)] IN
    \E i \in DOMAIN q :
        /\ q[i] = Op("insert", c)
        /\ \A j \in DOMAIN q : j > i => q[j].cl # c

\* c's retransmit timer is in its heap and nothing queued touches it.
TimerStays(c) ==
    LET q == retransQ[RetransProc(c)] IN
    reTimer[c] /\ \A i \in DOMAIN q : q[i].cl # c

\* Thread t is on its way to c's next retransmission or to a re-arm of it.
Serving(t, c) == th[t].cl = c /\ th[t].pc \notin {"idle", "check"}

Checking(t, c) == th[t].cl = c /\ th[t].pc = "check"

Covered(c) ==
    \/ c \in unkicked
    \/ InsertQueued(c)
    \/ TimerStays(c)
    \/ \E t \in Threads : Serving(t, c)

(* No client is forgotten: whatever packet, retransmit and restart processors *)
(* do to one client at once, with the removes and inserts of one overtaking   *)
(* another's in the channel, a client that still has something to request or  *)
(* to measure has its timer armed, an insert queued, or a thread on its way   *)
(* to one. Only a client whose grants lapsed (407-412) may be left alone.     *)
NeverForgotten ==
    \A c \in Clients :
        \/ Covered(c)
        \/ \E t \in Threads : Checking(t, c)
        \/ state[c] = "Done" /\ lapsed[c]

(* With RestartClientsAfterDuration a client that is Done has a restart ahead *)
(* of it: its timer, an operation in the channel, or a thread about to.       *)
RestartAhead ==
    RestartClientsAfterDuration =>
        \A c \in Clients : state[c] = "Done" =>
            \/ rsTimer[c]
            \/ RestartOpPending(c)
            \/ \E t \in Threads : th[t].cl = c /\ th[t].pc = "reset"

(* A request counts as a resend only if it was counted as a request before    *)
(* (clientData.go:191, "used to keep track of retransmits").                  *)
ResendAfterRequest == [][resends' \ resends \subseteq reqs]_vars

\* Thread t has a request of c on its way to the wire.
Sending(t, c) == th[t].cl = c /\ th[t].pc = "mark"

(* Liveness of retransmission, whatever the server does: a client without its *)
(* grants sends another request or gets them (README.md:101).                 *)
RetransmitsUntilDone ==
    \A c \in Clients :
        state[c] # "Done" ~> (state[c] = "Done" \/ \E t \in Threads : Sending(t, c))

\* A server that answers every kind of request it keeps getting.
ServerAnswers ==
    \A c \in Clients, k \in Kinds : SF_vars(\E t \in PacketThreads : ReceiveGrant(t, c, k))

(* Under such a server every client gets all its grants again and again.      *)
ReachesDone == ServerAnswers => \A c \in Clients : []<>(state[c] = "Done")

(* A client that is Done starts over, as RestartClientsAfterDuration asks.    *)
StartsOver == \A c \in Clients : state[c] = "Done" ~> state[c] # "Done"
=============================================================================
