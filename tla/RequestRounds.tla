---------------------------- MODULE RequestRounds ----------------------------
(* ClientEngine with the history of each client's round of requests: what it  *)
(* has asked for since its start or its last restart. The history changes     *)
(* nothing in the engine; it tells an answer to this round's requests from an *)
(* answer that an earlier round asked for.                                    *)
EXTENDS ClientEngine

VARIABLES
    asked,      \* <<c, k>>: c has counted a request of kind k in this round
    late,       \* clients that got a grant in this round they had not asked for in it
    carried     \* threads whose client restarted after they chose its request

rounds == <<asked, late, carried>>

RoundInit == Init /\ asked = {} /\ late = {} /\ carried = {}

RoundGrant(t, c, k) ==
    /\ ReceiveGrant(t, c, k)
    /\ late' = IF <<c, k>> \in asked THEN late ELSE late \cup {c}
    /\ UNCHANGED <<asked, carried>>

\* A request chosen before the restart belongs to the round before.
RoundRequest(t) ==
    /\ CountRequest(t)
    /\ asked' = IF t \in carried THEN asked
                ELSE asked \cup {<<th[t].cl, RequestFor(th[t].cur)>>}
    /\ carried' = carried \ {t}
    /\ UNCHANGED late

\* A new round begins.
RoundReset(t) ==
    LET c == th[t].cl IN
    /\ ResetClient(t)
    /\ asked' = asked \ ({c} \X Kinds)
    /\ late' = late \ {c}
    /\ carried' = carried \cup {u \in Threads : th[u].cl = c /\ th[u].pc = "count"}

\* The steps that begin no round, count nothing and receive nothing.
Plain(t) ==
    \/ PushRestart(t) /\ t \in PacketThreads
    \/ RemoveRetransmit(t) /\ t \notin RetransThreads
    \/ ReadState(t) \/ CheckDone(t) \/ MarkAndSend(t) \/ Rearm(t)

Other ==
    \/ \E c \in Clients : Kickoff(c) \/ GrantLapses(c)
    \/ \E t \in Threads : Plain(t)
    \/ \E t \in RetransThreads :
        ApplyRetransOp(t) \/ \E c \in Clients : PopRetransTimer(t, c)
    \/ \E t \in RestartThreads :
        ApplyRestartOp(t) \/ \E c \in Clients : PopRestartTimer(t, c)

RoundNext ==
    \/ \E t \in PacketThreads, c \in Clients, k \in Kinds : RoundGrant(t, c, k)
    \/ \E t \in Threads : RoundRequest(t)
    \/ \E t \in RestartThreads : RoundReset(t)
    \/ Other /\ UNCHANGED rounds

RoundSpec == RoundInit /\ [][RoundNext]_<<vars, rounds>>

(* Grants are asked for in order and none is skipped, in every round: however *)
(* many packet, retransmit and restart threads are in the client's handlers,  *)
(* some with a request chosen before its restart, a client that counts as     *)
(* having a grant asked since its last restart for it and for all that come   *)
(* before it (client.go:414-465, 513-527). Only an answer this round did not  *)
(* ask for takes it out of the order: the handler takes a late grant as if it *)
(* were new (651-688).                                                        *)
RequestChain ==
    \A c \in Clients \ late :
        /\ state[c] # "Init" => <<c, "Announce">> \in asked
        /\ state[c] \in {"GotGrantSync", "Done"} => <<c, "Sync">> \in asked
        /\ state[c] = "Done" => <<c, "DelayResp">> \in asked
=============================================================================
