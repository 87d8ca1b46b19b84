--------------------------- MODULE MCRequestRounds ---------------------------
(* A small instance of the engine with its rounds for TLC.                    *)
EXTENDS RequestRounds, TLC

\* The packet processors are interchangeable.
PacketSymmetry == Permutations(PacketThreads)

(* laststate and reqs feed the resend counters and nothing else: a run whose  *)
(* properties mention neither need not tell apart states that differ there.   *)
(* And nothing reads the rest of a late client's round before its next one.   *)
WithoutResends ==
    <<state, lapsed, unkicked, retransQ, restartQ, reTimer, rsTimer, th, sent, late,
      asked \ (late \X Kinds), {t \in carried : th[t].cl \notin late}>>
=============================================================================
