----------------------------- MODULE SoftStart ------------------------------
(***************************************************************************)
(* The kickoff loop of StartClientGen (client.go:173-216): the clients'    *)
(* indexes are cut into ranges of at most BatchSize clients, a goroutine   *)
(* pushes the clients of each range to their retransmit processors, and    *)
(* after SoftStartRate clients the loop sleeps for a second.               *)
(*                                                                         *)
(* All of it is uint64 arithmetic, and a range is handed over before the   *)
(* pushes of the previous ones are over.  Word is 2^64, BatchSize 10000.   *)
(***************************************************************************)
EXTENDS Integers

CONSTANTS Word, BatchSize, MaxClients

ASSUME SoftStartAssumption ==
  /\ Word \in Nat /\ BatchSize \in Nat \ {0} /\ MaxClients \in Nat
  /\ MaxClients + BatchSize < Word

VARIABLES
  total,       \* len(cfg.RunData.clients)
  rate,        \* cfg.SoftStartRate
  start,       \* first client of the next range
  startCount,  \* what is left of the rate for this second
  jobs,        \* ranges whose goroutine still has clients to push
  kicked,      \* how often each client has been pushed
  started,     \* clients handed over since the last sleep
  kickoff      \* "rounds", "sleeping", "done" or "panicked"

softVars == <<total, rate, start, startCount, jobs, kicked, started, kickoff>>

Client == 0..(MaxClients - 1)
UInt == 0..(Word - 1)
KickRange == [i : UInt, end : UInt]

\* Sums and differences of two uint64 wrap around once at most.
Wrap(x) == IF x < 0 THEN x + Word ELSE IF x >= Word THEN x - Word ELSE x

\* Mutant: a range may end one past the last client.
RoundEndPastLast ==
  LET batch == Wrap(start + (BatchSize - 1))
      within == IF Wrap(batch - start) >= startCount THEN Wrap(start + startCount - 1)
                                                     ELSE batch
  IN  IF within > total THEN Wrap(total - 1) ELSE within

\* Mutant: the first and the last client of a batch are counted as one.
RoundEndOverRate ==
  LET batch == Wrap(start + (BatchSize - 1))
      within == IF Wrap(batch - start) > startCount THEN Wrap(start + startCount - 1)
                                                    ELSE batch
  IN  IF within >= total THEN Wrap(total - 1) ELSE within

\* The last client of the next range: a batch, cut to what is left of the
\* rate, cut to the last client.
RoundEnd ==
  LET batch == Wrap(start + (BatchSize - 1))
      within == IF Wrap(batch - start) >= startCount
                THEN Wrap(start + startCount - 1)
                ELSE batch
  IN  IF within >= total THEN Wrap(total - 1) ELSE within

SoftInit ==
  /\ total \in 0..MaxClients
  /\ rate \in UInt
  /\ start = 0 /\ startCount = rate
  /\ jobs = {} /\ kicked = [c \in Client |-> 0]
  /\ started = 0 /\ kickoff = "rounds"

\* Mutant: the next range begins with the last client of this one.
RoundOverlapping ==
  /\ kickoff = "rounds"
  /\ jobs' = IF start <= RoundEnd THEN jobs \cup {[i |-> start, end |-> RoundEnd]} ELSE jobs
  /\ startCount' = Wrap(startCount - Wrap(Wrap(RoundEnd - start) + 1))
  /\ start' = RoundEnd
  /\ started' = started + Wrap(Wrap(RoundEnd - start) + 1)
  /\ kickoff' = IF RoundEnd = Wrap(total - 1) THEN "done"
                ELSE IF startCount' = 0 THEN "sleeping" ELSE "rounds"
  /\ UNCHANGED <<total, rate, kicked>>

\* One turn of the loop, up to its sleep or its break.
Round ==
  /\ kickoff = "rounds"
  /\ LET end == RoundEnd
         count == Wrap(Wrap(end - start) + 1)
         left == Wrap(startCount - count)
     IN  /\ jobs' = IF start <= end THEN jobs \cup {[i |-> start, end |-> end]}
                                    ELSE jobs
         /\ startCount' = left
         /\ start' = Wrap(end + 1)
         /\ started' = started + count
         /\ kickoff' = IF end = Wrap(total - 1) THEN "done"
                       ELSE IF left = 0 THEN "sleeping" ELSE "rounds"
  /\ UNCHANGED <<total, rate, kicked>>

\* The end of time.Sleep(1 * time.Second).
Wake ==
  /\ kickoff = "sleeping"
  /\ kickoff' = "rounds" /\ startCount' = rate /\ started' = 0
  /\ UNCHANGED <<total, rate, start, jobs, kicked>>

\* A range's goroutine pushes one client; an index past the table panics.
Kick(j) ==
  /\ kickoff # "panicked"
  /\ IF j.i < total
     THEN /\ kicked' = [kicked EXCEPT ![j.i] = @ + 1]
          /\ jobs' = (jobs \ {j}) \cup
                     (IF j.i < j.end THEN {[j EXCEPT !.i = @ + 1]} ELSE {})
          /\ UNCHANGED kickoff
     ELSE kickoff' = "panicked" /\ UNCHANGED <<kicked, jobs>>
  /\ UNCHANGED <<total, rate, start, startCount, started>>

SoftNext == Round \/ Wake \/ \E j \in jobs : Kick(j)
SoftSpec == SoftInit /\ [][SoftNext]_softVars

-----------------------------------------------------------------------------
Covers(j, c) == j.i <= c /\ c <= j.end

SoftTypeOK ==
  /\ total \in 0..MaxClients
  /\ rate \in UInt /\ start \in UInt /\ startCount \in UInt
  /\ jobs \subseteq KickRange
  /\ kicked \in [Client -> Nat]
  /\ started \in Nat
  /\ kickoff \in {"rounds", "sleeping", "done", "panicked"}

\* Every client below start is pushed exactly once: either it has been, or
\* exactly one goroutine has it ahead; no client from start on was touched.
KickedOnce ==
  \A c \in 0..(total - 1) :
    /\ kicked[c] = IF c < start /\ \A j \in jobs : ~Covers(j, c) THEN 1 ELSE 0
    /\ \A j, k \in jobs : Covers(j, c) /\ Covers(k, c) => j = k
    /\ c >= start => \A j \in jobs : ~Covers(j, c)

\* With at least one client no goroutine indexes past the table, whatever the
\* batches, the rate and the wrap-around do, and the loop ends at the last one.
InRange ==
  total > 0 =>
    /\ kickoff # "panicked"
    /\ \A j \in jobs : j.end < total
    /\ kickoff = "done" => start = total

\* No more clients are handed over between two sleeps than SoftStartRate
\* ("how many clients / second to start", clientData.go:117); a rate of zero
\* wraps around and starts all of them at once.
RateKept == rate > 0 /\ total > 0 => started <= rate
=============================================================================
