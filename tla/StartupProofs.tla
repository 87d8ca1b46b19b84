--------------------------- MODULE StartupProofs ----------------------------
(***************************************************************************)
(* StartClientGen for any list of workers, any settings whose table has at *)
(* most MaxClients clients, and any interleaving of the starter, the       *)
(* workers and the goroutines of the kickoff.                              *)
(*                                                                         *)
(* First the kickoff loop by itself, for any number of clients, batch      *)
(* size, rate and word.  Three situations of the loop are kept apart by    *)
(* its inductive invariant: an empty table (RoundEnd wraps to the last     *)
(* uint64), a rate of zero (the first range takes all clients), and the    *)
(* rest, where nothing wraps.                                              *)
(***************************************************************************)
EXTENDS Startup, AddressProofs

-----------------------------------------------------------------------------
\* The kickoff by itself.

\* The loop's counters: it has not begun with an empty table, one range takes
\* all with a rate of zero, and else the clients handed over since the last
\* sleep and what is left of the rate make up the rate.
Counters ==
  /\ total = 0 => start = 0 /\ started = 0 /\ kickoff # "sleeping"
  /\ total > 0 =>
       /\ start <= total /\ (kickoff = "done" <=> start = total)
       /\ kickoff # "panicked"
       /\ rate = 0 /\ kickoff # "done" => /\ kickoff = "rounds"
                                          /\ start = 0 /\ startCount = 0
       /\ rate > 0 => started <= rate
       /\ rate > 0 /\ kickoff = "rounds" => startCount > 0 /\ started + startCount = rate

\* Goroutines have clients below start ahead, no two of them the same.
Ranges ==
  total > 0 =>
    /\ \A j \in jobs : j.i <= j.end /\ j.end < start
    /\ \A c \in 0..(total - 1) : \A j, k \in jobs : Covers(j, c) /\ Covers(k, c) => j = k
    /\ \A c \in 0..(total - 1) :
         kicked[c] = IF c < start /\ \A j \in jobs : ~Covers(j, c) THEN 1 ELSE 0

SoftInv == SoftTypeOK /\ Counters /\ Ranges

\* Where the next range ends: at a client not handed over yet, and within what
\* is left of the rate, if there is one.
LEMMA RoundEndInRange ==
  ASSUME SoftTypeOK, Counters, total > 0, kickoff = "rounds"
  PROVE  /\ RoundEnd \in start..(total - 1)
         /\ rate > 0 => RoundEnd - start + 1 <= startCount
         /\ rate = 0 => RoundEnd = total - 1
<1> DEFINE batch == Wrap(start + (BatchSize - 1))
           within == IF Wrap(batch - start) >= startCount
                     THEN Wrap(start + startCount - 1) ELSE batch
<1>1. /\ Word \in Nat /\ BatchSize \in Nat /\ BatchSize >= 1 /\ total \in Nat
      /\ total + BatchSize < Word
      /\ start \in Nat /\ startCount \in Nat /\ start < Word /\ startCount < Word
      /\ rate \in Nat /\ start < total
  BY SoftStartAssumption DEF SoftTypeOK, Counters, UInt
<1>2. \A x \in Nat : x < Word => Wrap(x) = x
  BY <1>1 DEF Wrap
<1>3. batch = start + BatchSize - 1 /\ Wrap(batch - start) = BatchSize - 1
  BY <1>1 DEF Wrap
<1>4. Wrap(total - 1) = total - 1
  BY <1>1 DEF Wrap
<1>5. RoundEnd = IF within >= total THEN total - 1 ELSE within
  BY <1>4 DEF RoundEnd
<1> HIDE DEF batch, within
<1>6. CASE BatchSize - 1 >= startCount
  <2>1. within = Wrap(start + startCount - 1)
    BY <1>3, <1>6 DEF within
  <2>2. CASE rate > 0
    <3>1. startCount > 0
      BY <2>2 DEF Counters
    <3>2. start + startCount - 1 \in Nat /\ start + startCount - 1 < Word
      BY <1>1, <1>6, <3>1
    <3>3. within = start + startCount - 1
      BY <1>2, <2>1, <3>2
    <3> QED
      BY <1>1, <1>5, <2>2, <3>1, <3>3
  <2>3. CASE rate = 0
    <3>1. start = 0 /\ startCount = 0
      BY <2>3 DEF Counters
    <3>2. within = Word - 1
      BY <1>1, <2>1, <3>1 DEF Wrap
    <3> QED
      BY <1>1, <1>5, <2>3, <3>1, <3>2
  <2> QED
    BY <1>1, <2>2, <2>3
<1>7. CASE BatchSize - 1 < startCount
  <2>1. within = start + BatchSize - 1
    BY <1>1, <1>3, <1>7 DEF within
  <2>2. rate # 0
    BY <1>1, <1>7 DEF Counters
  <2> QED
    BY <1>1, <1>5, <1>7, <2>1, <2>2
<1> QED
  BY <1>1, <1>6, <1>7

\* An empty table: the range covers every uint64 and the counters come back to
\* where they were.
LEMMA RoundOfNone ==
  ASSUME SoftTypeOK, Counters, total = 0, Round
  PROVE  SoftTypeOK' /\ Counters'
<1>1. /\ Word \in Nat /\ Word > 0 /\ BatchSize \in Nat \ {0} /\ BatchSize < Word
      /\ start = 0 /\ started = 0 /\ startCount \in 0..(Word - 1)
  BY SoftStartAssumption DEF SoftTypeOK, Counters, UInt, Round
<1>2. RoundEnd = Word - 1 /\ Wrap(total - 1) = Word - 1
  BY <1>1 DEF RoundEnd, Wrap
<1>3. Wrap(Wrap(RoundEnd - start) + 1) = 0 /\ Wrap(RoundEnd + 1) = 0
  BY <1>1, <1>2 DEF Wrap
<1>4. Wrap(startCount - 0) = startCount
  BY <1>1 DEF Wrap
<1>5. /\ start' = 0 /\ started' = 0 /\ startCount' = startCount /\ kickoff' = "done"
      /\ jobs' = jobs \cup {[i |-> start, end |-> RoundEnd]}
      /\ UNCHANGED <<total, rate, kicked>>
  BY <1>1, <1>2, <1>3, <1>4 DEF Round
<1>6. [i |-> start, end |-> RoundEnd] \in KickRange /\ 0 \in UInt
  BY <1>1, <1>2 DEF KickRange, UInt
<1>7. SoftTypeOK'
  BY <1>1, <1>5, <1>6 DEF SoftTypeOK
<1>8. Counters'
  BY <1>5 DEF Counters
<1> QED
  BY <1>7, <1>8

LEMMA RoundCounts ==
  ASSUME SoftInv, total > 0, Round
  PROVE  /\ start <= RoundEnd /\ RoundEnd < total
         /\ jobs' = jobs \cup {[i |-> start, end |-> RoundEnd]}
         /\ start' = RoundEnd + 1
         /\ startCount' \in UInt /\ started' = started + (RoundEnd - start + 1)
         /\ kickoff' \in {"rounds", "sleeping", "done"}
         /\ kickoff' = "done" <=> RoundEnd = total - 1
         /\ rate > 0 => startCount' = startCount - (RoundEnd - start + 1)
         /\ kickoff' = "rounds" => startCount' # 0
<1>1. /\ RoundEnd \in start..(total - 1)
      /\ rate > 0 => RoundEnd - start + 1 <= startCount
  BY RoundEndInRange DEF SoftInv, Round
<1>2. Wrap(Wrap(RoundEnd - start) + 1) = RoundEnd - start + 1
  BY <1>1, SoftStartAssumption DEF SoftInv, SoftTypeOK, Wrap, UInt
<1>3. Wrap(RoundEnd + 1) = RoundEnd + 1 /\ Wrap(total - 1) = total - 1
  BY <1>1, SoftStartAssumption DEF SoftInv, SoftTypeOK, Wrap, UInt
<1>4. /\ Wrap(startCount - (RoundEnd - start + 1)) \in UInt
      /\ rate > 0 => Wrap(startCount - (RoundEnd - start + 1))
                     = startCount - (RoundEnd - start + 1)
  BY <1>1, SoftStartAssumption DEF SoftInv, SoftTypeOK, Wrap, UInt
<1> QED
  BY <1>1, <1>2, <1>3, <1>4 DEF Round, SoftInv, SoftTypeOK

LEMMA RoundKeeps == SoftInv /\ Round => SoftInv'
<1> SUFFICES ASSUME SoftInv, Round PROVE SoftInv'
  OBVIOUS
<1>1. CASE total = 0
  <2>1. SoftTypeOK' /\ Counters'
    BY <1>1, RoundOfNone DEF SoftInv
  <2>2. total' = 0
    BY <1>1 DEF Round
  <2> QED
    BY <2>1, <2>2 DEF SoftInv, Ranges
<1>2. CASE total > 0
  <2> DEFINE new == [i |-> start, end |-> RoundEnd]
  <2>1. /\ start \in Nat /\ total \in Nat /\ total' = total /\ kicked' = kicked /\ rate' = rate
    BY SoftStartAssumption DEF SoftInv, SoftTypeOK, UInt, Round
  <2>2. /\ RoundEnd \in start..(total - 1) /\ start' = RoundEnd + 1
        /\ jobs' = jobs \cup {new}
    BY <1>2, RoundCounts, RoundEndInRange DEF SoftInv, Round
  <2>3. SoftTypeOK'
    <3>1. new \in KickRange /\ start' \in UInt
      BY <2>1, <2>2, SoftStartAssumption DEF KickRange, UInt, SoftInv, SoftTypeOK
    <3> QED
      BY <1>2, <2>1, <2>2, <3>1, RoundCounts DEF SoftInv, SoftTypeOK, UInt
  <2>4. Counters'
    <3>1. rate \in Nat /\ startCount \in Nat /\ started \in Nat
      BY SoftStartAssumption DEF SoftInv, SoftTypeOK, UInt
    <3>2. /\ rate > 0 => RoundEnd - start + 1 <= startCount
          /\ rate = 0 => RoundEnd = total - 1
      BY <1>2, RoundEndInRange DEF SoftInv, Round
    <3>3. startCount' \in Nat
      BY <1>2, RoundCounts, SoftStartAssumption DEF UInt
    <3> QED
      BY <1>2, <2>1, <2>2, <3>1, <3>2, <3>3, RoundCounts DEF Counters, SoftInv, Round
  <2>5. Ranges'
    <3>1. \A j \in jobs : j.i \in Nat /\ j.end \in Nat /\ j.i <= j.end /\ j.end < start
      BY <1>2, SoftStartAssumption DEF SoftInv, Ranges, SoftTypeOK, KickRange, UInt
    <3>2. new.i = start /\ new.end = RoundEnd
      OBVIOUS
    <3>3. \A j \in jobs' : j.i <= j.end /\ j.end < start'
      BY <2>1, <2>2, <3>1, <3>2
    <3>4. ASSUME NEW c \in 0..(total - 1)
          PROVE  \A j, k \in jobs' : Covers(j, c) /\ Covers(k, c) => j = k
      <4>1. \A j, k \in jobs : Covers(j, c) /\ Covers(k, c) => j = k
        BY <1>2 DEF SoftInv, Ranges
      <4>2. \A j \in jobs : ~(Covers(j, c) /\ Covers(new, c))
        BY <2>1, <2>2, <3>1, <3>2 DEF Covers
      <4> QED
        BY <2>2, <4>1, <4>2
    <3>5. ASSUME NEW c \in 0..(total - 1)
          PROVE  kicked'[c] = IF c < start' /\ \A j \in jobs' : ~Covers(j, c) THEN 1 ELSE 0
      <4>1. kicked[c] = IF c < start /\ \A j \in jobs : ~Covers(j, c) THEN 1 ELSE 0
        BY <1>2 DEF SoftInv, Ranges
      <4>2. CASE c < start
        <5>1. c < start' /\ ~Covers(new, c)
          BY <2>1, <2>2, <3>2, <4>2 DEF Covers
        <5>2. (\A j \in jobs' : ~Covers(j, c)) <=> (\A j \in jobs : ~Covers(j, c))
          BY <2>2, <5>1
        <5> QED BY <2>1, <4>1, <4>2, <5>1, <5>2
      <4>3. CASE c >= start /\ c <= RoundEnd
        <5>1. Covers(new, c) /\ new \in jobs'
          BY <2>2, <3>2, <4>3 DEF Covers
        <5> QED BY <2>1, <4>1, <4>3, <5>1
      <4>4. CASE c > RoundEnd
        <5>1. ~(c < start) /\ ~(c < start')
          BY <2>1, <2>2, <4>4
        <5> QED BY <2>1, <4>1, <5>1
      <4> QED BY <2>1, <2>2, <4>2, <4>3, <4>4
    <3> QED
      BY <2>1, <3>3, <3>4, <3>5 DEF Ranges, Covers
  <2> QED
    BY <2>3, <2>4, <2>5 DEF SoftInv
<1> QED
  BY <1>1, <1>2 DEF SoftInv, SoftTypeOK

LEMMA WakeKeeps == SoftInv /\ Wake => SoftInv'
  BY SoftStartAssumption
     DEF SoftInv, SoftTypeOK, Counters, Ranges, Wake, UInt, Covers

\* A push: its goroutine has one client less ahead, and no other goroutine had
\* that client.  With an empty table it can only panic.
LEMMA KickKeeps ==
  ASSUME SoftInv, NEW j \in jobs, Kick(j)
  PROVE  SoftInv'
<1> DEFINE rest == [j EXCEPT !.i = @ + 1]
<1>1. /\ \A k \in jobs : k \in KickRange /\ k.i \in Nat /\ k.end \in Nat
                         /\ k.i < Word /\ k.end < Word
      /\ total \in Nat /\ total <= MaxClients /\ Word \in Nat /\ MaxClients \in Nat
      /\ start \in Nat
  BY SoftStartAssumption DEF SoftInv, SoftTypeOK, KickRange, UInt
<1>2. UNCHANGED <<total, rate, start, startCount, started>>
  BY DEF Kick
<1>3. CASE total = 0
  BY <1>1, <1>2, <1>3 DEF Kick, SoftInv, SoftTypeOK, Counters, Ranges
<1>4. CASE total > 0
  <2>1. /\ \A k \in jobs : k.i <= k.end /\ k.end < start
        /\ start <= total /\ kickoff # "panicked"
    BY <1>4 DEF SoftInv, Ranges, Counters
  <2>2. /\ j.i \in Nat /\ j.end \in Nat /\ j.i <= j.end /\ j.end < start /\ j.i < total
        /\ j \in KickRange
    BY <1>1, <2>1
  <2>3. /\ kicked' = [kicked EXCEPT ![j.i] = @ + 1]
        /\ jobs' = (jobs \ {j}) \cup (IF j.i < j.end THEN {rest} ELSE {})
        /\ kickoff' = kickoff
    BY <2>2 DEF Kick
  <2>4. rest.i = j.i + 1 /\ rest.end = j.end
    BY <2>2 DEF KickRange
  <2>5. j.i < j.end => rest \in KickRange
    BY <1>1, <2>2 DEF KickRange, UInt
  <2>6. j.i \in Client /\ j.i \in 0..(total - 1)
    BY <1>1, <2>2 DEF Client
  <2>7. SoftTypeOK'
    <3>1. jobs' \subseteq KickRange
      BY <2>3, <2>5 DEF SoftInv, SoftTypeOK
    <3>2. kicked' \in [Client -> Nat]
      BY <2>3, <2>6 DEF SoftInv, SoftTypeOK
    <3> QED
      BY <1>2, <2>3, <3>1, <3>2 DEF SoftInv, SoftTypeOK
  <2>8. Counters'
    BY <1>2, <2>3 DEF SoftInv, Counters
  <2>9. \A k \in jobs' : (k \in jobs /\ k # j) \/ (j.i < j.end /\ k = rest)
    BY <2>3
  <2> HIDE DEF rest
  <2>10. \A k \in jobs' : k.i <= k.end /\ k.end < start'
    BY <1>2, <2>1, <2>2, <2>4, <2>9
  <2>11. ASSUME NEW c \in 0..(total - 1)
         PROVE  /\ \A k, l \in jobs' : Covers(k, c) /\ Covers(l, c) => k = l
                /\ kicked'[c] = IF c < start' /\ \A k \in jobs' : ~Covers(k, c)
                                THEN 1 ELSE 0
    <3>1. /\ \A k, l \in jobs : Covers(k, c) /\ Covers(l, c) => k = l
          /\ kicked[c] = IF c < start /\ \A k \in jobs : ~Covers(k, c) THEN 1 ELSE 0
          /\ c \in Client /\ c \in Nat
      BY <1>1, <1>4 DEF SoftInv, Ranges, Client
    <3>2. j.i < j.end => (Covers(rest, c) <=> (Covers(j, c) /\ c # j.i))
      BY <2>2, <2>4, <3>1 DEF Covers
    <3>3. \A k, l \in jobs' : Covers(k, c) /\ Covers(l, c) => k = l
      BY <2>9, <3>1, <3>2
    <3>4. CASE c = j.i
      <4>1. Covers(j, c) /\ c < start
        BY <1>1, <2>2, <3>1, <3>4 DEF Covers
      <4>2. \A k \in jobs : k # j => ~Covers(k, c)
        BY <3>1, <4>1
      <4>3. \A k \in jobs' : ~Covers(k, c)
        BY <2>9, <3>2, <3>4, <4>2
      <4>4. kicked[c] = 0 /\ kicked'[c] = kicked[c] + 1
        BY <2>3, <3>1, <3>4, <4>1 DEF SoftInv, SoftTypeOK
      <4> QED
        BY <1>2, <3>3, <4>1, <4>3, <4>4
    <3>5. CASE c # j.i
      <4>1. kicked'[c] = kicked[c]
        BY <2>3, <3>1, <3>5 DEF SoftInv, SoftTypeOK
      <4>2. Covers(j, c) => j.i < j.end
        BY <2>2, <3>1, <3>5 DEF Covers
      <4>3. j.i < j.end => rest \in jobs'
        BY <2>3
      <4>4. \A k \in jobs : k # j => k \in jobs'
        BY <2>3
      <4>5. (\A k \in jobs' : ~Covers(k, c)) <=> (\A k \in jobs : ~Covers(k, c))
        BY <2>9, <3>2, <3>5, <4>2, <4>3, <4>4
      <4> QED
        BY <1>2, <3>1, <3>3, <4>1, <4>5
    <3> QED
      BY <3>4, <3>5
  <2>12. Ranges'
    BY <1>2, <2>10, <2>11 DEF Ranges, Covers
  <2> QED
    BY <2>7, <2>8, <2>12 DEF SoftInv
<1> QED
  BY <1>1, <1>3, <1>4

LEMMA SoftInvImplies == SoftInv => KickedOnce /\ InRange /\ RateKept
<1> SUFFICES ASSUME SoftInv PROVE KickedOnce /\ InRange /\ RateKept
  OBVIOUS
<1>1. /\ total \in Nat /\ start \in Nat
      /\ \A k \in jobs : k.i \in Nat /\ k.end \in Nat
  BY SoftStartAssumption DEF SoftInv, SoftTypeOK, KickRange, UInt
<1>2. InRange /\ RateKept
  BY <1>1 DEF SoftInv, Counters, Ranges, InRange, RateKept
<1>3. KickedOnce
  <2>1. CASE total = 0
    BY <2>1 DEF KickedOnce
  <2>2. CASE total > 0
    <3>1. \A c \in 0..(total - 1) : c >= start => \A j \in jobs : ~Covers(j, c)
      BY <1>1, <2>2 DEF SoftInv, Ranges, Covers
    <3> QED
      BY <2>2, <3>1 DEF SoftInv, Ranges, KickedOnce
  <2> QED
    BY <1>1, <2>1, <2>2
<1> QED
  BY <1>2, <1>3

LEMMA SoftInitHolds == SoftInit => SoftInv
<1> SUFFICES ASSUME SoftInit PROVE SoftInv
  OBVIOUS
<1>1. 0 \in UInt /\ total \in Nat
  BY SoftStartAssumption DEF UInt, SoftInit
<1>2. SoftTypeOK
  BY <1>1 DEF SoftInit, SoftTypeOK
<1>3. \A c \in 0..(total - 1) : c \in Client
  BY <1>1, SoftStartAssumption DEF Client, SoftInit
<1>4. Counters
  BY <1>1, SoftStartAssumption DEF SoftInit, Counters, UInt
<1>5. Ranges
  BY <1>1, <1>3 DEF SoftInit, Ranges
<1> QED
  BY <1>2, <1>4, <1>5 DEF SoftInv

LEMMA SoftInvInductive == SoftInv /\ [SoftNext]_softVars => SoftInv'
<1> SUFFICES ASSUME SoftInv, [SoftNext]_softVars PROVE SoftInv'
  OBVIOUS
<1>1. CASE Round  BY <1>1, RoundKeeps
<1>2. CASE Wake  BY <1>2, WakeKeeps
<1>3. ASSUME NEW j \in jobs, Kick(j) PROVE SoftInv'  BY <1>3, KickKeeps
<1>4. CASE UNCHANGED softVars
  BY <1>4 DEF softVars, SoftInv, SoftTypeOK, Counters, Ranges, Covers
<1> QED
  BY <1>1, <1>2, <1>3, <1>4 DEF SoftNext

\* The counters stay in a uint64 and the goroutines' ranges are ranges of one.
THEOREM SoftTypeCorrect == SoftSpec => []SoftTypeOK
<1>1. SoftInv => SoftTypeOK
  BY DEF SoftInv
<1> QED
  BY <1>1, SoftInitHolds, SoftInvInductive, PTL DEF SoftSpec

\* Whatever the batch size and the rate, no client is pushed twice or left out.
THEOREM EveryoneOnce == SoftSpec => []KickedOnce
  BY SoftInitHolds, SoftInvInductive, SoftInvImplies, PTL DEF SoftSpec

\* No goroutine of the kickoff indexes past a table with clients.
THEOREM NoIndexPanics == SoftSpec => []InRange
  BY SoftInitHolds, SoftInvInductive, SoftInvImplies, PTL DEF SoftSpec

\* SoftStartRate bounds what is handed over between two sleeps.
THEOREM RateIsKept == SoftSpec => []RateKept
  BY SoftInitHolds, SoftInvInductive, SoftInvImplies, PTL DEF SoftSpec

-----------------------------------------------------------------------------
\* The whole start.

\* The kickoff as it is before its first turn.
NotBegun == /\ start = 0 /\ startCount = rate /\ started = 0 /\ jobs = {}
            /\ kickoff = "rounds"

MainTypeOK ==
  /\ config \in Config /\ Len(table) = total /\ rate = config.rate
  /\ phase \in {"table", "made", "workers", "kickoff", "waiting", "returned", "exited"}
  /\ at \in 1..(Len(Stage) + 1) /\ awaiting \in BOOLEAN
  /\ worker \in [Worker -> {"none", "spawned", "appending", "opening", "ready",
                            "running", "failed"}]
  /\ tasks \subseteq Worker /\ cancelled \in BOOLEAN /\ stalled \subseteq Processor

\* No client is pushed before every worker runs; until the context is done the
\* starter stands at the only worker that has begun and does not run, the
\* counter apart, which is the last and which nothing waits for.
InOrder ==
  /\ phase \in {"table", "made"} => at = 1 /\ ~awaiting /\ \A w \in Worker : worker[w] = "none"
  /\ phase = "table" => /\ NotBegun /\ total = 0
                        /\ \A c \in Client : kicked[c] = 0
  /\ phase \in {"table", "made", "workers"} => jobs = {}
  /\ awaiting => at \in Worker /\ Stage[at] # "counter"
  /\ phase = "kickoff" => at = Len(Stage) + 1 /\ ~awaiting
  /\ ~cancelled => \A w \in Worker :
       /\ w < at => Stage[w] = "counter" \/ worker[w] = "running"
       /\ w = at => worker[w] = "none" \/ awaiting
       /\ w > at => worker[w] = "none"
       /\ w = at /\ awaiting => worker[w] # "none"

StartInv == MainTypeOK /\ SoftInv /\ InOrder /\ WorkersBeforeClients

LEMMA StartInvInit == Init => StartInv
<1> SUFFICES ASSUME Init PROVE StartInv
  OBVIOUS
<1>1. Word \in Nat /\ Word > 0 /\ 0 \in UInt /\ rate \in UInt /\ config \in Config
      /\ MaxClients \in Nat
  BY SoftStartAssumption, ConfigAssumption DEF Init, UInt
<1>2. SoftTypeOK
  BY <1>1 DEF Init, SoftTypeOK
<1>3. Counters /\ Ranges
  BY <1>1 DEF Init, Counters, Ranges
<1>4. MainTypeOK
  <2>1. Len(Stage) \in Nat
    BY StartupAssumption
  <2>2. Len(table) = 0
    BY DEF Init
  <2>3. worker \in [Worker -> {"none", "spawned", "appending", "opening", "ready", "running",
                               "failed"}]
    BY DEF Init
  <2>4. config \in Config /\ Len(table) = total /\ rate = config.rate
    BY <2>2 DEF Init
  <2>5. at \in 1..(Len(Stage) + 1)
    BY <2>1 DEF Init
  <2> QED
    BY <2>3, <2>4, <2>5 DEF Init, MainTypeOK
<1>5. InOrder /\ WorkersBeforeClients
  BY DEF Init, InOrder, NotBegun, WorkersBeforeClients
<1> QED
  BY <1>2, <1>3, <1>4, <1>5 DEF StartInv, SoftInv

LEMMA StartInvImplies == StartInv => TypeOK /\ AppendsApart /\ WorkersBeforeClients
<1> SUFFICES ASSUME StartInv PROVE TypeOK /\ AppendsApart
  BY DEF StartInv
<1>1. TypeOK
  BY DEF StartInv, MainTypeOK, SoftInv, TypeOK
<1>2. ASSUME ~cancelled, NEW v \in Worker, NEW w \in Worker,
             worker[v] = "appending", worker[w] = "appending", v # w
      PROVE  FALSE
  <2>1. at \in Nat /\ Len(Stage) \in Nat /\ Worker = 1..Len(Stage)
    BY StartupAssumption DEF StartInv, MainTypeOK, Worker
  <2>2. \A x \in {v, w} : \/ x < at /\ Stage[x] = "counter"
                          \/ x = at /\ awaiting
    BY <1>2, <2>1 DEF StartInv, InOrder
  <2>3. \A x \in Worker : Stage[x] = "counter" => x = Len(Stage)
    BY <2>1, StartupAssumption
  <2> QED
    BY <1>2, <2>1, <2>2, <2>3 DEF StartInv, InOrder
<1> QED
  BY <1>1, <1>2 DEF AppendsApart

-----------------------------------------------------------------------------
\* The loop over the addresses makes a table of the range.
LEMMA TablesAreRanges ==
  ASSUME NEW c \in Config
  PROVE  IsRange(TableOf[c], c.from, c.to, c.step, MaxClients)
<1>1. /\ c.from \in Address /\ c.to \in Address /\ c.step \in Nat \ {0}
      /\ MaxClients \in Nat
      /\ Number(c.to, Digits) - Number(c.from, Digits) < MaxClients * c.step
      /\ (MaxClients + 1) * c.step < Values[Digits]
  BY ConfigAssumption, SoftStartAssumption
<1>2. TableOf[c] = ClientTable(c.from, c.to, c.step)
  BY DEF TableOf
<1> QED
  BY <1>1, <1>2, TableIsProgression

\* The table is made: the kickoff's counters are as they were, for its length.
LEMMA MakeClientsKeeps ==
  ASSUME StartInv, MakeClients
  PROVE  StartInv'
<1>1. /\ total' = Len(table') /\ total' \in 0..MaxClients
      /\ UNCHANGED <<config, at, startVars, cancelled, stalled, rate, start, startCount, jobs, kicked,
                     started, kickoff>>
  <2>1. Len(TableOf[config]) \in 0..MaxClients
    BY TablesAreRanges DEF StartInv, MainTypeOK, IsRange
  <2> QED BY <2>1 DEF MakeClients
<1>2. NotBegun /\ \A c \in Client : kicked[c] = 0
  BY DEF StartInv, InOrder, MakeClients
<1>3. \A c \in 0..(total' - 1) : c \in Client
  BY <1>1, SoftStartAssumption DEF Client
<1>4. SoftTypeOK'
  BY <1>1 DEF StartInv, SoftInv, SoftTypeOK
<1>5. Counters'
  BY <1>1, <1>2, SoftStartAssumption DEF NotBegun, Counters, StartInv, SoftInv, SoftTypeOK, UInt
<1>6. Ranges'
  BY <1>1, <1>2, <1>3, <1>4 DEF NotBegun, Ranges, SoftTypeOK
<1>7. MainTypeOK'
  BY <1>1 DEF MakeClients, StartInv, MainTypeOK, startVars
<1>8. InOrder' /\ WorkersBeforeClients'
  BY <1>1, <1>2 DEF MakeClients, StartInv, InOrder, WorkersBeforeClients, startVars, NotBegun
<1> QED
  BY <1>4, <1>5, <1>6, <1>7, <1>8 DEF StartInv, SoftInv

LEMMA SoftInvStays ==
  ASSUME StartInv, UNCHANGED softVars
  PROVE  SoftInv'
  BY SoftInvInductive DEF StartInv

LEMMA StarterKeeps ==
  ASSUME StartInv,
         MakeRunData \/ Spawn \/ Handshake \/ GiveUp \/ AllStarted \/ Abandon \/ Return \/ Exit
  PROVE  StartInv'
<1>1. UNCHANGED softVars /\ UNCHANGED <<config, table, stalled>>
  BY DEF MakeRunData, Spawn, Handshake, GiveUp, AllStarted, Abandon, Return, Exit
<1>2. SoftInv'
  BY <1>1, SoftInvStays
<1>3. /\ Worker = 1..Len(Stage) /\ Len(Stage) \in Nat
      /\ \A w \in Worker : Stage[w] = "counter" => w = Len(Stage)
      /\ at \in 1..(Len(Stage) + 1)
  BY StartupAssumption DEF Worker, StartInv, MainTypeOK
<1>4. MainTypeOK'
  <2>1. at' \in 1..(Len(Stage) + 1)
    <3>1. CASE Spawn \/ Handshake
      BY <1>3, <3>1 DEF StartInv, InOrder, Spawn, Handshake
    <3>2. CASE GiveUp
      BY <1>3, <3>2 DEF GiveUp
    <3>3. CASE MakeRunData \/ AllStarted \/ Abandon \/ Return \/ Exit
      BY <1>3, <3>3 DEF MakeRunData, AllStarted, Abandon, Return, Exit
    <3> QED
      BY <3>1, <3>2, <3>3
  <2>2. /\ worker' \in [Worker -> {"none", "spawned", "appending", "opening", "ready",
                                   "running", "failed"}]
        /\ tasks' \subseteq Worker /\ cancelled' \in BOOLEAN /\ awaiting' \in BOOLEAN
    BY DEF StartInv, MainTypeOK, startVars, MakeRunData, Spawn, Handshake, GiveUp,
           AllStarted, Abandon, Return, Exit
  <2>3. phase' \in {"table", "made", "workers", "kickoff", "waiting", "returned", "exited"}
    BY DEF StartInv, MainTypeOK, MakeRunData, Spawn, Handshake, GiveUp, AllStarted, Abandon,
           Return, Exit
  <2> QED
    BY <1>1, <2>1, <2>2, <2>3 DEF StartInv, MainTypeOK, softVars
<1>5. WorkersBeforeClients'
  <2>1. CASE Spawn
    BY <1>1, <2>1 DEF StartInv, InOrder, WorkersBeforeClients, softVars, Spawn
  <2>2. CASE Handshake
    BY <1>1, <2>2 DEF StartInv, MainTypeOK, WorkersBeforeClients, softVars, Handshake
  <2>3. CASE MakeRunData \/ GiveUp \/ AllStarted \/ Abandon \/ Return \/ Exit
    BY <1>1, <2>3 DEF StartInv, WorkersBeforeClients, softVars, startVars,
                      MakeRunData, GiveUp, AllStarted, Abandon, Return, Exit
  <2> QED
    BY <2>1, <2>2, <2>3
<1>6. InOrder'
  <2>1. CASE MakeRunData \/ AllStarted \/ Abandon \/ Return \/ Exit
    BY <1>1, <1>3, <2>1 DEF StartInv, MainTypeOK, InOrder, NotBegun, softVars, startVars,
                            MakeRunData, AllStarted, Abandon, Return, Exit
  <2>2. CASE Spawn
    BY <1>1, <1>3, <2>2 DEF StartInv, MainTypeOK, InOrder, NotBegun, softVars, Spawn
  <2>3. CASE Handshake
    BY <1>1, <1>3, <2>3 DEF StartInv, MainTypeOK, InOrder, NotBegun, softVars, Handshake
  <2>4. CASE GiveUp
    BY <1>1, <1>3, <2>4 DEF StartInv, MainTypeOK, InOrder, NotBegun, softVars, GiveUp
  <2> QED
    BY <2>1, <2>2, <2>3, <2>4
<1> QED
  BY <1>2, <1>4, <1>5, <1>6 DEF StartInv

LEMMA KickoffKeeps ==
  ASSUME StartInv, KickRound \/ KickWake \/ \E j \in jobs : KickClient(j)
  PROVE  StartInv'
<1>1. UNCHANGED <<config, table, at, startVars, cancelled, stalled>>
  BY DEF KickRound, KickWake, KickClient, mainVars
<1>2. SoftNext
  BY DEF KickRound, KickWake, KickClient, SoftNext
<1>3. SoftInv' /\ UNCHANGED <<total, rate>>
  BY <1>2, SoftInvInductive DEF StartInv, SoftNext, Round, Wake, Kick
<1>4. phase' \in {phase, "waiting"} /\ phase # "table"
  <2>1. CASE KickRound
    BY <2>1 DEF KickRound
  <2>2. CASE KickWake
    BY <2>2 DEF KickWake, Wake, mainVars, StartInv, InOrder, NotBegun
  <2>3. CASE \E j \in jobs : KickClient(j)
    BY <2>3 DEF KickClient, mainVars, StartInv, InOrder, NotBegun
  <2> QED
    BY <2>1, <2>2, <2>3
<1>5. MainTypeOK'
  BY <1>1, <1>3, <1>4 DEF StartInv, MainTypeOK, startVars
<1>6. WorkersBeforeClients'
  <2>1. CASE KickRound
    <3>1. \A w \in Worker : Stage[w] = "counter" \/ worker[w] = "running"
      BY <2>1, StartupAssumption DEF KickRound, StartInv, InOrder, Worker
    <3> QED
      BY <1>1, <3>1 DEF WorkersBeforeClients, startVars
  <2>2. CASE KickWake \/ \E j \in jobs : KickClient(j)
    <3>1. jobs' # {} => jobs # {}
      BY <2>2 DEF KickWake, KickClient, Wake
    <3> QED
      BY <1>1, <3>1 DEF StartInv, WorkersBeforeClients, startVars
  <2> QED
    BY <2>1, <2>2
<1>7. InOrder'
  <2>1. phase' \in {"table", "made", "workers"} => phase' = phase /\ jobs' = {}
    BY <1>4 DEF StartInv, InOrder, KickRound, KickWake, KickClient, Wake, mainVars
  <2> QED
    BY <1>1, <1>4, <2>1 DEF StartInv, InOrder, startVars
<1> QED
  BY <1>3, <1>5, <1>6, <1>7 DEF StartInv

LEMMA WorkersKeep ==
  ASSUME StartInv, NEW v \in Worker, Work(v)
  PROVE  StartInv'
<1>1. UNCHANGED mainVars /\ UNCHANGED softVars /\ UNCHANGED <<awaiting, stalled>>
  BY DEF Work, BeginAppend, EndAppend, OpenRing, TaskReturns
<1>2. SoftInv'
  BY <1>1, SoftInvStays
<1>3. /\ worker[v] = "none" => worker' = worker
      /\ worker[v] = "running" => worker' = worker
      /\ \A w \in Worker : w # v => worker'[w] = worker[w]
      /\ worker' # worker => worker'[v] # "none"
      /\ Stage[v] # "counter" /\ worker'[v] = "running" => worker[v] = "running"
      /\ worker' \in [Worker -> {"none", "spawned", "appending", "opening", "ready",
                                 "running", "failed"}]
      /\ cancelled' \in {cancelled, TRUE} /\ tasks' \subseteq Worker
  BY DEF StartInv, MainTypeOK, Work, BeginAppend, EndAppend, OpenRing, TaskReturns
<1>4. MainTypeOK'
  BY <1>1, <1>3 DEF StartInv, MainTypeOK, mainVars, softVars
<1>5. WorkersBeforeClients'
  BY <1>1, <1>3 DEF StartInv, WorkersBeforeClients, softVars
<1>6. InOrder'
  <2>1. phase \in {"table", "made"} => worker' = worker
    BY <1>3 DEF StartInv, InOrder
  <2>2. ASSUME ~cancelled', NEW w \in Worker
        PROVE  /\ w < at => Stage[w] = "counter" \/ worker'[w] = "running"
               /\ w = at => worker'[w] = "none" \/ awaiting
               /\ w > at => worker'[w] = "none"
               /\ w = at /\ awaiting => worker'[w] # "none"
    <3>1. ~cancelled
      BY <1>3, <2>2
    <3>2. CASE w # v
      BY <1>3, <3>1, <3>2 DEF StartInv, InOrder
    <3>3. CASE w = v
      BY <1>3, <3>1, <3>3 DEF StartInv, InOrder
    <3> QED
      BY <3>2, <3>3
  <2> QED
    BY <1>1, <2>1, <2>2 DEF StartInv, InOrder, NotBegun, mainVars, softVars
<1> QED
  BY <1>2, <1>4, <1>5, <1>6 DEF StartInv

LEMMA StartInvInductive == StartInv /\ [Next]_vars => StartInv'
<1> SUFFICES ASSUME StartInv, [Next]_vars PROVE StartInv'
  OBVIOUS
<1>1. CASE MakeClients
  BY <1>1, MakeClientsKeeps
<1>2. CASE MakeRunData \/ Spawn \/ Handshake \/ GiveUp \/ AllStarted \/ Abandon \/ Return \/ Exit
  BY <1>2, StarterKeeps
<1>3. CASE KickRound \/ KickWake \/ \E j \in jobs : KickClient(j)
  BY <1>3, KickoffKeeps
<1>4. CASE \E w \in Worker : Work(w)
  BY <1>4, WorkersKeep
<1>5. CASE Timeout \/ (\E p \in Processor : Stall(p)) \/ UNCHANGED vars
  <2>1. /\ UNCHANGED mainVars /\ UNCHANGED softVars /\ UNCHANGED startVars
        /\ cancelled' \in {cancelled, TRUE} /\ stalled' \subseteq stalled \cup Processor
    BY <1>5 DEF Timeout, Stall, vars
  <2>2. SoftInv'
    BY <2>1, SoftInvStays
  <2>3. MainTypeOK'
    BY <2>1 DEF StartInv, MainTypeOK, mainVars, softVars, startVars
  <2>4. WorkersBeforeClients'
    BY <2>1 DEF StartInv, WorkersBeforeClients, softVars, startVars
  <2>5. /\ phase' = phase /\ at' = at /\ awaiting' = awaiting /\ worker' = worker
        /\ total' = total /\ kicked' = kicked /\ jobs' = jobs /\ (NotBegun => NotBegun')
    BY <2>1 DEF mainVars, softVars, startVars, NotBegun
  <2>6. ~cancelled' => ~cancelled
    BY <2>1, Zenon
  <2>7. InOrder'
    BY <2>5, <2>6 DEF StartInv, InOrder
  <2> QED
    BY <2>2, <2>3, <2>4, <2>7 DEF StartInv
<1> QED
  BY <1>1, <1>2, <1>3, <1>4, <1>5 DEF Next, Starter

-----------------------------------------------------------------------------
\* The starter, the workers and the kickoff keep the types of what they share.
THEOREM StartTypeCorrect == Spec => []TypeOK
  BY StartInvInit, StartInvInductive, StartInvImplies, PTL DEF Spec

\* Whatever fails or is cancelled while the workers start, no client is pushed
\* unless every worker runs.
THEOREM WorkersFirst == Spec => []WorkersBeforeClients
  BY StartInvInit, StartInvInductive, StartInvImplies, PTL DEF Spec

\* Until the context is done the handshakes keep the unlocked appends apart.
THEOREM AppendsNeverMeet == Spec => []AppendsApart
  BY StartInvInit, StartInvInductive, StartInvImplies, PTL DEF Spec

\* In its surroundings, too, the kickoff pushes every client exactly once.
THEOREM EveryClientOnce == Spec => []KickedOnce
<1>1. StartInv => KickedOnce
  BY SoftInvImplies DEF StartInv
<1> QED
  BY <1>1, StartInvInit, StartInvInductive, PTL DEF Spec

\* No goroutine of the kickoff leaves the table, whatever is cancelled when.
THEOREM KickoffInTable == Spec => []InRange
<1>1. StartInv => InRange
  BY SoftInvImplies DEF StartInv
<1> QED
  BY <1>1, StartInvInit, StartInvInductive, PTL DEF Spec

\* SoftStartRate is kept while workers, context and timeouts do what they like.
THEOREM StartRateKept == Spec => []RateKept
<1>1. StartInv => RateKept
  BY SoftInvImplies DEF StartInv
<1> QED
  BY <1>1, StartInvInit, StartInvInductive, PTL DEF Spec

-----------------------------------------------------------------------------
\* The table, from when it is made until the settings are looked at.
TableInv == /\ config \in Config /\ Len(table) = total
            /\ phase = "made" => table = TableOf[config]

LEMMA TableInvHolds ==
  /\ Init => TableInv
  /\ TableInv /\ [Next]_vars => TableInv'
<1>1. Init => TableInv
  BY DEF Init, TableInv
<1>2. ASSUME TableInv, [Next]_vars PROVE TableInv'
  <2>1. CASE MakeClients
    BY <1>2, <2>1 DEF TableInv, MakeClients
  <2>2. CASE UNCHANGED <<config, table, total>> /\ (phase' = "made" => phase = "made")
    BY <1>2, <2>2 DEF TableInv
  <2>3. CASE MakeRunData \/ Spawn \/ Handshake \/ GiveUp \/ AllStarted \/ Abandon \/ Return \/ Exit
    BY <2>2, <2>3 DEF MakeRunData, Spawn, Handshake, GiveUp, AllStarted, Abandon, Return, Exit, softVars
  <2>4. CASE KickRound \/ KickWake \/ \E j \in jobs : KickClient(j)
    BY <2>2, <2>4 DEF KickRound, KickWake, KickClient, Round, Wake, Kick, mainVars
  <2>5. CASE \E w \in Worker : Work(w)
    BY <2>2, <2>5 DEF Work, BeginAppend, EndAppend, OpenRing, TaskReturns, mainVars, softVars
  <2>6. CASE Timeout \/ (\E p \in Processor : Stall(p)) \/ UNCHANGED vars
    BY <2>2, <2>6 DEF Timeout, Stall, vars, mainVars, softVars
  <2> QED
    BY <1>2, <2>1, <2>3, <2>4, <2>5, <2>6 DEF Next, Starter
<1> QED
  BY <1>1, <1>2

LEMMA TableInvImplies ==
  ASSUME TableInv
  PROVE  /\ TableIsRange
         /\ Plain(config.from, config.to) => LookupInvertsTable
<1>1. /\ config \in Config /\ config.from \in Address /\ config.to \in Address
      /\ config.step \in Nat \ {0} /\ MaxClients \in Nat /\ MaxClients <= TwoTo64 \div 2
  BY ConfigAssumption, SoftStartAssumption, StartupAssumption DEF TableInv
<1>2. phase = "made" => IsRange(table, config.from, config.to, config.step, MaxClients)
  BY <1>1, TablesAreRanges DEF TableInv
<1>3. total = Len(table)
  BY DEF TableInv
<1>4. TableIsRange
  <2> SUFFICES ASSUME phase = "made" PROVE TableIsRange
    BY DEF TableIsRange
  <2> DEFINE first == Number(config.from, Digits)
             last == IF IsV4(config.from) <=> IsV4(config.to)
                     THEN Number(config.to, Digits) ELSE -1
  <2>1. IsRange(table, config.from, config.to, config.step, MaxClients)
    BY <1>2
  <2>2. first \in Nat /\ total \in Nat
    <3>1. Digits \in 0..Digits
      BY AddressAssumption
    <3>2. Number(config.from, Digits) \in Nat
      BY <1>1, <3>1, NumberBound, ValuesEquation
    <3>3. Len(table) \in Nat
      BY <2>1 DEF IsRange
    <3> QED
      BY <1>3, <3>2, <3>3
  <2>3. \A i \in 1..total : /\ Number(table[i], Digits) = first + (i - 1) * config.step
                            /\ Number(table[i], Digits) <= last
    BY <1>3, <2>1 DEF IsRange
  <2>4. first + total * config.step > last
    <3>1. CASE IsV4(config.from) <=> IsV4(config.to)
      BY <1>3, <2>1, <3>1 DEF IsRange
    <3>2. CASE ~(IsV4(config.from) <=> IsV4(config.to))
      <4>1. total = 0 /\ last = -1
        BY <1>3, <2>1, <3>2 DEF IsRange
      <4>2. 0 * config.step = 0
        BY <1>1
      <4> HIDE DEF first, last
      <4> QED
        BY <2>2, <4>1, <4>2
    <3> QED
      BY <3>1, <3>2
  <2> QED
    BY <2>3, <2>4 DEF TableIsRange
<1>5. ASSUME Plain(config.from, config.to) PROVE LookupInvertsTable
  <2> SUFFICES ASSUME phase = "made", total > 0 PROVE LookupInvertsTable
    BY DEF LookupInvertsTable
  <2>1. IsRange(table, config.from, config.to, config.step, MaxClients)
    BY <1>2
  <2>2. \A i \in 1..total : GetClientFromIP(table, config.step, table[i]) = i - 1
    BY <1>1, <1>3, <1>5, <2>1, LookupFinds
  <2>3. ASSUME NEW a \in Address,
               Number(a, Digits) - Number(config.from, Digits) \in 0..(TwoTo64 \div 2 - 1),
               \A i \in 1..total : table[i] # a
        PROVE  GetClientFromIP(table, config.step, a) = NoClient
    BY <1>1, <1>3, <2>1, <2>3, LookupRejectsNearby
  <2> QED
    BY <2>2, <2>3 DEF LookupInvertsTable
<1> QED
  BY <1>4, <1>5

\* The loop over the addresses makes the whole range and nothing else: carries,
\* the last address and the last IPv4 address do not lead it astray.
THEOREM TableIsTheRange == Spec => []TableIsRange
  BY TableInvHolds, TableInvImplies, PTL DEF Spec

\* getClientFromIP finds every client by its address, and nobody by one that is
\* not in the table and lies less than 2^63, half a uint64, beyond the first, for
\* ranges of IPv4 and for ranges of IPv6 without those of IPv4.  It says nothing
\* of addresses further up: 2^64 beyond a client's address an IPv6 address is
\* taken for that client, and quotients from 2^63 up become negative indexes
\* (clientData.go:332-333, client.go:234).
THEOREM LookupInverts == Spec => [](Plain(config.from, config.to) => LookupInvertsTable)
  BY TableInvHolds, TableInvImplies, PTL DEF Spec
=============================================================================
