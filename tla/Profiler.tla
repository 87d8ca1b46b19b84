------------------------------ MODULE Profiler ------------------------------
(***************************************************************************)
(* The busy profiler (perfMeas.go): a worker adds the time between Tick    *)
(* and Tock to totalWorkTime, a goroutine divides it by the period's       *)
(* length and starts a new period.  Only that goroutine and GetLastBusy    *)
(* take the mutex: the four steps of a period's end run between Tock's     *)
(* read of the sum and its write, and Tock runs between any two of them.   *)
(***************************************************************************)
EXTENDS Integers

CONSTANTS Period,      \* a second
          MaxTime      \* bound on the clock

ASSUME ProfilerAssumption == Period \in Nat \ {0} /\ MaxTime \in Nat

Nothing == -1

VARIABLES
  now, due,           \* the clock; the ticker's channel holds a tick
  stage,              \* of the end of a period
  startWork,          \* the last Tick, Nothing when not at work
  tock,               \* the sum a Tock is about to write, Nothing outside one
  totalWorkTime, totalTime, startAccumulation,
  lastWork, lastTime, \* the two sides of lastSecondBusy
  \* History: the work at hand is not wholly within the period it may be added
  \* to, and such work was added to this, to the last period.
  foreign, added, lastAdded

ticker == <<due, stage>>
shown == <<lastWork, lastTime, lastAdded>>
prVars == <<now, ticker, startWork, tock, totalWorkTime, totalTime, startAccumulation,
            shown, foreign, added>>

PrInit ==
  /\ now = 0 /\ due = FALSE /\ stage = "wait"
  /\ startWork = Nothing /\ tock = Nothing
  /\ totalWorkTime = 0 /\ totalTime = 0 /\ startAccumulation = 0
  /\ lastWork = 0 /\ lastTime = Period
  /\ foreign = FALSE /\ added = FALSE /\ lastAdded = FALSE

\* The ticker drops a tick when the one before is still in its channel.
TimePasses ==
  /\ now < MaxTime /\ now' = now + 1
  /\ due' = (due \/ now' % Period = 0)
  /\ UNCHANGED <<stage, startWork, tock, totalWorkTime, totalTime, startAccumulation,
                 shown, foreign, added>>

Tick ==
  /\ startWork = Nothing
  /\ startWork' = now /\ foreign' = FALSE
  /\ UNCHANGED <<now, ticker, tock, totalWorkTime, totalTime, startAccumulation, shown,
                 added>>

\* p.totalWorkTime += now - p.startWork is a read and, later, a write.  Work may
\* end after the period's length was taken and before its share is.
TockReads ==
  /\ startWork # Nothing /\ tock = Nothing
  /\ tock' = totalWorkTime + (now - startWork)
  /\ foreign' = (foreign \/ (stage = "share" /\ now > startAccumulation + totalTime))
  /\ UNCHANGED <<now, ticker, startWork, totalWorkTime, totalTime, startAccumulation, shown,
                 added>>

\* Work added between the reset and the restart precedes the new period.
TockWrites ==
  /\ tock # Nothing
  /\ totalWorkTime' = tock
  /\ tock' = Nothing /\ startWork' = Nothing
  /\ added' = (added \/ foreign \/ (stage = "restart" /\ tock > 0))
  /\ UNCHANGED <<now, ticker, totalTime, startAccumulation, shown, foreign>>

\* The goroutine takes a tick, however late: the next may follow at once.
PeriodMeasures ==
  /\ stage = "wait" /\ due
  /\ stage' = "share" /\ due' = FALSE
  /\ totalTime' = now - startAccumulation
  /\ UNCHANGED <<now, startWork, tock, totalWorkTime, startAccumulation, shown, foreign,
                 added>>

PeriodShares ==
  /\ stage = "share" /\ stage' = "reset"
  /\ lastWork' = totalWorkTime /\ lastTime' = totalTime /\ lastAdded' = added
  /\ UNCHANGED <<now, due, startWork, tock, totalWorkTime, totalTime, startAccumulation,
                 foreign, added>>

\* Mutant: the sum goes on over the end of the period.
PeriodResetsKeepsSum ==
  /\ stage = "reset" /\ stage' = "restart"
  /\ totalTime' = 0
  /\ foreign' = (tock # Nothing) /\ added' = FALSE
  /\ UNCHANGED <<now, due, startWork, tock, totalWorkTime, startAccumulation, shown>>

\* A Tock that has read the sum will bring it back.
PeriodResets ==
  /\ stage = "reset" /\ stage' = "restart"
  /\ totalWorkTime' = 0 /\ totalTime' = 0
  /\ foreign' = (tock # Nothing) /\ added' = FALSE
  /\ UNCHANGED <<now, due, startWork, tock, startAccumulation, shown>>

\* Work begun before this moment is not wholly of the new period.
PeriodRestarts ==
  /\ stage = "restart" /\ stage' = "wait"
  /\ startAccumulation' = now
  /\ foreign' = (foreign \/ (startWork # Nothing /\ startWork < now))
  /\ UNCHANGED <<now, due, startWork, tock, totalWorkTime, totalTime, shown, added>>

PeriodEnds == PeriodMeasures \/ PeriodShares \/ PeriodResets \/ PeriodRestarts

PrNext == TimePasses \/ Tick \/ TockReads \/ TockWrites \/ PeriodEnds
PrSpec == PrInit /\ [][PrNext]_prVars

-----------------------------------------------------------------------------
PrTypeOK ==
  /\ {now, totalWorkTime, totalTime, startAccumulation, lastWork, lastTime} \subseteq Nat
  /\ {startWork, tock} \subseteq Nat \cup {Nothing}
  /\ stage \in {"wait", "share", "reset", "restart"}
  /\ {due, foreign, added, lastAdded} \subseteq BOOLEAN

\* A profiler shows more than 100 % only for a period to whose sum work was
\* added that lies partly or wholly outside the period's measured length: begun
\* before it, ended after it was measured, or a sum that a Tock brought back.
\* perfMeas_test.go:45 wants at most 100 % of all periods; these are the reasons
\* for which the code (perfMeas.go:70-76, 103) may show more.
BusyWithinPeriod == lastWork > lastTime => lastAdded
=============================================================================
