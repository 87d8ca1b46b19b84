------------------------------ MODULE Startup -------------------------------
(***************************************************************************)
(* StartClientGen from its first line to its return: the table of clients, *)
(* the workers started one after the other with a handshake each, the      *)
(* kickoff (SoftStart) and the wait for the errgroup.                      *)
(*                                                                         *)
(* A worker is an errgroup task with an inner goroutine that does the work *)
(* and never looks at the context.  The starter waits for the inner        *)
(* goroutine's message on an unbuffered channel or for the context; the    *)
(* task waits for the context or for an error (only RX and TX have one:    *)
(* the ring cannot be opened, which is what the stub in ioWkr.go always    *)
(* answers).  The first task that returns an error cancels the context,    *)
(* and so does TimeoutSec.                                                 *)
(***************************************************************************)
EXTENDS ClientAddressing, SoftStart, FiniteSets

CONSTANTS
  Config,   \* set of [from, to, step, rate, valid]: the settings of a run
  Stage     \* the kinds of workers in the order they are started

\* A slice is no longer than an int can say.
ASSUME StartupAssumption ==
  /\ Word = TwoTo64 /\ MaxClients <= TwoTo64 \div 2
  /\ \A i \in DOMAIN Stage : Stage[i] \in {"rx", "tx", "parser", "processor",
                                           "retransmit", "restart", "counter"}
  /\ \A i \in DOMAIN Stage : Stage[i] = "counter" => i = Len(Stage)
  /\ \E i \in DOMAIN Stage : Stage[i] = "retransmit"
  /\ Stage \in Seq(STRING)

Worker == 1..Len(Stage)

\* The loop over the addresses, for each of the settings.
TableOf == [c \in Config |-> ClientTable(c.from, c.to, c.step)]

\* No more than MaxClients clients.  A step is a uint and the length of a slice
\* an int; the 128 bits of an address hold their product.
ASSUME ConfigAssumption ==
  \A c \in Config :
    /\ {c.from, c.to} \subseteq Address /\ c.step \in Nat \ {0} /\ c.rate \in UInt
    /\ Number(c.to, Digits) - Number(c.from, Digits) < MaxClients * c.step
    /\ (MaxClients + 1) * c.step < Values[Digits]

\* The functions that start workers: giving up leaves the whole function.
StartedBy(i) ==
  CASE Stage[i] \in {"rx", "tx"} -> "startIOWorker"
    [] Stage[i] = "parser" -> "startPacketParser"
    [] Stage[i] = "processor" -> "startPacketProcessor"
    [] Stage[i] \in {"retransmit", "restart"} -> "startClientProcessor"
    [] OTHER -> "startCounterProcessor"

\* cl.index % cfg.NumClientRetransmitProcs
ProcessorOf(c) == c % Cardinality({i \in Worker : Stage[i] = "retransmit"})

Processor == {ProcessorOf(c) : c \in Client}

OpensRing(i) == Stage[i] \in {"rx", "tx"}

VARIABLES
  config, table,
  phase,       \* "table", "made", "workers", "kickoff", "waiting", "returned",
               \* "exited": main has returned and with it the process ended
  at,          \* the worker being started, Len(Stage) + 1 after the last
  awaiting,    \* the starter is in its select
  worker,      \* each worker's progress
  tasks,       \* errgroup tasks that have not returned
  cancelled,   \* the context is done
  stalled      \* retransmit processors that wait for room in their own channel

mainVars == <<config, table, phase, at>>
startVars == <<awaiting, worker, tasks>>
vars == <<mainVars, startVars, cancelled, stalled, softVars>>

Init ==
  /\ config \in Config /\ table = <<>> /\ phase = "table"
  /\ at = 1 /\ awaiting = FALSE
  /\ worker = [w \in Worker |-> "none"]
  /\ tasks = {} /\ cancelled = FALSE /\ stalled = {}
  /\ total = 0 /\ rate = config.rate
  /\ start = 0 /\ startCount = config.rate
  /\ jobs = {} /\ kicked = [c \in Client |-> 0]
  /\ started = 0 /\ kickoff = "rounds"

\* The process still runs: no goroutine has panicked and main has not returned.
Alive == kickoff # "panicked" /\ phase # "exited"

\* Mutant: the clients are counted in the loop, the last one twice.
MakeClientsCounted ==
  /\ phase = "table" /\ phase' = "made"
  /\ table' = TableOf[config]
  /\ total' = Len(table') + 1
  /\ UNCHANGED <<config, at, startVars, cancelled, stalled>>
  /\ UNCHANGED <<rate, start, startCount, jobs, kicked, started, kickoff>>

MakeClients ==
  /\ phase = "table" /\ phase' = "made"
  /\ table' = TableOf[config]
  /\ total' = Len(table')
  /\ UNCHANGED <<config, at, startVars, cancelled, stalled>>
  /\ UNCHANGED <<rate, start, startCount, jobs, kicked, started, kickoff>>

\* Channels, heaps and pools; then the server's MAC is parsed and the
\* interface looked up, and a mistake in either ends the function.
MakeRunData ==
  /\ phase = "made"
  /\ phase' = IF config.valid THEN "workers" ELSE "returned"
  /\ UNCHANGED <<config, table, at, startVars, cancelled, stalled, softVars>>

-----------------------------------------------------------------------------
\* The starter.

\* Mutant: the workers are started without waiting for one another.
SpawnAllAtOnce ==
  /\ Alive /\ phase = "workers" /\ at \in Worker
  /\ worker' = [worker EXCEPT ![at] = "spawned"]
  /\ tasks' = tasks \cup {at} /\ at' = at + 1
  /\ UNCHANGED <<config, table, phase, awaiting, cancelled, stalled, softVars>>

Spawn ==
  /\ Alive /\ phase = "workers" /\ at \in Worker /\ ~awaiting
  /\ worker' = [worker EXCEPT ![at] = "spawned"]
  /\ tasks' = tasks \cup {at}
  /\ IF Stage[at] = "counter" THEN at' = at + 1 /\ UNCHANGED awaiting
                              ELSE awaiting' = TRUE /\ UNCHANGED at
  /\ UNCHANGED <<config, table, phase, cancelled, stalled, softVars>>

Handshake ==
  /\ Alive /\ awaiting /\ worker[at] = "ready"
  /\ worker' = [worker EXCEPT ![at] = "running"]
  /\ awaiting' = FALSE /\ at' = at + 1
  /\ UNCHANGED <<config, table, phase, tasks, cancelled, stalled, softVars>>

\* Mutant: the starter receives the message without a select.
GiveUpNever ==
  /\ Alive /\ awaiting /\ cancelled /\ worker[at] = "ready"
  /\ awaiting' = FALSE /\ at' = Len(Stage) + 1
  /\ UNCHANGED <<config, table, phase, worker, tasks, cancelled, stalled, softVars>>

\* The context is done: the rest of the function's workers is skipped, the
\* next function is called all the same.
GiveUp ==
  /\ Alive /\ awaiting /\ cancelled
  /\ awaiting' = FALSE
  /\ \E next \in (at + 1)..(Len(Stage) + 1) :
       /\ next \in Worker => StartedBy(next) # StartedBy(at)
       /\ \A w \in (at + 1)..(next - 1) : StartedBy(w) = StartedBy(at)
       /\ at' = next
  /\ UNCHANGED <<config, table, phase, worker, tasks, cancelled, stalled, softVars>>

AllStarted ==
  /\ Alive /\ phase = "workers" /\ at = Len(Stage) + 1
  /\ phase' = "kickoff"
  /\ UNCHANGED <<config, table, at, startVars, cancelled, stalled, softVars>>

\* Mutant: the context is not looked at.
KickRoundAlways ==
  /\ Alive /\ phase = "kickoff"
  /\ Round
  /\ phase' = IF kickoff' = "done" THEN "waiting" ELSE "kickoff"
  /\ UNCHANGED <<config, table, at, startVars, cancelled, stalled>>

\* The kickoff loop looks at the context at the head of every turn.
KickRound ==
  /\ Alive /\ phase = "kickoff" /\ ~cancelled
  /\ Round
  /\ phase' = IF kickoff' = "done" THEN "waiting" ELSE "kickoff"
  /\ UNCHANGED <<config, table, at, startVars, cancelled, stalled>>

Abandon ==
  /\ Alive /\ phase = "kickoff" /\ kickoff = "rounds" /\ cancelled
  /\ phase' = "returned"
  /\ UNCHANGED <<config, table, at, startVars, cancelled, stalled, softVars>>

KickWake == Alive /\ Wake /\ UNCHANGED <<mainVars, startVars, cancelled, stalled>>

\* A range's goroutine pushes its next client: it waits for room in the channel
\* of the client's processor, for ever when that has stalled.
KickClient(j) ==
  /\ Alive /\ ProcessorOf(j.i) \notin stalled
  /\ Kick(j)
  /\ UNCHANGED <<mainVars, startVars, cancelled, stalled>>

\* cfg.Eg.Wait()
Return ==
  /\ Alive /\ phase = "waiting" /\ tasks = {}
  /\ phase' = "returned"
  /\ UNCHANGED <<config, table, at, startVars, cancelled, stalled, softVars>>

\* main returns too: whatever the goroutines had ahead is not done any more.
Exit ==
  /\ Alive /\ phase = "returned"
  /\ phase' = "exited"
  /\ UNCHANGED <<config, table, at, startVars, cancelled, stalled, softVars>>

-----------------------------------------------------------------------------
\* The workers.

\* append(cfg.PerfProfilers, &profiler) reads the slice and writes it back
\* without a lock; "appending" lasts from the one to the other.
BeginAppend(w) ==
  /\ Alive /\ worker[w] = "spawned"
  /\ worker' = [worker EXCEPT ![w] = "appending"]
  /\ UNCHANGED <<mainVars, awaiting, tasks, cancelled, stalled, softVars>>

\* RX and TX have their ring to open, the counter has no handshake.
EndAppend(w) ==
  /\ Alive /\ worker[w] = "appending"
  /\ worker' = [worker EXCEPT ![w] = IF OpensRing(w) THEN "opening"
                                     ELSE IF Stage[w] = "counter" THEN "running"
                                     ELSE "ready"]
  /\ UNCHANGED <<mainVars, awaiting, tasks, cancelled, stalled, softVars>>

\* NewRing and the calls that set the ring up.
OpenRing(w) ==
  /\ Alive /\ worker[w] = "opening"
  /\ \E result \in {"ready", "failed"} : worker' = [worker EXCEPT ![w] = result]
  /\ UNCHANGED <<mainVars, awaiting, tasks, cancelled, stalled, softVars>>

\* The task's select: RX and TX are in it from the start, the others once they
\* have appended their profiler.  An error of the task cancels the context.
TaskReturns(w) ==
  /\ Alive /\ w \in tasks
  /\ OpensRing(w) \/ worker[w] \in {"ready", "running"}
  /\ cancelled \/ worker[w] = "failed"
  /\ tasks' = tasks \ {w}
  /\ cancelled' = TRUE
  /\ UNCHANGED <<mainVars, awaiting, worker, stalled, softVars>>

\* A retransmit processor that has a client to send for puts the operations its
\* own handler makes into its own channel, and waits when that is full.
Stall(p) ==
  /\ Alive /\ p \notin stalled
  /\ \E c \in Client : kicked[c] > 0 /\ ProcessorOf(c) = p
  /\ stalled' = stalled \cup {p}
  /\ UNCHANGED <<mainVars, startVars, cancelled, softVars>>

\* TimeoutSec has passed (main.go).
Timeout ==
  /\ Alive /\ phase # "returned" /\ ~cancelled
  /\ cancelled' = TRUE
  /\ UNCHANGED <<mainVars, startVars, stalled, softVars>>

Starter == \/ MakeClients \/ MakeRunData \/ Spawn \/ Handshake \/ GiveUp
           \/ AllStarted \/ KickRound \/ Abandon \/ KickWake \/ Return \/ Exit
Work(w) == BeginAppend(w) \/ EndAppend(w) \/ OpenRing(w) \/ TaskReturns(w)

Next == Starter \/ Timeout \/ (\E w \in Worker : Work(w))
        \/ (\E j \in jobs : KickClient(j)) \/ \E p \in Processor : Stall(p)

\* Something goes on as long as anything can: no step is ever undone, so this
\* is all that scheduling and the context's timer have to give.
Spec == Init /\ [][Next]_vars /\ WF_vars(Next)

-----------------------------------------------------------------------------
TypeOK ==
  /\ config \in Config /\ Len(table) = total
  /\ phase \in {"table", "made", "workers", "kickoff", "waiting", "returned",
             "exited"}
  /\ at \in 1..(Len(Stage) + 1) /\ awaiting \in BOOLEAN
  /\ worker \in [Worker -> {"none", "spawned", "appending", "opening", "ready",
                            "running", "failed"}]
  /\ tasks \subseteq Worker /\ cancelled \in BOOLEAN /\ stalled \subseteq Processor
  /\ SoftTypeOK

\* The table is the arithmetic progression from ClientIPStart to ClientIPEnd,
\* both included, also where the last digits overflow and where the step would
\* leave the address space or the IPv4 prefix (StartClientGen's loop).
TableIsRange ==
  phase = "made" =>
    LET first == Number(config.from, Digits)
        last == IF IsV4(config.from) <=> IsV4(config.to)
                THEN Number(config.to, Digits) ELSE -1
    IN  /\ \A i \in 1..total : /\ Number(table[i], Digits) = first + (i - 1) * config.step
                               /\ Number(table[i], Digits) <= last
        /\ first + total * config.step > last

\* A packet for a simulated client is found to be that client's, and of the
\* addresses less than half a uint64 beyond the first one none other is:
\* getClientFromIP inverts the table.  Addresses below the first, and those
\* further up, which the subtraction takes modulo 2^64 (clientData.go:332-333),
\* may be taken for a client's and are not spoken of.
LookupInvertsTable ==
  phase = "made" /\ total > 0 =>
    /\ \A i \in 1..total : GetClientFromIP(table, config.step, table[i]) = i - 1
    /\ \A a \in Address :
         LET distance == Number(a, Digits) - Number(config.from, Digits)
         IN  /\ distance \in 0..(TwoTo64 \div 2 - 1)
             /\ \A i \in 1..total : table[i] # a
             => GetClientFromIP(table, config.step, a) = NoClient

\* No client is pushed before every worker runs: whatever is cancelled or
\* fails while the workers start, the kickoff sees it before its first range.
WorkersBeforeClients ==
  jobs # {} => \A w \in Worker : Stage[w] = "counter" \/ worker[w] = "running"

\* Up to cancellation no two appends to PerfProfilers overlap, though nothing
\* locks it: the handshakes keep the workers' starts one after the other.
AppendsApart ==
  ~cancelled => \A v, w \in Worker :
                  worker[v] = "appending" /\ worker[w] = "appending" => v = w

\* StartClientGen returns and the program ends, whatever fails to start and
\* wherever processors and goroutines wait for ever; only an empty table can end
\* it otherwise.
Terminates == <>(phase = "exited" \/ (kickoff = "panicked" /\ total = 0))
=============================================================================
