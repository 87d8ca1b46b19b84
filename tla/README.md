# Formal models of clientgen

clientgen plays thousands of PTP unicast clients against one server. Every client
asks for three grants, retransmits what is not answered, measures with DelayReq once
it has them and may start over when they lapse. The program is written in Go:
goroutines, bounded channels, timer heaps, one semaphore per client. This directory
holds TLA+ models of its parts, the TLC configurations that check them on small
instances and proofs, checked by TLAPS, of what holds at every size.

Line numbers below refer to `src/` (`client.go` is `src/clientgenlib/client.go`).

## 1. Inventory

| Component | State it keeps | Operations | What is hard |
|---|---|---|---|
| Client grant engine (`client.go` 391-535, 537-784) | per client: `state`, `laststate`, `timeDoneInit`, sequence numbers, two timers | grant received, retransmit, restart | packet, retransmit and restart goroutines act on one client at once; the state is read under a semaphore and used after it |
| Parallel timer heaps (`client.go` 267-307, 866-1019) | one heap and one bounded `operationChan` per processor | push, remove (queued), apply, pop | operations on one timer from several threads arrive in another order than they were meant; handlers wait while a channel is full, and the retransmit processor sends on its own |
| timeHeap (`timeHeap.go`) | slots, and in every timer its position | insert, update, remove, pop | positions must follow every swap; an inner removal may sift either way |
| Soft-start kickoff (`client.go` 179-216) | rest of the second's budget, next index | push ranges of clients | uint64 arithmetic; ranges pushed by goroutines at once |
| Client addressing (`clientData.go` 304-395, `client.go` 223-250) | none (pure) | next address, containment, address to client | carries, steps larger than one, distances that exceed an int |
| Packet pipeline (`ioWkr.go`, `packetParser.go`, `packetProcessor.go`) | bounded channels, pools, round-robin counters | RX, parse, process, TX | back pressure, buffers returned while read, counter wrap |
| Startup and shutdown (`client.go` 44-221, `main.go`, `ioWkr.go`) | errgroup, context, start handshakes | start workers, cancel | cancellation during a handler or during start-up |
| Counters and latency (`counterProcessor.go`) | counters, per-client times | print, compute latencies | times written by other goroutines are paired afterwards |
| Profiler (`perfMeas.go`) | ticks, periods | Init, Tick, Tock | the period's end and Tock share the sum and only one of them takes the mutex |
| Request builders, PTP codec (`requests.go`, `src/protocol/`) | none (pure) | build, marshal, unmarshal | TLV types and lengths, padding |
| Management client (`management_client.go`) | sequence number, connection | Communicate | late answers |
| TX timestamp reader (`timestamp_linux.go`) | socket error queue | read with retries | a timestamp that comes after the retries |
| Web server (`webserver.go`) | `isRunning`, `cancelFunc`, configuration and its file, statistics | start, stop, status, get and post configuration | generators outlive a stop; the flag of one is cleared by another; a start waits for one mutex with the other held; torn file |
| Web page (`app.js`) | its own `isRunning` | toggle, reload | copies of the server's state go stale; requests and answers get lost |
| `pfring_example/`, documents | | | not part of the program |

How they interact: the kickoff, the packet processors and the restart processors all
push and remove a client's retransmit timer through the channel of the retransmit
processor the client belongs to (`index % NumClientRetransmitProcs`); a DelayResp
grant pushes the restart timer the same way. RX workers feed parsers, parsers feed
packet processors, whose handlers call the engine; the engine hands packets to TX
workers. The counter goroutine reads what all of them write. The web server runs a
simulated generator of its own and does not call clientgenlib.

What makes the parts correct:

- *Engine*: a client is never forgotten; a client that is Done starts over when it
  should; in every round requests go out in order, none skipped; retransmission
  goes on until the grants are there; resend counters count resends.
- *Heaps*: positions and slots agree; the head is earliest; pops are in order.
- *Kickoff, addressing*: no client twice, no index out of range; every
  client's address leads to that client and no foreign address does.
- *Pipeline*: what is received is handled once, a pooled buffer has one owner,
  nobody waits on everybody.
- *Web*: the flag tells the truth, one generator at a time, a stop reaches what
  runs, who started it knows, what was saved is what is loaded.

The hazards, each at its line and with the properties that cover it, are listed in
`PROJECT.json`.

## 2. Modules

| Module | Models | Status |
|---|---|---|
| `ClientEngine` | the grant engine with its packet, retransmit and restart goroutines, the operation channels and the kickoff | built |
| `RequestRounds` | the engine with the history of what each client asked for since its last restart | built |
| `ClientEngineProofs` | theorems about both | built |
| `MCRequestRounds` | symmetry and view of its instance for TLC | built |
| `TimerSet` | what a timer heap promises: a set of armed timers, the earliest is popped | built |
| `TimeHeap`, `MCTimeHeap` | `timeHeap.go` on `container/heap`, refining `TimerSet` | built |
| `TimeHeapProofs` | theorems about it | built |
| `WebServer`, `WebPage` | run control and configuration of the server; pages that use it | built |
| `WebProofs` | theorems about both | built |
| `ClientAddressing` | the address functions and the table of clients, on addresses of a few digits | built |
| `AddressProofs` | addresses as numbers: the loop makes a progression, the lookup undoes it | built |
| `SoftStart` | the kickoff's loop and its goroutines in fixed-width arithmetic | built |
| `Startup`, `MCStartup` | `StartClientGen` from table to return and the end of the process, its workers and the context | built |
| `StartupProofs` | theorems about the kickoff and about all of the start | built |
| `SignalingCodec` | the request builders and the codec, down to lengths and TLV offsets | built |
| `CodecProofs` | decoding undoes encoding | built |
| `Pipeline`, `MCPipeline` | RX, parsers, processors and TX with channels, pools and pickers, and the heap operations handlers wait to send | built |
| `PipelineProofs` | theorems about it | built |
| `TxTimestamp` | reading TX timestamps from the error queue | built |
| `MgmtClient` | calls of the management client | built |
| `Profiler` | the busy profiler | built |
| `MCMeasurements` | the last three side by side | built |
| `MeasurementProofs` | theorems about them | built |

`RequestRounds` extends `ClientEngine` and `WebPage` extends `WebServer`; `TimeHeap` instantiates `TimerSet`; `Startup` composes
`ClientAddressing` and `SoftStart`; `Pipeline` extends `SignalingCodec`. `ClientEngine`
uses a heap by what `TimerSet` promises: a timer is armed or not, and an operation
changes only the timer it names.

### ClientEngine

One action per step of a handler at which another goroutine can come in between:

| Code | Action |
|---|---|
| kickoff goroutines, 196-200 | `Kickoff` |
| grant TLV, 616-676 | `ReceiveGrant`, then `PushRestart` (678-682, DelayResp only) |
| `removeClientRetransmit` | `RemoveRetransmit` |
| `handleRetransmit` 396-403 | `ReadState` |
| Done branch, 403-435 | `CheckDone`, then `Rearm` |
| request branches, 436-477 | `CountRequest` |
| 485-498 | `MarkAndSend` |
| `pushClientRetransmit` at the end, 502 (432 when Done) | `Rearm` |
| retransmit loop: an operation, 887-903; an expired timer, 904-923 | `ApplyRetransOp`, `PopRetransTimer` |
| restart loop: an operation, 968-977; an expired timer, 978-994 | `ApplyRestartOp`, `PopRestartTimer` |
| `handleRestart` under the semaphore | `ResetClient`, then `RemoveRetransmit` and `handleRetransmit` |

`th[t]` is where goroutine `t` stands and the `curState` it holds. A channel is a
sequence with a capacity; a send waits while it is full.

What is abstracted, and why that is sound here:

- Timers carry no clock: a retransmit timer that is armed may have expired. That
  allows every order the clock allows, and more.
- `lapsed[c]` stands for `time.Since(cl.timeDoneInit) > DurationSec`. A restart timer
  is armed for `DurationSec` and `TimeAfterDurationBeforeRestartSec` after the grant, so
  it expires only when the grant lapsed, unless a later grant's operation is still on
  its way (`RestartOpPending`). This assumes the margin is longer than the time between the
  handler's two clock reads (674 and 680).
- The server may answer a sent request at any time, or never; with
  `DuplicatingServer` any number of times. A denied grant (612-615) changes nothing and
  is an answer that never comes. Without it, equal outstanding requests count as one.
- Sequence numbers are sent but never compared with anything. TX channels always
  drain, so the DelayReq of a Done client and its re-arm are one step.
- `reqs` and `resends` remember which of the request and resend counters of a client
  are above zero, the only thing the properties ask.

`RequestRounds` adds a history that changes nothing in the engine (`RoundsWatch` proves it):
`asked` holds the requests a client counted since its last restart, `late` the clients that got, in this round, a
grant this round did not ask for, `carried` the threads that chose a request before their client
restarted and count it afterwards. `RequestChain` says that a client that is not `late` has asked in this round
for the grant it counts as having and for all before it. A late client is excused because the code takes any grant as
new (651-688): an answer of an earlier round can take a client that just restarted straight to Done.
The order is that of the code, Announce before Sync before DelayResp (436-484). README.md:57-59 tells of the
Sync grant first; what matters to the properties is that one order is kept, and no run is about the difference.

### TimeHeap

`container/heap` is not part of the repository; its loops are modelled one swap at a time
from its documented behaviour, because `Less` and `Swap` are the repository's. `at`
is the position being sifted, `root` where `down` started, `bound` the first slot
`down` may not touch. `Cut` is `timeHeap.Pop`. The processors peek before they pop, so
`SafePop` is not modelled on an empty heap. Times are naturals; only their order matters.

### WebServer, WebPage

A step is what a handler does without waiting; where it waits with a mutex held, the model does too.

| Code (`webserver.go`) | Action |
|---|---|
| `handleStart` takes `runMutex`, looks at the flag, 308-314 | `StartLock` (`starting`: it holds `runMutex`) |
| it gets `configMutex` and starts the generator, 316-356 | `Start` |
| `handleStop`, 360-385 | `Stop` |
| the generator's `select`, its deferred function | `Wake`, `TimeOut`, `Leave` (needs `runMutex`) |
| `POST /api/config` takes `configMutex`, 218 | `PostLock` |
| its body is read and decoded, the file created, 221-236, 408-413 | `PostBody` (a body need not ever arrive) |
| the file is written | `WriteConfig` |
| the process dies and starts again | `Crash`, between any two steps |

The configuration holds the default or what was posted; a broken file and none are the same to
`loadDefaultConfig`. A start for which no slot for a generator is left does not happen (a bound on
generators alive at once, not on starts).

A page knows `isRunning` only from its own successful clicks; a reloaded page is a new page. A page in
`Unreliable` may lose its fetch at any moment (`Lose`, the `catch` at `app.js:277`): the request may never
arrive, arrive later (`adrift`, `ServeAdrift`; at most one at a time), be in the server's hands, or have been served
and its answer lost. Then the system may run and no page show it, which is what the code does. `starter` remembers the page
that was or will be told that it started what runs; `StarterShowsIt` is about that page.

### ClientAddressing, SoftStart, Startup

`ClientAddressing` is pure. An address has `Digits` digits in base `Base` instead of 16 bytes, an
IPv4 one has the prefix Go gives it, and a uint64 has `HalfDigits` digits, so that carries,
the end of the IPv4 range, the end of the address space and the truncation of distances
all occur among 256 addresses.

`SoftStart` follows the loop at `client.go:173-216`: `Round` is one turn (end of the range, goroutine
launched, rate counted down), `Wake` the end of the sleep, `Kick` the push of one client by a
range's goroutine. Every sum and difference goes through `Wrap`.

`Startup` puts the rest of `StartClientGen` around it:

| Code | Action |
|---|---|
| addresses to clients, 46-69 | `MakeClients` |
| channels, heaps, MAC and interface, 74-159 | `MakeRunData` (a mistake in the settings ends the function) |
| `cfg.Eg.Go` of a worker, its handshake, the context in the starter's `select` | `Spawn`, `Handshake`, `GiveUp` |
| the kickoff, its look at the context | `AllStarted`, `KickRound`, `KickWake`, `Abandon` |
| a range's goroutine pushes a client (`pushClientRetransmit` waits for room, 278) | `KickClient`, unless the client's processor has stalled |
| a retransmit processor fills its own channel | `Stall`, at any time once it has a client |
| `cfg.Eg.Wait()` | `Return` |
| `main` returns (`main.go:83-84`) | `Exit`: nothing happens afterwards |
| a worker: append its profiler, open its ring | `BeginAppend`, `EndAppend`, `OpenRing` |
| a task's `select` | `TaskReturns` |
| `TimeoutSec` (`main.go`) | `Timeout` |

A range's goroutine is not in the errgroup, so clients that are not pushed when `main` returns are
never pushed. A worker's inner goroutine never looks at the context, so it has no end. The profiler's own errgroup
tasks end with the context, as their workers' tasks do, and are counted with them. The PF_RING stub always fails
to open a ring; the model lets a ring open or fail, which is what the code around the
stub is written for.

### SignalingCodec, Pipeline

The bytes of a message are abstracted to what decoding asks of them: their number, the header's
fields and which TLV starts at which offset. Two spare bytes after every message are part of
`Bytes`, as in the code.

In `Pipeline` a step ends wherever a worker can wait: `RxRead` and `RxSend`, `Parse` and `ParserSend`,
`Process`, `PushOp`, `Make`, `Send` and `ProcessEnd`, `ApplyOp`, `Transmit` and `TransmitEnd`. Buffers are numbers; the
pools, the channels and the workers hold them, and their contents (`inPacket`, `decoder`, `outPacket`:
functions on the buffers there are) stay when they are put
back, as in Go: a decoder that is used again still has the fields of its last packet. Every packet
made has a name, the packet it answers and its number among those answers, by which `made` remembers what it was
meant to be and how it was sent. The wire is assumed to carry whole packets, and messages a correct server
writes: every TLV as long as its type, `MessageLength` what was written (`IsPacket`, `IsMessage`). The round-robin
counters are `uint32` of `Word32` values. The timestamp RX gives a packet is its number in `arrivals`, by
which `outcome` remembers what each packet was handled as. The client's state
is `ClientEngine`'s; here a grant makes the next request, and the producer `Engine` is the
retransmit processor, which sends through the same TX channels.

`ops` are the heap operations a producer has to send before its next packet, in the code's order: a grant's
restart and removal come before the request it leads to (`Before`, 661-688), the insertion after it (`After`, 502), except that a
DelayReq's insertion comes before its packet (432-433). The model takes the DelayReq's buffer after these
operations, the code before them: from then on it is the producer's alone, and filled whole, in both. `queued` counts what is in each heap's channel;
which client an operation is about is `ClientEngine`'s. The retransmit processor empties its channel only between two of its own
requests (`ApplyOp`) and looks at its due clients only when the channel is empty (`CanMake`, the `select`'s `default`).
There is one retransmit and one restart processor, and timers that are armed do not become due while the
packets are on their way, so the restart processor only takes operations.

`HandledAsReceived` compares what a handler did with `Promised`, which looks at the packet as it
was on the wire and the message as it was sent, without buffer, decoder or codec; the rules of
what a message asks for (`HandlePTP`) are shared by the two and are not what it checks.

### TxTimestamp, MgmtClient, Profiler

They share nothing; the kernel's error queue, the server and the clock are external
(`Arrive`, `ServerAnswers`, `TimePasses`) and may be late or, the first two, silent.
`Attempt` is one turn of the loop at `timestamp_linux.go:226-256`. A stamp
that comes means that those of earlier packets are lost, so stamps come in the order of their packets.
`SendRequest` is the first half of a call, `ReadAnswer` or `ReadFails` the second. `TockReads` and `TockWrites`
are the two halves of `+=`, and the end of a period is the four steps `PeriodMeasures`, `PeriodShares`, `PeriodResets`
and `PeriodRestarts` (`perfMeas.go:70`, 72, 73-74, 76): Tock does not take the mutex, so the two mix in every way.
The ticker holds one tick (`due`), which may be handled late, so that a shorter period follows.
`foreign`, `added` and `lastAdded` remember whether work was added to a period that is not wholly within its measured
length.

## 3. Runs

| Run | Instance | Shows |
|---|---|---|
| `engine_safety` | 1 client, 2 packet processors, 1 retransmit and 1 restart processor, channels of 2, a server that repeats answers | no client forgotten, a restart ahead of every Done client, each round's requests in order |
| `engine_live` | 1 client, 1 packet processor, channels of 4, `PromptHandlers` | retransmission until Done, Done again and again, starting over |
| `engine_stall` | 2 clients, channels of 1 | *violation*: a retransmit processor waits for room in its own channel |
| `engine_resend` | 1 client, 1 packet processor | *violation*: a first request counted as a resend |
| `time_heap` | 6 timers, 2 times | positions, head, order of pops, refinement of `TimerSet` |
| `web_control` | 2 pages, one of them with a connection that breaks, 2 generators alive at once, 1 goroutine that posts 1 configuration besides the default, failures and crashes | a stop reaches what runs, its starter shows it, a restart loads what is used, a stopped generator ends if posted bodies do |
| `web_status` | 1 page, 2 generators | *violation*: status "stopped" while a generator runs |
| `web_page_stuck` | 1 page | *violation*: a page that can never start again |
| `startup` | 4 digits in base 4, uint64 of 2 digits, batches of 2, at most 4 clients, 6 workers; ranges that carry, are empty, mix families or end with their space | the table, its inverse, no client pushed twice, in range and at the rate, after every worker |
| `pipeline` | 2 clients, 2 parsers, 2 processors, 1 RX and 1 TX worker, channels of 1 buffer, heap channels of 1 operation; packets of 18 sorts in pairs and threes | each handled once as its content asks, one owner per buffer, what is made is sent; nothing waits for ever but on a retransmit processor that waits for itself |
| `latency` | the same with one request and its answer | *violation*: the latency of an answered request is never there to print |
| `measurements` | 4 packets and 4 attempts, 4 calls and 2 data sets, a clock of 8 with periods of 3 | what a stamp, an answer, a share of busy time may be mistaken for, and after what |

Bounds. One client is enough for the safety of a client's own timers because clients meet
only in the channels: what another client does there is to fill them, which the capacity of 2
against up to four threads that send already does. A client's restart and the answers of the round before it
are within the one client, and the rounds are not bounded. Two packet processors are needed for two
grants of one client at once (the pipeline spreads a client's packets over the processors).
`OpQueueSize` stands for 10000. The proofs below hold for all of these sizes. Six timers are
the least with which removing an inner timer makes the last one go *up*: it must come from
another subtree. Two generators suffice to have an old one clear the flag of a new one,
and slots are used again, so the number of starts is not bounded. Two pages are what it takes for one to
disturb what another was told; one POST at a time holds `configMutex`, whoever sent it, and a second configuration is
the default one.

Startup: the base and the digits are the smallest with which an IPv4 range carries out of its
last digit, ranges end with the IPv4 and with the whole address space, and distances exceed the word.
Ranges with 3 steps and all ends that fit are tried for the table (`valid = FALSE`: the function
ends there). The kickoff runs without clients, and with 4, two batches, at rates of zero (the first range takes
all), a batch, a batch and a half, and the largest. RX and TX share a function, as retransmit and restart
do, so that giving up skips a worker; the packet processors start like the parsers. There are two retransmit processors, so that
one can stall while the other goes on.

Pipeline: two packets are what it takes for one to find what the other left in a buffer, three and two
due clients fill the channels of one. A message with two grants, or a Done client's with its three operations, fills
a heap's channel of one while the processor of the other channel waits; both a stalled retransmit
processor and one that only waits occur. The pickers start at 7 of 8, so the first
increment wraps. One RX worker: the ring delivers in any order, which more workers would
add nothing to. `MaxBuffers` is as many as there are packets.

Measurements: a stamp that is late by one, by two, and a queue longer than the attempts all need four
packets or fewer. Sequence numbers wrap at 3. Two whole periods and part of a third leave room for work over one and two ends.

`SYMMETRY` is used only without liveness properties. `VIEW WithoutResends` leaves `laststate`, `reqs`
and `resends` out of the fingerprint: the first two feed `resends`, which feeds nothing, and no
property of that run mentions them. It also leaves out what a late client asked for, which nothing reads before its next round. Deadlock is not checked for the engine because it
really stops: without restarts when all grants lapsed, and in `engine_stall`'s situation. Neither is it
for the start, the pipeline and the measurements, which end when there is nothing left to do.

Fairness. Every goroutine that can take a step takes one (weak fairness per goroutine). A heap
serves timers in the order of their time, so a client's timer is not passed over for ever
(strong fairness of its pop). Time passes (`GrantLapses`). `PromptHandlers`, used by
`engine_live` only, says that what one answer or restart sets off is over before the next
answer or restart, and that a grant does not lapse during it: channels of 10000 and grants of
seconds make that the normal case, and without it `engine_stall` shows what happens.
`ReachesDone` assumes a server that answers every kind of request it keeps getting. For the web:
users keep clicking, the server answers, goroutines run; timeouts may or may not come. Go's mutexes starve nobody,
so a start that waits for `configMutex` and a generator that waits for `runMutex` get it if it is free
again and again (strong fairness of `Started` and `Leave`). Nothing makes a POST's body arrive, and the
server sets no time limit: `StoppedEnds` therefore holds only if `configMutex` is free again and again, and
says so. Without that, one POST whose body stays away stops starts, stops and the ends of generators.

In `startup` and `pipeline` no step is ever undone (a worker, packet or client only gets further), so
every behaviour is finite and `WF_vars(Next)`, that something goes on while something can, is all they need.
It makes the context's timer go off when nothing else is left, which is how a run of the
program ends. In `pipeline` the operations a handler sends are finite as well. `AllHandled` and `AllSent` excuse one situation, named
`EngineStuck`: the retransmit processor waits for room in the channel only it empties, which is `engine_stall`'s
and stops the processors, parsers and RX workers behind it. Every other full channel only delays. That every client
is pushed in the end is not claimed: the context may be cancelled and the process end before it. `ReadEnds` needs only that the reader itself goes on (`TxFairness`); stamps may never come.

## 4. Findings

- `engine_stall` (`client.go:278`): the retransmit processor runs `handleRetransmit` itself and
  that sends on the channel only this processor drains. README.md:101 promises retransmission.
- `engine_resend` (`client.go:485`): `laststate` is taken from a second, later read of the state.
  The comment at 401 calls the race harmless; the resend counters are wrong by it.
- `web_status` (`webserver.go:333`): the deferred `isRunning = false` of a stopped generator
  clears the flag of the next one.
- `web_page_stuck` (`app.js:267`): the page never asks `/api/status`. WEB_INTERFACE.md:9 promises control
  with one click.
- `latency` (`ioWkr.go:371`): requests ask for a timestamp, and the time of a packet that does is
  not noted when it is sent; the place meant for it (`client.go:548-592`) is for packets with
  `fromTX`, which no packet has. README.md:191 promises latencies.

One more difference between document and code has no run: README.md:57-59 of the repository asks for the Sync
grant before the Announce grant, the code for the Announce grant first (`client.go:436-484`).

## 5. Proofs

All theorems hold for every value of the constants that satisfies the assumptions named in the
modules. `ClientEngineProofs`:

- `TypeCorrect`: `TypeOK`. It needs that a thread which chose a request did so for a state that
  has one (`RequestingState`); channel lengths follow from the guard of a send.
- `ClientsNeverForgotten`: `NeverForgotten`. The invariant says more than the property: whenever
  the last operation queued for a client is a remove, some thread still owes it an insert
  (`KeptInv`); with no operation queued the timer itself counts. `Routed` says that
  every operation stands in the queue of its client's processor, so applying one touches no other
  client, and `TypeInv` carries the types.
- `RestartsAhead`: `RestartAhead`, with the fact that nothing ever queues a remove for a
  restart timer (`InsertsOnly`).
- `RoundsWatch`: every step of `RequestRounds` is one of the engine, so the theorems above hold for it.
- `RequestsChained`: `RequestChain`, from `RoundInv`: a client that is not late, or a thread that chose a request for it
  in this round (`Choosing`), is preceded by all earlier requests of this round.

`TimeHeapProofs`, for heaps of any size and depth. The invariant is `Basic /\ Order /\ MinLast`:

- `Basic` holds the types, `IndexConsistent` and `Control`, which bounds where the loops stand.
  It gives `HeapTypeCorrect` and `PositionsAgree`.
- `Order` says that every slot but those around the one being sifted is in order with its parent,
  and that around it grandparent and grandchild are; without the second half a swap could not be
  shown to mend the order. `MinLast` says that the timer a pop will return waits behind the heap
  and is no later than any in it.
- That order along the edges makes the first slot the least (`Least`) goes down the tree, by
  well-foundedness of `<` on the naturals applied to the least slot that is earlier than the head.
  `HeadEarliest` is that with no sifting under way.
- `PopsInOrder` is the refinement: the end of a removal disarms a timer of `TimerSet`, the end of a
  pop takes its earliest, an insert or update arms one, and every swap is a stutter.

`WebProofs`, for any number of pages, generators and posting goroutines:

- `StopReaches` and `RestartLoads` are theorems about `WebServer` alone. `RestartLoads` needs that the
  configuration in use while the file is being written was posted (`PostedInUse`).
- `PagesUseServer`: every step of `WebPage` is one of `WebServer` or leaves it alone, which carries
  them over to the pages.
- `RunningIsShown` (`StarterShowsIt`) needs that a page asks for what its copy called for (`AskedByCopy`) and that while a
  start holds `runMutex` nothing runs (`StartsWhenIdle`): then a page whose start is refused,
  or whose request is served after it gave up, is not the one that was told.
- `WebTypeCorrect`: the types of both.

`AddressProofs`, for any even base and numbers of digits (16 bytes, 4 of them IPv4 and 8 in a uint64, are one case):

- The recursive functions of `ClientAddressing` are functions that satisfy their equations because
  `RecursionExists` makes them, from the least argument without a value. `NumberBound`: what digits
  write is below the number of values they have. Comparing the bytes is comparing the numbers, and one turn of
  the carry loop adds one to the number unless all digits overflow.
- `TableIsProgression`: the loop ends, and its table is the arithmetic progression from the first address up to the last
  one that fits (`IsRange`); it is empty if the ends are of different families.
- `LookupFinds` and `LookupRejectsNearby`: the quotient is the index, and an address less than 2^63 beyond the first that has an
  index is one of the table. Of addresses further off or below the first nothing is said, see section 6. For IPv4
  the subtraction of 32 bits gives the same difference as that of 128.
- The range must be `Plain`: IPv4, or IPv6 without an IPv4-mapped address and no longer than 2^64. Others are not inverted:
  `getClientFromIP` refuses the IPv4-mapped addresses of a table that begins with an IPv6 one, and `Uint64()` drops
  the upper half of a difference. `MCConfig` has only plain ranges.

`StartupProofs`, first the kickoff for any word, batch and number of clients that leaves room for a batch in the word. The
invariant `SoftInv` says what the wrap-around could break: `start` is at most `total`,
all ranges lie below it and no two meet (`Ranges`), and (`Counters`) what was handed over since the last sleep and
what is left make up the rate. The case without clients, where `total - 1` wraps, is kept apart by `total > 0`.

- `SoftTypeCorrect`, `EveryoneOnce` (`KickedOnce`), `NoIndexPanics` (`InRange`), `RateIsKept` (`RateKept`).

Then the whole start, for any list of workers and any settings whose table fits:

- `StartInv` says (`InOrder`) that until the context is done the workers before the one being started
  run, or have no handshake, and that none after it has begun; and that no range exists before the
  workers run. From it follow `WorkersFirst`
  (`WorkersBeforeClients`) and `AppendsNeverMeet` (`AppendsApart`).
- Every step of `Startup` is a step of the kickoff, leaves its variables alone or sets `total` before its first
  step, which carries `KickedOnce`, `InRange` and `RateKept` over (`EveryClientOnce`,
  `KickoffInTable`, `StartRateKept`). Stalled processors and the end of the process only take steps away.
  `StartTypeCorrect`: the types.
- `TableIsTheRange` (`TableIsRange`) and `LookupInverts` (`LookupInvertsTable`, for plain ranges and addresses less than 2^63 beyond the first) come from
  `AddressProofs`; the invariant is that the table is that of the settings until they are looked at (`TableInv`).
  `ConfigAssumption` keeps a table below `MaxClients` entries, which `StartupAssumption` bounds by what a signed
  integer, the type of a length, can say, and its product with a step within an address: 2^63 times 2^64 are less than
  the 2^128 of an IPv6 address. That is also what ends the loop.

`MeasurementProofs`, each for its tool alone:

- `NoShiftWithoutFailure` (`ShiftNeedsFailure`) and `DrainFindsOwnStamp` (`OwnStampFound`) from `TxInv`: the
  results, the stamp in hand, the queue and what is still to come ascend in this order, and a packet whose stamp
  is still ahead of a later read is one whose own read failed.
- `AnswersFit` (`AnswerFits`) from `MgInv`: results, answers and requests ascend (`CallsIncrease`), and
  what is in flight belongs to the call that waits unless one before it failed (`OwnUnlessBroken`).
- `ProfilerWithinPeriod` (`BusyWithinPeriod`) from `PrInv`: the sum, with the work at hand, is no longer than the period
  so far, or than the length measured once it is, unless foreign work was added (`WithinPeriod`), and between the
  reset and the restart the sum is zero unless it was (`Emptied`).
- `MeasurementTypeCorrect`: the types of all three side by side, which share no state.

`CodecProofs`, for messages with any number and mix of TLVs:

- `DecodesWhatWasWritten`: `FromBytes(Bytes(m)) = m` for every well-formed message. Offsets are strictly
  increasing, so that at most one TLV starts at each (`TlvOffset`), and what is read from the
  offset of the i-th TLV on is the rest of the list, by the least number of TLVs left for which it is not. The
  two recursive functions of the codec get their equations the same way, from the least argument
  without a value.

`PipelineProofs`, for any number of workers, packets, buffers and capacity, and any start of the counters. The
properties are not inductive alone: that a packet is handled as received follows from what
the decoder holds, that from what the input buffer held, and both only because nobody else writes to
a buffer while it is on its way. The invariant `IInv` joins

- `TypeOK`, `SingleOwner` and `HandledAsReceived`;
- `Shape`: what is unread has no outcome yet, and what producers have to make are well-formed items;
- `InputOK` and `DecoderOK`: an input buffer on its way holds a packet of `arrivals` and its number; a decoder
  on its way leads the handler to do what was promised of its packet; those packets wait (they are not
  unread and have no outcome), no two buffers or decoders hold the same one, and none is in a buffer and a decoder at
  once, so that it is handled once;
- `OutputOK` and `MadeOK`: an output buffer on its way holds the packet it was made for, no other buffer does,
  and it has not been sent; what has been sent is what was made; names are not given twice.

There is one lemma per action, one for the two about heap operations (`OperationInv`); the three pools share the lemmas about a buffer that is taken, passed on, queued,
received and put back. `DecodesWhatWasWritten` is what joins the message on the wire with the one handled.

- `PipelineTypeOK` (`TypeOK`), `PipelineSingleOwner` (`SingleOwner`), `PipelineHandledAsReceived`
  (`HandledAsReceived`), `PipelineSentAsMade` (`SentAsMade`).

Only model-checked: everything about liveness, which TLAPS cannot do under fairness. Every invariant and action
property of a passing run is a theorem, `LookupInvertsTable` for plain ranges.

## 6. Not modelled

- Formatting, printing and logging; the charts and forms of the page and the statistics of its
  demonstration; command-line flags; `ptp4lconf/` (constants that are only read); `pfring_example/` and the
  documents.
- `fromTX` handling in the packet processors (`client.go:548-592`): the branch exists, no packet
  reaches it, and `HandlePacket` is written for the packets there are. The `latency` run is about its
  consequence.
- The times between Syncs and between Follow-ups, which are only printed; sequence numbers of the
  engine's messages, which nothing compares.
- Two cases of the lookup of addresses stop where the code makes no sense of them:
  `ipSubtract`'s error is dropped, so that an address *below* the first one is taken for the
  first client's, and the distance is cut to 64 bits and converted to an int, so that one of 2^63 or more
  becomes a negative index and an IPv6 address 2^64 above a client's is taken for that client's
  (`clientData.go:332-333`). `GetClientFromIP` models all three; no property claims them to be right. A step of zero and a range of
  all addresses make the loop of the table endless; `ConfigAssumption` has neither. Nor is a packet without a source
  address modelled: layers that were parsed have one. A soft-start rate of zero wraps around and starts
  all clients at once; `RateKept` is about rates above it.
- `perfMeas_test.go:45` wants a share of at most 100 %. The code does not keep that when work begins before a period or
  ends between the steps of its end; `BusyWithinPeriod` says that nothing else breaks it.
- Once the context is done `Acquire` fails on a semaphore that is held, and the handler goes on and
  releases what it does not have (`client.go:396`). No worker looks at the context, and the process
  ends when `StartClientGen` returns; the engine is modelled up to cancellation.
- A packet whose serialisation fails leaves TX an empty buffer (`ioWkr.go:361`); with the layers the
  program itself builds it does not fail. A truncated neighbour solicitation would be handled
  with the target of the decoder's last one; all packets in `MCPipeline` are whole.
- The acknowledgement of a cancelled grant (`requests.go:83`) is modelled as it is built, with the
  cancellation's type; the handler drops it, so no property is about it.
- The RX workers' own ticker of statistics, and the profiler's `CountIdle`, `CountWork` and
  `IsValid`, which have no caller.
- Fixed-layout fields of `src/protocol` (left to `encoding/binary`), conversions of `types.go`, messages
  no handler reads, socket options and control messages of `timestamp_linux.go`: system calls
  and arithmetic on one value.
