# A TLA+ model of zio-benchmarks

zio-benchmarks compares async runtimes (zio, `std.Io` backends, Go, tokio, Asio,
PhotonLibOS) on small concurrent programs. A benchmark number is worth something
only if every variant does the same work and does all of it, so what has to be
right is concurrency: channels, locks, conditions, task groups, barriers,
sockets. These modules model that part of the repository. Paths below are
relative to the repository root, and bare line numbers in a module refer to the
file named in its header.

## 1. Inventory

| Component | State | Operations | What is hard |
|---|---|---|---|
| futex channel, `src/futex_channel.zig` | ring (`buffer`, `head`, `tail`, `count`), `closed`, mutex, two intrusive lists of waiters; per waiter a futex word, `done`, `queued`, a pointer to data | `send`, `receive`, `close`, `wake`, `park` | a wake-up between load and wait; cancellation against a peer that claims the waiter; nodes on the stack of the waiter; capacity 0 |
| queue_ping_pong: 4 Zig programs, Go, tokio, Asio, PhotonLibOS | a counter, two channels per pair, a task group | `pair`, `taskA`, `taskB`, `main` | how a pair ends; `group.async` that may run inline; a spawn that fails halfway |
| worker_pool and `fanout_cpu` (same languages) | a bounded queue, `remaining`, results | `producer`, `consumer`, `main` | who closes the queue and when; sentinels that share the queue with items; cancellation |
| mutex_bench (2 Zig programs, Go, tokio) | a counter, a mutex | `worker`, `run` | lost updates; a frame that workers outlive; options that are only partly obeyed |
| condition_bench (2 Zig programs) | `turn`, mutex, condition | `player`, `run` | a signal after the unlock; spurious wake-ups |
| tcp driver, `driver/tcp_driver.go` | two wait groups, `start`, per connection counts | `connectRetry`, `work`, `main` | barrier with failures; short reads and writes; pipelining |
| tcp servers, 6 programs | listener, one handler per connection | accept loop, echo / sink / source / http | end of stream; server failure; two blocking writers |
| sleep (6 programs), spawn_tree, task_chain | task groups, a counter or a semaphore | start, sleep, count, wait | spawns that fail or fall back to a call; waiting for tasks that do not exist; frames that tasks point into |
| rwlock_bench, yield_bench, cpu_parallel | task groups | spawn, await | nothing the others do not have |
| `bench.py` | loops over rounds, engines, modes and scenarios; server and driver processes; samples | `run_one`, `run_matrix`, `tcp_run_matrix`, `http_run_matrix` | processes that hang or die; one port for all servers; Ctrl-C |
| `utils.zig`, `build.zig`, scripts | none of their own | backend and build selection | nothing a model would show |

The benchmark programs use the channel (or a queue that promises the same)
through its calls; the tcp driver and server meet only in the socket buffers;
`bench.py` starts all of them and reads what they print. Time and output are left
out, and of the options all but those that change what is run.

What makes each component correct: the channel delivers each value once and in
order, never loses a wake-up and never touches a dead frame; the pairs bounce
exactly their share and end; the pool drains every item before a consumer stops
and ends; the mutex loses no update; the players alternate and miss no signal;
the driver starts together, reports only finished work and ends; no task outlives
the frame it points into, and no duration is printed before all tasks have run;
the harness enters a result only for the server it was measured on, and leaves
no server behind that its `finally` clause could have ended.

## 2. Modules

| Module | Models |
|---|---|
| `Channel` | what a bounded channel promises: the abstract specification |
| `FutexChannel` | `src/futex_channel.zig`, step by step |
| `FutexChannelProofs` | theorems about `FutexChannel`, the refinement of `Channel` included |
| `MCFutexChannel`, `MCFutexChannelLive` | symmetry for TLC; the channel with a bounded number of calls and fairness |
| `PingPong`, `PingPongProofs` | all queue_ping_pong programs |
| `WorkerPool`, `WorkerPoolProofs` | all worker_pool programs and `fanout_cpu` |
| `PhotonQueue`, `PhotonQueueProofs` | the queues the PhotonLibOS programs build from semaphores, as implementations of `Channel` |
| `TaskGroups`, `TaskGroupsProofs` | all sleep programs, `spawn_tree`, `task_chain` |
| `BenchHarness`, `BenchHarnessProofs` | `bench.py` and the processes it starts |
| `MCBenchHarness` | a small table of scenarios for TLC |
| `TcpBench`, `TcpBenchProofs` | the driver and the echo, sink and source handlers, composed over socket buffers |
| `MutexBench` | the mutex_bench programs |
| `ConditionBench` | the condition_bench programs |
| `LockBenchProofs` | theorems about `MutexBench` and `ConditionBench` |

A module `...Proofs` extends the module it is about and holds the inductive
invariant, the lemmas and the theorems of section 4; `LockBenchProofs` extends
`MutexBench` and `ConditionBench`, which have no name in common.

### FutexChannel and Channel

Variables carry the names of the fields. A waiter is on the stack of the task
that blocks, so its fields are functions on tasks, and `Return` resets them:
anybody who used them afterwards would use a dead frame. A critical section runs
in one action up to its first call of `wake`, because until then it touches only
what the mutex guards. The two halves of `wake`, the unlock, and in `park` the
load, the entry to `futexWait`, the sleep and the last acquisition of the mutex
are separate actions. A task may be woken spuriously and, in `send` and
`receive`, be canceled while it waits for the mutex or sleeps; the acquisitions
in `close` and at the end of `park` are the uncancelable ones. The runtime's
mutex and futex are external and modelled by what the code relies on: the mutex
excludes, `futexWait` sleeps only if the word still has the expected value.

`Channel` has the calls and one atomic effect per operation (`Accept`,
`Handoff`, `Take`, `TakeAndAccept`, `Refuse`, `Cancel`, `Close`).
`FutexChannel!ImplementsChannel` maps the ring to the sequence of values in it,
and the outcome of a waiter to what its claimer has decided, long before the
waiter itself runs again.

### PingPong and WorkerPool

Both stand on the promises of `Channel`: a send, a receive, a close takes effect
at once. The programs in the different languages share everything except how
they end; that difference is a variable chosen in the initial state and never
changed (`ending`, `stop`), so one run covers all programs. `PingPong` has the
nested groups of `queue_ping_pong.zig`: `main` starts pairs with `concurrent`,
which may fail, a pair starts its tasks with `async`, which a backend may run
inline (`inline`), or with zio's `spawn`, which may fail (`SpawnFails`).
`--pairs=0` means one pair. `WorkerPool` begins with the options: only the Zig
programs refuse `--num-producers=0` and `--num-consumers=0`, and what the others
then do differs. Without producers Go and tokio close the queue and PhotonLibOS
pushes its sentinels, but in Asio nobody is the last producer. Without consumers
tokio's queue is closed before the first push, since nobody holds a receiver, and
Go's `main` waits for nobody and returns under its producers; in Asio and
PhotonLibOS the producers block once the queue is full. A `thread_create` of
PhotonLibOS that fails leaves a task in state "null" that everybody believes in.
In `WorkerPool` the hash of an item is opaque and the xor of hashes is a symmetric
difference of sets.

### PhotonQueue

`Queue` (`cpp/worker_pool_photon.cpp:22-45`) and `Slot`
(`cpp/queue_ping_pong_photon.cpp:16-30`) differ in the mutex, the counters and
the capacity; `kind` chooses one in the initial state. The wait for a permit,
the lock, the access and the signal are separate actions; `tail++` is a load and
a store. `CounterMod` stands for 2^64, where the counters of type `size_t` wrap.
`ImplementsChannel` maps the slots between `head` and what is written but not
yet read to the queue of `Channel`, which is why `PingPong` and `WorkerPool` may
treat these queues like any other channel. The model lets tasks switch anywhere,
as on several vcpus; on the one vcpu of worker_pool they switch less often.

### TaskGroups

A task is its path from `main` (`<<>>`), so that the tree, the chain and the
flat set of sleepers are the same kind of thing, and `GroupOf` says whose group a
task is in: that of its parent in `spawn_tree`, that of `main` elsewhere. What
differs between the programs is what is waited for (tasks that were started, or
signals in the number asked for), what a failed spawn does (cancel and return,
run the task in the call, nothing), and who checks the count.

### BenchHarness

The loop variables of `tcp_run_matrix` are one record; `phase` is the place in
the body of the innermost loop. The table of scenarios is a constant, and
`ByMode` groups it as the loop of `bench.py:361-364` does, one scenario at a
time. An engine that a matrix does not have, or that was excluded, is one that is
not built. A server is identified by the round, engine and
group it was started for, so that one the harness has lost track of would still
be there and could hold the port. `DriverConnects` connects to whoever holds the
port: that this is the right server is a property and not built in. Ctrl-C may
come in every phase and more than once. It runs the `finally` clause when it
arrives in the `try` and ends the harness elsewhere: also between `Popen` and the
`try` (phase "started") and in the clause before `terminate` (phase "finally"),
and there the server of the block is left running. `interrupted` remembers the
phase in which Ctrl-C came, and `NoOrphan` says that these two are the only ones
in which that happens. A result that was printed is kept even if its server has
died since. The ports are free when the harness starts; a foreign process on them
is not modelled.

### TcpBench

Content is never looked at, so a stream is a number of bytes in one of three
places: the kernel's buffer towards the server, the handler, the kernel's buffer
towards the driver. Each read and write moves any number of bytes the buffers
allow. The server may fail to start, to accept or to spawn, at any time, and the
six programs react in three ways: Zig cancels the handlers and resets the
backlog, Go, tokio and PhotonLibOS end the process, in Asio the exception ends
only the accept loop, and the process when the last handler is over
("draining"). In PhotonLibOS a handler that cannot be created leaves a stream
nobody will ever close ("leaked"). `mode` and `pipeline` are chosen initially.
An echo driver that fills its pipeline and a handler that writes its answer may
both be blocked in write; `BothWrite` is that state, and `Fits` says that the
messages in flight fit into the two buffers and the byte the handler holds at
least.

### MutexBench and ConditionBench

`counter.* += 1` is a load and a store. The count that is expected comes from
`--workers`, the number of workers from `--workers` only for threads: both are
kept apart as in the code. `--workers` may be 0, and `handles` has room for
`MaxHandles` threads (16): one more is an overrun, a panic or undefined depending
on the build, and the model stops there. `ConditionBench` has the condition of the
runtime as a place to wait, with spurious wake-ups; the signal is given after the
unlock. In both, tasks that could not all be started are canceled, while threads
are left to themselves when `main` returns ("abandoned").

## 3. Runs

| Run | Instance | Result |
|---|---|---|
| `futex_channel` | 3 tasks, 2 values, 2 slots, any number of calls | 395 952 states (up to symmetry): `RefinementInv`, `NoLostWakeup`, `WakeOnLiveFrame`, `ListsHoldLiveWaiters`, `NoStrandedWaiter`, `ImplementsChannel` hold |
| `futex_channel_unbuffered` | 3 tasks, 2 values, no slot | `IndInv` holds |
| `futex_channel_live` | 3 tasks, 1 slot, 4 calls | `EveryCallSettles`, `CloseReleasesEveryone` hold |
| `ping_pong` | 1 or 2 pairs, totals 1, 7 and 8, all programs | 4 461 states: `OneMessageInFlight`, `NoSendRefused`, `BouncesItsShare`, `CompletesIfConcurrent` hold |
| `worker_pool` | 5 items, 0 or 2 producers, 0 or 3 consumers, 2 slots, all programs | 122 499 states: `ItemsConserved`, `DrainedBeforeStop`, `ChecksumMatches`, `Completes` hold |
| `photon_queue` | 2 pushers, 2 poppers, 2 values, a ring of 2 slots and a slot, counters modulo 4, any number of calls | 64 112 states: `PermitsConserved`, `AccessExclusive`, `ImplementsChannel`, `NobodyStranded` hold |
| `task_groups` | 0 or 3 sleepers, a tree of 7 nodes, a chain of 4 links, all programs | 6 062 states: `ReportMeansAllRan`, `CountIsProof`, `NobodyOutlivesItsGroup`, `CompletesUnlessNull` hold |
| `bench_harness` | 2 engines, 2 rounds, 2 or 3 scenarios, each matrix and all in a row | 66 331 states: `MeasuredAlone`, `Interleaved`, `NoOrphan`, `Ends` hold |
| `tcp_bench` | 2 connections, 3 messages of 2 bytes, 2 or 3 in flight, or 5 bytes in chunks of 2, all modes | 621 898 states: `StartTogether`, `BytesConserved`, `PipelineKept`, `ReportMeansDone`, `DriverEnds`, `HandlersEnd` hold |
| `mutex_bench` | 3 tasks or 0 to 3 threads, or 4 with 3 handles, 2 rounds | 11 753 states: `NoLostUpdate`, `Completes` hold |
| `mutex_bench_workers` | 3 tasks or 2 to 3 threads, 2 rounds | `CountIsGood` is violated (finding 1) |
| `condition_bench` | 4 rounds, tasks or threads | 433 states: `Alternate`, `SignalIsComing`, `PlayersFinish` hold |

The type invariant of a module is `TypeOK`; it is a conjunct of `IndInv` and so of
`RefinementInv` for the channel, and of the first invariant of the other runs (`OneMessageInFlight`,
`ItemsConserved`, `PermitsConserved`, `CountIsProof`, `Interleaved`,
`BytesConserved`, `NoLostUpdate`). In `ConditionBench` it is `PlayTypeOK`, part of the
invariant that is proved. Deadlock is checked for the
channel and the semaphore queues, whose tasks can always call again; the other programs are meant to
end, and that they do is a temporal property of their runs.

Bounds. Three tasks on the channel are the smallest number with a waker, a
waiter and a third party that cancels, closes or competes; two slots make the
ring wrap and let a full and an empty ring both occur while somebody waits; two
values tell orders apart. `MaxCalls = 4` lets two tasks block, a third close and
a late call follow. Totals 1, 7 and 8 for two pairs give a share of one, an odd
one with a remainder and an even one, so that each of the two tasks is once the
one that reaches the limit. Five items over two producers leave a remainder, and
three sentinels do not fit into two slots, nor do five items when nobody takes
any. Two-byte messages in two-byte buffers
are cut at every place; two of three messages in flight start, keep and run down
a pipeline and fit into the buffers, three of three do not and reach the two
blocked writers. `MaxAttempts = 2` stands for 200: both a retry and the last attempt
happen. Two rounds and three workers let a worker compete with a finished one.
Two slots with two tasks on either side let a push overtake another between wait,
lock and signal while the ring is full, and counters modulo 4 wrap after two
rounds of the ring. Three sleepers let one be asleep, one counted and one fail to
start; a tree of depth 2 has a node that is neither root nor leaf. Two rounds and
two engines show a server that follows one of its own engine, of another engine
and of another mode, and two scenarios that share a server.

Fairness. Every scheduler concerned runs what can run, so each task, and `main`,
has weak fairness; nothing is assumed about failures, spurious wake-ups or
cancellation of single waits, which may or may not happen. `std.Io.Mutex` lets a
newcomer overtake a waiting task: with an endless stream of calls a task could
be overtaken for ever, hence the live run of the channel bounds the calls and
needs no more than weak fairness, and in `MutexBench` the number of rounds is
finite anyway. `ConditionBench` allows any number of spurious wake-ups, each of
which takes the mutex; there strong fairness says that a player that keeps
asking for the mutex gets it and that a cancellation that has been requested is
delivered. `PhotonQueue` bounds no calls either: a permit or the mutex may be
taken again and again by others, and strong fairness says what PhotonLibOS does,
which serves the waiters of a semaphore and of a mutex in order. In
`BenchHarness` the harness goes on and a process that was told to end does;
nothing makes a server bind or a hanging driver end.

Each property comes with a mutant of the code it is about (definitions marked
`mutant:`, listed in `PROJECT.json`) that violates it.

## 4. Theorems

TLAPS checks the following for every value of the constants that the named
assumption of each module allows. These say no more than the options of the
programs do: numbers are natural, sizes and capacities are
not zero, sets of tasks are finite where the code counts them. `PhotonQueue`
assumes in addition that the capacity of the ring divides the range of its
counters, as 256 divides 2^64: without it the slots would be out of step after
a wrap. `ProducerCounts` and `ConsumerCounts` in `WorkerPool` are any sets of
numbers, 0 among them or not, and so are `Options` in `MutexBench`. `MaxWorkers` in `MutexBench` is any bound on `--workers` and serves to
name the workers. `BenchHarness` assumes that no table of scenarios is empty and
that only the scenarios of `tcp` differ in mode, as in `bench.py`.

An invariant a run checks is seldom inductive, so each proof module defines
`IndInv` (`PlayInv` in `ConditionBench`), the property together with what its preservation needs, shows
`Init => IndInv` and `IndInv /\ [Next]_vars => IndInv'` with one lemma per
operation, and derives the properties from it.

**FutexChannelProofs**, for every set of tasks and values and every capacity
(zero included).

- `Invariance`: `Spec => []IndInv`
- `Typing`, `NoSleeperForgotten`, `WakeTargetsLive`, `ListsSound`,
  `NobodyStranded`: `TypeOK`, `NoLostWakeup`, `WakeOnLiveFrame`,
  `ListsHoldLiveWaiters`, `NoStrandedWaiter` always hold
- `RefinementInvariance`: `RefinementInv` always holds
- `Refinement`: `Spec => ImplementsChannel`

That a sleeper is woken depends on who holds the mutex and where that task is
(`ClaimedIsWoken`); that the frame is alive depends on the waiter taking the
mutex once more before it returns (`MutexHeld`, `WakeInProgress`); that popping a
list finds a parked task depends on flags and lists agreeing
(`ListsHoldLiveWaiters`, `ControlState`); and that nobody is stranded has to
allow for a `close` that is not through yet (`WaitersJustified`). For the
refinement the ring has to be a queue: `RingInOrder` says that `tail` follows
`head` by `count`, and two lemmas say that a put appends to the sequence of
values held and a take removes its first, however the indices wrap. Then each
step of the code is a step of `Channel` or leaves what callers see unchanged: a
waiter is settled by the step in which its peer claims it, not when it runs
again.

**PhotonQueueProofs**, for both queues and every number of tasks.

- `Permits`: `PermitsConserved`; `Exclusion`: `AccessExclusive`;
  `Refinement`: `Spec => ImplementsChannel`

The permits in the semaphores and the tasks between a wait and a signal add up
to the capacity; a lemma on how the number of tasks at a label changes when one
moves makes that arithmetic. In `Queue` the mutex belongs to the task at its
access and nobody changes a counter between its load and its store; the values
are those from `head` on, as many as are written and not yet read, and the
refinement shows that this window moves like a queue modulo the counter range.

**PingPongProofs**, for every total, number of pairs and ending.

- `OneCounter`: `OneMessageInFlight`; `SendsAccepted`: `NoSendRefused`;
  `SharesBounced`: `BouncesItsShare`

The counter of a pair is in one channel or in one hand (`Single`) and equals the
number of messages received (`Counts`); a channel is closed after the last message,
when nobody has anything to send (`Closes`); who ends uncanceled ends with the full
count (`EndsLate`), in the PhotonLibOS program after one more message
(`Releases`); and `main` returns when all tasks have (`Awaits`).

**WorkerPoolProofs**, for every number of items and slots, and every number of
producers and consumers, zero included.

- `Conservation`: `ItemsConserved`; `StopsDrained`: `DrainedBeforeStop`;
  `ChecksumOfItems`: `ChecksumMatches`

`SplitFacts` is the arithmetic of `p * items / producers`: the shares cover the
items without gap or overlap for every remainder. Then an item is in one place at
most and, with a producer, at least (`Once`, `Somewhere`); `remaining` counts the
producers that have not finished unless they were canceled (`Counted`,
`Finished`), the queue is closed or gets its first sentinel when there are none
(`StoppedLate`), and nothing but sentinels follows a sentinel (`ZerosLast`).
Where nobody produces or nobody consumes the results are empty, and the checksum
of the programs that end is 0; without consumers an item may stay with its
producer or in the queue, so nothing is said about items taken.

**TcpBenchProofs**, for every number of connections and messages and all sizes.

- `TimedTogether`: `StartTogether`; `NoByteLost`: `BytesConserved`;
  `PipelineFull`: `PipelineKept`; `ReportedWorkDone`: `ReportMeansDone`

A connection that works is filling the pipeline, refilling it after a message
came back, or waiting (`Filling`, `Refilling`, `Waiting`), each an interval of
bytes written for an interval of bytes read, in units of a message; `WritePlan` and
`ReadPlan` show that a cut anywhere leads from one to the next.

- `FittingNeverBlocks`: when `Fits`, no connection is in `BothWrite`

What is written and not yet read is in the two buffers and the handler
(`BytesConserved`) and at most the pipeline (`PipelineKept`): two full buffers and
a handler with something to write are more than `Fits` allows while the driver
has still something to write. So the exception `WritersBlocked` of `DriverEnds`
and `HandlersEnd` is not a way out for programs whose messages fit.

**LockBenchProofs**. mutex_bench, for every number of workers and rounds:
`UpdatesKept`, `NoLostUpdate`. The owner of the mutex is the worker in its section, and the
value it has loaded is still the counter; the counter is the number of pairs of
worker and round that are done. condition_bench, for any number of rounds:
`TurnsAlternate` (`Alternate`) and `NoSignalLost` (`SignalIsComing`). A player between lock and unlock owns the
mutex, and what it has learned about `turn` remains true until it waits.

**TaskGroupsProofs**, for every number of sleepers, depth and length.

- `FramesOutliveTasks`: `NobodyOutlivesItsGroup`; `CountProves`: `CountIsProof`;
  `ReportedAllRan`: `ReportMeansAllRan`

What has been started are the first of the tasks to start (`Born`); in the tree a
node ends after its children (`ChildrenFirst`), elsewhere `main` ends after
everybody (`MainAt`); the count is the number of sleepers that have finished
unless they are canceled (`Counted`). That all tasks have run then follows from a
task with the shortest path among those that have not. This and the size of the
tree need an induction, which the prover has no rule for: `LeastNumber`
derives that a set of natural numbers has a least element from the
well-foundedness of finite sets under inclusion, and `TreeSize` counts the nodes
by mapping a path to the set of its length and its steps to the right, which is
every non-empty subset of 0 .. Depth once.

**BenchHarnessProofs**, for every number of rounds and engines and every table of
scenarios.

- `ResultsBelong`: `MeasuredAlone`; `CellsInterleaved`: `Interleaved`;
  `NoServerLeft`: `NoOrphan`

First what the grouping computes. `ByMode` is a recursive function, so that it
satisfies its own equation has to be proved (`ByModeLoop`), and then that the
groups hold every scenario once, in order, and one mode each (`GroupsCover`),
both by the least number for which it would fail. The invariant says where the
loops are in each phase (`LoopInv`); that at most the server of the current block
is alive, and none between a `wait` and the next `Popen` (`ServerInv`), which is
why the driver cannot have reached another and the result is that server's even
if it has died (a Ctrl-C outside the protection of the `finally` clause is
recorded in `interrupted`); and that every cell has been run as
often as its place relative to the loop variables says (`TriedInv`), up to the
one that a Ctrl-C may have interrupted before or after its start.

Model-checked only: everything under fairness (`EveryCallSettles`,
`CloseReleasesEveryone`, `CompletesIfConcurrent`, `Completes`, `PlayersFinish`, `NobodyStranded`
of `PhotonQueue`, `CompletesUnlessNull`, `Ends`, `DriverEnds`, `HandlersEnd`),
which is beyond the prover. Every invariant and every refinement that a run
checks is also stated by a theorem.

## 5. Findings

1. `mutex_bench_workers`: `mutex_bench_native --workers=N` without `--threads`
   or `--os` starts `num_workers` tasks and then expects N times the rounds.

Without a run of their own, the models show further places where a program may
wait for ever or say less than it seems to. Where a property has to make an
exception for one of them, its comment says so.

- `pair` in `src/queue_ping_pong.zig:58-59`, `queue_ping_pong_futex.zig` and
  `queue_ping_pong_xsync.zig` start two tasks that depend on each other with
  `group.async`, which, as `src/spawn_tree.zig:18-19` says, may run a task inside
  the call. Such a backend never gets past `taskA` (`PingPong!Completes` fails,
  `CompletesIfConcurrent` holds).
- Driver and echo handler can both block in write once `P * size` exceeds what the
  socket buffers and the handler hold (`WritersBlocked`, which `tcp_bench` reaches
  with three messages in flight). The scenarios of `bench.py` are far below that.
- PhotonLibOS's `thread_create` may fail and nobody looks: then `sleep_photon` and
  `worker_pool_photon` wait for a task that does not exist, and a client of
  `tcp_server_photon` for a stream nobody serves.
- `worker_pool_asio --num-producers=0` never ends: nobody is the last producer
  (`NobodyStops`). `worker_pool_asio` and `worker_pool_photon` with
  `--num-consumers=0` do not end if there are more items than slots
  (`NobodyTakes`). Only the Zig programs refuse these counts.
- `README.md:95` says the checksum confirms that the same set was processed;
  `bench.py:191` runs fan_in and fan_out with `--work=0`, for which `work` is 0
  for every item, and so is every checksum.
- In `cpp/queue_ping_pong_photon.cpp` the message that releases the peer is
  received too, so a pair receives one message more than total/N
  (`BouncesItsShare` says so).
- `mutex_bench_native --threads` and `condition_bench_native --threads` return
  from `main` with threads still running on its frame when one cannot be started
  (state "abandoned"); `mutex_bench_native --threads --workers=17` overruns
  `handles` (state "overrun").
- Ctrl-C between `Popen` and the `try` of `bench.py:374-378`, or in the `finally`
  clause before `terminate`, leaves a server running (`NoOrphan` says so). A later
  run of `bench.py` would find the port taken and, as it does not look whether its
  own server is alive, measure the old one.

## 6. Not modelled

Not modelled:

- `rwlock_bench_native.zig`: workers over zio's lock, with nothing of its own
  that `MutexBench` does not have;
- the http mode of the Zig, Go and tokio servers: what could be wrong in it is
  how the end of a request is found in a run of bytes, which is parsing;
- `yield_bench` and `cpu_parallel` (independent tasks), backend and build
  selection, provisioning;
- parsing of options and of output, tables, medians, timing, and the arithmetic
  of the hash in `work`.
