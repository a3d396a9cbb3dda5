----------------------------- MODULE TaskGroups -----------------------------
(***************************************************************************)
(* The benchmarks that only start tasks and wait for them.  program,       *)
(* chosen in the initial state, is                                         *)
(*   "group"       sleep.zig, sleep_native.zig: a group that cancels and   *)
(*                 awaits what it started when a spawn fails;              *)
(*   "pool"        cpp/sleep_asio.cpp: detached coroutines, pool.join;     *)
(*   "semaphore"   cpp/sleep_photon.cpp: done.wait for the number of       *)
(*                 tasks asked for, whether or not they could be created;  *)
(*   "handles"     go/sleep, rust sleep: a WaitGroup or the join handles;  *)
(*   "spawn_tree"  every node starts two children in a group of its own;   *)
(*   "task_chain"  every link starts the next in the one shared group.     *)
(*                                                                         *)
(* A task is its path from main, which is <<>>: task Append(n, i) is the   *)
(* i-th that n starts.  In spawn_tree main itself is the root node.        *)
(***************************************************************************)
EXTENDS Naturals, Sequences, FiniteSets

CONSTANTS
    TaskCounts,    \* values of --tasks
    Depth,         \* depth of the spawn tree (13)
    ChainLength,   \* chain_length (10 000)
    MayFail        \* spawns and the start of the runtime may fail

ASSUME TaskGroupsAssumption ==
    /\ TaskCounts \subseteq Nat /\ {Depth, ChainLength} \subseteq Nat
    /\ MayFail \in BOOLEAN

VARIABLES
    program,
    numTasks, sleepMs,   \* --tasks, --sleep-ms
    main,       \* "parsing", "running", or how the program ended
    pc,         \* where each task is
    started,    \* how many tasks each task has started, or tried to
    counter     \* the tasks that have counted themselves

setting == <<program, numTasks, sleepMs>>
vars == <<setting, main, pc, started, counter>>

Sleepers == {"group", "pool", "semaphore", "handles"}
Programs == Sleepers \union {"spawn_tree", "task_chain"}

(* How many tasks n starts. *)
NumKids(n) ==
    CASE program = "spawn_tree" -> IF Len(n) < Depth THEN 2 ELSE 0
      [] program = "task_chain" -> IF Len(n) <= ChainLength THEN 1 ELSE 0
      [] OTHER -> IF n = <<>> THEN numTasks ELSE 0

Tasks ==
    CASE program = "spawn_tree" -> UNION {[1 .. d -> {1, 2}] : d \in 0 .. Depth}
      [] program = "task_chain" -> UNION {[1 .. d -> {1}] : d \in 0 .. ChainLength + 1}
      [] OTHER -> {<<>>} \union [{1} -> 1 .. numTasks]

(* The tasks that end up in the group (pool, semaphore, handles) of n. *)
GroupOf(n) ==
    CASE program = "spawn_tree" -> {k \in Tasks : Len(k) = Len(n) + 1 /\ SubSeq(k, 1, Len(n)) = n}
      [] OTHER -> IF n = <<>> THEN Tasks \ {<<>>} ELSE {}

(* A task between its start and its return. *)
Live == {"spawn", "call", "sleep", "count", "await", "cancel"}
Ended == {"ok", "short", "failed"}

TypeOK ==
    /\ program \in Programs /\ numTasks \in TaskCounts /\ sleepMs \in {0, 1}
    /\ main \in {"parsing", "running"} \union Ended
    /\ pc \in [Tasks -> Live \union {"unborn", "null", "done"}]
    /\ started \in [Tasks -> Nat] /\ \A n \in Tasks : started[n] <= NumKids(n)
    /\ counter \in 0 .. Cardinality(Tasks) - 1

Init ==
    /\ program \in Programs /\ numTasks \in TaskCounts /\ sleepMs \in {0, 1}
    /\ main = "parsing"
    /\ pc = [n \in Tasks |-> "unborn"]
    /\ started = [n \in Tasks |-> 0]
    /\ counter = 0

-----------------------------------------------------------------------------
(* main, before it starts anything                                         *)

(* The options are what setting says; the runtime comes up. *)
Configure ==
    /\ main = "parsing"
    /\ main' = "running"
    /\ pc' = [pc EXCEPT ![<<>>] = "spawn"]
    /\ UNCHANGED <<setting, started, counter>>

(* An unknown argument: usage, and return before anything is started. *)
UsageError ==
    /\ main = "parsing"
    /\ program \in Sleepers
    /\ main' = "failed"
    /\ UNCHANGED <<setting, pc, started, counter>>

(* "photon init failed", or `try backend.init` *)
InitFails ==
    /\ MayFail /\ program \notin {"pool", "handles"}
    /\ main = "parsing"
    /\ main' = "failed"
    /\ UNCHANGED <<setting, pc, started, counter>>

-----------------------------------------------------------------------------
(* Starting tasks                                                          *)

Kid(n) == Append(n, started[n] + 1)

Spawning(n) == pc[n] = "spawn" /\ started[n] < NumKids(n)

(* co_spawn, thread_create, go, tokio::spawn, group.concurrent, group.async *)
Spawn(n) ==
    /\ Spawning(n)
    /\ pc' = [pc EXCEPT ![Kid(n)] = "spawn"]
    /\ started' = [started EXCEPT ![n] = @ + 1]
    /\ UNCHANGED <<setting, main, counter>>

(* group.async of task_chain may run the link inside the call; spawn_tree  *)
(* does when concurrent fails: `catch node(io, level - 1)`.                *)
Call(n) ==
    /\ Spawning(n)
    /\ \/ program = "task_chain"
       \/ MayFail /\ program = "spawn_tree"
    /\ pc' = [pc EXCEPT ![n] = "call", ![Kid(n)] = "spawn"]
    /\ started' = [started EXCEPT ![n] = @ + 1]
    /\ UNCHANGED <<setting, main, counter>>

CallReturns(n) ==
    /\ pc[n] = "call"
    /\ pc[Append(n, started[n])] = "done"
    /\ pc' = [pc EXCEPT ![n] = "spawn"]
    /\ UNCHANGED <<setting, main, started, counter>>

(* mutant: returns without group.cancel *)
SpawnFailsAtOnce(n) ==
    /\ MayFail /\ program = "group"
    /\ Spawning(n)
    /\ pc' = [pc EXCEPT ![n] = "done"]
    /\ main' = "failed"
    /\ UNCHANGED <<setting, started, counter>>

(* `try group.concurrent` fails; `defer group.cancel` runs. *)
SpawnFails(n) ==
    /\ MayFail /\ program = "group"
    /\ Spawning(n)
    /\ pc' = [pc EXCEPT ![n] = "cancel"]
    /\ UNCHANGED <<setting, main, started, counter>>

(* photon::thread_create returns a null pointer, which nobody looks at. *)
CreateFails(n) ==
    /\ MayFail /\ program = "semaphore"
    /\ Spawning(n)
    /\ pc' = [pc EXCEPT ![Kid(n)] = "null"]
    /\ started' = [started EXCEPT ![n] = @ + 1]
    /\ UNCHANGED <<setting, main, counter>>

(* main, and the inner nodes of the tree. *)
HasGroup(n) == n = <<>> \/ (program = "spawn_tree" /\ NumKids(n) > 0)

(* mutant: counts first, then sleeps *)
SpawnedAllCountFirst(n) ==
    /\ pc[n] = "spawn" /\ started[n] = NumKids(n)
    /\ pc' = [pc EXCEPT ![n] =
                 CASE HasGroup(n) -> "await"
                   [] ~HasGroup(n) /\ program \in {"spawn_tree", "task_chain"} -> "done"
                   [] OTHER -> "sleep"]
    /\ counter' = IF n # <<>> /\ program \in Sleepers THEN counter + 1 ELSE counter
    /\ UNCHANGED <<setting, main, started>>

(* What follows the last spawn: who has a group awaits it, a link or a     *)
(* leaf of the tree returns, a sleeper sleeps if it has to.                *)
SpawnedAll(n) ==
    /\ pc[n] = "spawn" /\ started[n] = NumKids(n)
    /\ pc' = [pc EXCEPT ![n] =
                 CASE HasGroup(n) -> "await"
                   [] ~HasGroup(n) /\ program \in {"spawn_tree", "task_chain"} -> "done"
                   [] OTHER -> IF sleepMs > 0 THEN "sleep" ELSE "count"]
    /\ UNCHANGED <<setting, main, started, counter>>

-----------------------------------------------------------------------------
(* sleep_task                                                              *)

(* The timer fires. *)
Wake(n) ==
    /\ pc[n] = "sleep"
    /\ pc' = [pc EXCEPT ![n] = "count"]
    /\ UNCHANGED <<setting, main, started, counter>>

(* counter.fetch_add(1), done.signal(1), wg.Done, the end of the handle *)
Count(n) ==
    /\ pc[n] = "count"
    /\ counter' = counter + 1
    /\ pc' = [pc EXCEPT ![n] = "done"]
    /\ UNCHANGED <<setting, main, started>>

(* `try sleep` fails: the task returns and is not counted. *)
SleepCanceled(n) ==
    /\ pc[<<>>] = "cancel"
    /\ pc[n] = "sleep"
    /\ pc' = [pc EXCEPT ![n] = "done"]
    /\ UNCHANGED <<setting, main, started, counter>>

-----------------------------------------------------------------------------
(* Waiting for tasks                                                       *)

(* mutant: one task is enough *)
SomeOver(n) == GroupOf(n) = {} \/ \E k \in GroupOf(n) : pc[k] = "done"

(* mutant: waits for a signal too many *)
AllOverAndOne(n) ==
    IF program = "semaphore" THEN counter > numTasks
    ELSE \A k \in GroupOf(n) : pc[k] \notin Live

(* group.await, pool.join, wg.Wait and the handles see the tasks that have *)
(* been started; done.wait(g_tasks) sees only signals.                     *)
AllOver(n) ==
    IF program = "semaphore" THEN counter >= numTasks
    ELSE \A k \in GroupOf(n) : pc[k] \notin Live

(* An inner node of the tree. *)
Awaited(n) ==
    /\ n # <<>> /\ pc[n] = "await"
    /\ AllOver(n)
    /\ pc' = [pc EXCEPT ![n] = "done"]
    /\ UNCHANGED <<setting, main, started, counter>>

(* ran != num_tasks, which "group" and "pool" look at *)
Short == program \in {"group", "pool"} /\ counter # numTasks

MainEnds ==
    /\ pc[<<>>] \in {"await", "cancel"}
    /\ AllOver(<<>>)
    /\ pc' = [pc EXCEPT ![<<>>] = "done"]
    /\ main' = IF pc[<<>>] = "cancel" THEN "failed" ELSE IF Short THEN "short" ELSE "ok"
    /\ UNCHANGED <<setting, started, counter>>

-----------------------------------------------------------------------------

Task(n) ==
    \/ Spawn(n) \/ Call(n) \/ CallReturns(n) \/ CreateFails(n) \/ SpawnedAll(n)
    \/ Wake(n) \/ Count(n) \/ SleepCanceled(n)
    \/ Awaited(n)

Main == Configure \/ MainEnds

Failure == UsageError \/ InitFails \/ \E n \in Tasks : SpawnFails(n)

Next == Main \/ Failure \/ \E n \in Tasks : Task(n)

(* Every task that can run is run and every timer fires; nothing has to fail. *)
Spec ==
    /\ Init /\ [][Next]_vars
    /\ WF_vars(Main) /\ WF_vars(\E n \in Tasks : Task(n))

-----------------------------------------------------------------------------
(* Properties                                                              *)

(***************************************************************************)
(* A duration is printed only when every task has run to its end: all      *)
(* --tasks of a sleep benchmark, the "2^(depth+1)-1 total nodes" of        *)
(* src/spawn_tree.zig:9-10, and the last link of the chain, although each  *)
(* link returns as soon as it has started the next and the group is        *)
(* never told how many there will be (src/task_chain.zig:11-30).           *)
(***************************************************************************)
ReportMeansAllRan ==
    main = "ok" =>
        /\ \A n \in Tasks : pc[n] = "done" /\ started[n] = NumKids(n)
        /\ program = "spawn_tree" =>
              Cardinality({n \in Tasks : pc[n] = "done"}) = 2 ^ (Depth + 1) - 1

(***************************************************************************)
(* "proof that every task actually ran" (cpp/sleep_asio.cpp:5-6): a task   *)
(* counts itself as its last act, so a full count means that nobody is     *)
(* asleep any more, and the message "only %lu/%lu tasks completed" of      *)
(* lines 46-49 is never printed by a program whose wait works.             *)
(***************************************************************************)
CountIsProof ==
    /\ TypeOK
    /\ program \in Sleepers /\ numTasks > 0 /\ counter = numTasks =>
          \A n \in Tasks \ {<<>>} : pc[n] = "done"
    /\ main # "short"

(***************************************************************************)
(* The counter of cpp/sleep_asio.cpp:34 and the groups of the Zig programs *)
(* are in a frame that the tasks point into: nobody whose group, counter   *)
(* or semaphore is somebody's local variable is alive when that frame is   *)
(* left, be it by a return, a failed spawn or a failed count.              *)
(***************************************************************************)
NobodyOutlivesItsGroup ==
    \A n \in Tasks :
        pc[n] = "done" \/ (n = <<>> /\ main \in Ended) =>
            \A k \in GroupOf(n) : pc[k] \notin Live

(***************************************************************************)
(* "wait for all of them" (cpp/sleep_asio.cpp:1-3): the program ends,      *)
(* wherever a spawn fails and whether or not a backend runs tasks inside   *)
(* the call.  The exception is cpp/sleep_photon.cpp:44-46, which waits for *)
(* a task even if thread_create could not create it.                       *)
(***************************************************************************)
CompletesUnlessNull == <>(main \in Ended \/ \E n \in Tasks : pc[n] = "null")
=============================================================================
