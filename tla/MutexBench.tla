----------------------------- MODULE MutexBench -----------------------------
(***************************************************************************)
(* The mutex_bench programs: workers increment one counter under one lock, *)
(* and main compares it with the count it expects.                         *)
(*                                                                         *)
(* mutex_bench_native.zig starts tasks or, with --threads and --os, plain  *)
(* threads.  Only the threads obey --workers; the check at the end always  *)
(* does.  The others have no such option: there workers = NumWorkers.      *)
(* counter.* += 1 is a load and a store.                                   *)
(***************************************************************************)
EXTENDS Naturals, FiniteSets

CONSTANTS
    NumWorkers,    \* num_workers (4)
    Options,       \* the values --workers may have, 0 is one
    MaxWorkers,    \* the largest of them: how many workers there can be
    MaxHandles,    \* how many threads handles has room for (16)
    Iterations,    \* iterations (100 000)
    MayFail        \* group.concurrent, group.spawn and std.Thread.spawn may fail

ASSUME MutexBenchAssumption ==
    /\ MaxWorkers \in Nat /\ Options \subseteq 0 .. MaxWorkers
    /\ NumWorkers \in 1 .. MaxWorkers
    /\ MaxHandles \in Nat
    /\ Iterations \in Nat \ {0}
    /\ MayFail \in BOOLEAN

VARIABLES
    threads,   \* --threads or --os was given
    workers,   \* --workers, num_workers if it is not given
    main,      \* "spawning", "awaiting", "canceling", "ok", "BadCount",
               \* "failed", "abandoned" (failed with threads still running)
               \* or "overrun" (handles has no room for the threads)
    owner,     \* the worker that holds the mutex, 0 if nobody does
    counter,
    pc,        \* where each worker is
    read,      \* the value it has loaded
    rounds     \* the rounds it has completed

vars == <<threads, workers, main, owner, counter, pc, read, rounds>>

(* The loop that starts the workers. *)
Started == IF threads THEN workers ELSE NumWorkers

(* handles[0..workers] is longer than handles. *)
NoRoom == threads /\ workers > MaxHandles

Ids == 1 .. MaxWorkers

TypeOK ==
    /\ threads \in BOOLEAN /\ workers \in Options \union {NumWorkers}
    /\ main \in {"spawning", "awaiting", "canceling", "ok", "BadCount", "failed", "abandoned", "overrun"}
    /\ owner \in Ids \union {0}
    /\ counter \in Nat
    /\ pc \in [Ids -> {"unborn", "lock", "load", "store", "unlock", "done"}]
    /\ read \in [Ids -> Nat]
    /\ rounds \in [Ids -> 0 .. Iterations]

Init ==
    /\ threads \in BOOLEAN /\ workers \in Options \union {NumWorkers}
    /\ main = IF Started = 0 THEN "awaiting" ELSE "spawning"
    /\ owner = 0
    /\ counter = 0
    /\ pc = [w \in Ids |-> "unborn"]
    /\ read = [w \in Ids |-> 0]
    /\ rounds = [w \in Ids |-> 0]

-----------------------------------------------------------------------------
(* main                                                                    *)

Spawn(w) ==
    /\ main = "spawning" /\ ~NoRoom /\ w <= Started
    /\ pc[w] = "unborn" /\ \A v \in 1 .. w - 1 : pc[v] # "unborn"
    /\ pc' = [pc EXCEPT ![w] = "lock"]
    /\ main' = IF w = Started THEN "awaiting" ELSE "spawning"
    /\ UNCHANGED <<threads, workers, owner, counter, read, rounds>>

(* `try group.concurrent` fails: `defer group.cancel` runs. *)
SpawnFails ==
    /\ MayFail /\ ~threads
    /\ main = "spawning"
    /\ main' = "canceling"
    /\ UNCHANGED <<threads, workers, owner, counter, pc, read, rounds>>

(***************************************************************************)
(* `try std.Thread.spawn` fails.  Nothing joins the threads that run: main *)
(* returns and they go on until the process is gone.                       *)
(***************************************************************************)
ThreadSpawnFails ==
    /\ MayFail /\ threads /\ ~NoRoom
    /\ main = "spawning"
    /\ main' = "abandoned"
    /\ UNCHANGED <<threads, workers, owner, counter, pc, read, rounds>>

(***************************************************************************)
(* Too many workers: a build with safety checks panics before it starts a  *)
(* thread.  Without them the behaviour is undefined and the model stops.   *)
(***************************************************************************)
Overrun ==
    /\ main = "spawning" /\ NoRoom
    /\ main' = "overrun"
    /\ UNCHANGED <<threads, workers, owner, counter, pc, read, rounds>>

(* group.await or the joins, and the check of the count *)
Check ==
    /\ main = "awaiting"
    /\ \A w \in 1 .. Started : pc[w] = "done"
    /\ main' = IF counter # workers * Iterations THEN "BadCount" ELSE "ok"
    /\ UNCHANGED <<threads, workers, owner, counter, pc, read, rounds>>

(* group.cancel has waited for the workers that were started. *)
Cancel ==
    /\ main = "canceling"
    /\ \A w \in Ids : pc[w] \in {"done", "unborn"}
    /\ main' = "failed"
    /\ UNCHANGED <<threads, workers, owner, counter, pc, read, rounds>>

-----------------------------------------------------------------------------
(* worker                                                                  *)

(* mutant: does not wait for the mutex *)
LockAnyway(w) ==
    /\ pc[w] = "lock" /\ rounds[w] < Iterations
    /\ owner' = w
    /\ pc' = [pc EXCEPT ![w] = "load"]
    /\ UNCHANGED <<threads, workers, main, counter, read, rounds>>

Lock(w) ==
    /\ pc[w] = "lock" /\ rounds[w] < Iterations
    /\ owner = 0
    /\ owner' = w
    /\ pc' = [pc EXCEPT ![w] = "load"]
    /\ UNCHANGED <<threads, workers, main, counter, read, rounds>>

(* `try m.lock(io)` fails: nothing is held and nothing was counted. *)
LockCanceled(w) ==
    /\ main = "canceling"
    /\ pc[w] = "lock" /\ rounds[w] < Iterations
    /\ pc' = [pc EXCEPT ![w] = "done"]
    /\ UNCHANGED <<threads, workers, main, owner, counter, read, rounds>>

Load(w) ==
    /\ pc[w] = "load"
    /\ read' = [read EXCEPT ![w] = counter]
    /\ pc' = [pc EXCEPT ![w] = "store"]
    /\ UNCHANGED <<threads, workers, main, owner, counter, rounds>>

Store(w) ==
    /\ pc[w] = "store"
    /\ counter' = read[w] + 1
    /\ pc' = [pc EXCEPT ![w] = "unlock"]
    /\ UNCHANGED <<threads, workers, main, owner, read, rounds>>

(* mutant: the last round returns with the mutex held *)
UnlockSometimes(w) ==
    /\ pc[w] = "unlock"
    /\ owner' = IF rounds[w] + 1 = Iterations THEN owner ELSE 0
    /\ rounds' = [rounds EXCEPT ![w] = @ + 1]
    /\ pc' = [pc EXCEPT ![w] = "lock"]
    /\ UNCHANGED <<threads, workers, main, counter, read>>

Unlock(w) ==
    /\ pc[w] = "unlock"
    /\ owner' = 0
    /\ rounds' = [rounds EXCEPT ![w] = @ + 1]
    /\ pc' = [pc EXCEPT ![w] = "lock"]
    /\ UNCHANGED <<threads, workers, main, counter, read>>

End(w) ==
    /\ pc[w] = "lock" /\ rounds[w] = Iterations
    /\ pc' = [pc EXCEPT ![w] = "done"]
    /\ UNCHANGED <<threads, workers, main, owner, counter, read, rounds>>

-----------------------------------------------------------------------------

Main == Check \/ Cancel \/ Overrun \/ \E w \in Ids : Spawn(w)

Worker(w) == Lock(w) \/ LockCanceled(w) \/ Load(w) \/ Store(w) \/ Unlock(w) \/ End(w)

Next == Main \/ SpawnFails \/ ThreadSpawnFails \/ \E w \in Ids : Worker(w)

(* A worker that waits for the mutex competes with at most Started - 1     *)
(* others for at most Iterations rounds each: weak fairness is enough.     *)
Spec == Init /\ [][Next]_vars /\ WF_vars(Main) /\ \A w \in Ids : WF_vars(Worker(w))

-----------------------------------------------------------------------------
(* Properties                                                              *)

(* The pairs of a worker and a round in which it has made its increment. *)
Increments ==
    {p \in Ids \X (1 .. Iterations) :
        p[2] <= rounds[p[1]] + (IF pc[p[1]] = "unlock" THEN 1 ELSE 0)}

(***************************************************************************)
(* No increment is lost or made twice (counter.* += 1 between lock and     *)
(* unlock, src/mutex_bench.zig:14-18), in any interleaving and when some   *)
(* workers are canceled: the counter is the number of completed rounds,    *)
(* plus one while a worker is between its store and its unlock, and the    *)
(* check at the end fails only where --workers is not obeyed.              *)
(***************************************************************************)
NoLostUpdate ==
    /\ TypeOK
    /\ counter = Cardinality(Increments)
    /\ main = "BadCount" => ~threads /\ workers # NumWorkers

(***************************************************************************)
(* The program's own check never fails (src/mutex_bench.zig:32,            *)
(* src/mutex_bench_native.zig:86).                                         *)
(***************************************************************************)
CountIsGood == main # "BadCount"

(***************************************************************************)
(* The program ends: no worker keeps the mutex (lines 15-17).  It checks   *)
(* the count or a spawn has failed, unless there are more threads than     *)
(* handles (src/mutex_bench_native.zig:66-73).                             *)
(***************************************************************************)
Completes == <>(main \in {"ok", "BadCount", "failed", "abandoned"} \/ NoRoom)
=============================================================================
