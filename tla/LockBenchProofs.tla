--------------------------- MODULE LockBenchProofs ---------------------------
(***************************************************************************)
(* The two benchmarks of locks.                                            *)
(*                                                                         *)
(* mutex_bench: no update is lost, for every number of workers and rounds, *)
(* whether workers are tasks or threads and whatever fails.                *)
(*                                                                         *)
(* condition_bench: the players alternate and no signal is lost, for every *)
(* number of rounds.                                                       *)
(***************************************************************************)
EXTENDS MutexBench, ConditionBench, FiniteSetTheorems, TLAPS

(* Who is between its lock and its unlock owns the mutex, and has a round  *)
(* to do; what it has loaded is still the counter.                         *)
Section(w) == pc[w] \in {"load", "store", "unlock"}

MutexHeld ==
    \A w \in Ids :
        /\ owner = w <=> Section(w)
        /\ Section(w) => rounds[w] < Iterations
        /\ pc[w] = "store" => read[w] = counter

(* Only the workers that main starts ever run, and unless they are         *)
(* canceled they end after their last round.                               *)
WorkersEnd ==
    \A w \in Ids :
        /\ pc[w] = "unborn" => rounds[w] = 0
        /\ w > Started => pc[w] = "unborn"
        /\ pc[w] = "done" /\ main \in {"spawning", "awaiting"} => rounds[w] = Iterations

(* The conjunction that every step of main and of the workers preserves. *)
IndInv == NoLostUpdate /\ MutexHeld /\ WorkersEnd

(* How many increments worker w has made. *)
Made(w) == rounds[w] + (IF pc[w] = "unlock" THEN 1 ELSE 0)

LEMMA IncrementsAre ==
    /\ Increments \in SUBSET (Ids \X (1 .. Iterations))
    /\ \A w \in Ids, r \in 1 .. Iterations : <<w, r>> \in Increments <=> r <= Made(w)
BY DEF Increments, Made

LEMMA IncrementsFinite == IsFiniteSet(Increments) /\ Cardinality(Increments) \in Nat
<1>1. IsFiniteSet(Ids) /\ IsFiniteSet(1 .. Iterations)
    BY MutexBenchAssumption, FS_Interval DEF Ids
<1>2. IsFiniteSet(Ids \X (1 .. Iterations))
    BY <1>1, FS_Product
<1>3. IsFiniteSet(Increments)
    BY <1>2, IncrementsAre, FS_Subset
<1> QED
    BY <1>3, FS_CardinalityType

(* The increments follow from what each worker has made of them. *)
LEMMA SameIncrements ==
    ASSUME \A w \in Ids : Made(w)' = Made(w)
    PROVE  Increments' = Increments
BY DEF Increments, Made

(* The store of worker w adds the increment of its current round. *)
LEMMA OneIncrement ==
    ASSUME TypeOK, NEW w \in Ids, rounds[w] < Iterations,
           \A v \in Ids : Made(v)' = IF v = w THEN rounds[w] + 1 ELSE Made(v), Made(w) = rounds[w]
    PROVE  Cardinality(Increments') = Cardinality(Increments) + 1
<1> DEFINE p == <<w, rounds[w] + 1>>
<1>1. rounds[w] \in Nat /\ rounds[w] + 1 \in 1 .. Iterations
    BY MutexBenchAssumption DEF TypeOK
<1>2. p \notin Increments
    BY <1>1, IncrementsAre
<1>3. Increments' = Increments \union {p}
  <2>1. ASSUME NEW v \in Ids, NEW r \in 1 .. Iterations
        PROVE  <<v, r>> \in Increments' <=> <<v, r>> \in Increments \union {p}
    <3>1. <<v, r>> \in Increments' <=> r <= Made(v)'
        BY DEF Increments, Made
    <3> QED
        BY <1>1, <3>1, IncrementsAre
  <2>2. Increments' \in SUBSET (Ids \X (1 .. Iterations))
      BY DEF Increments
  <2>3. Increments \union {p} \in SUBSET (Ids \X (1 .. Iterations))
      BY <1>1, IncrementsAre
  <2> QED
      BY <2>1, <2>2, <2>3
<1> QED
    BY <1>2, <1>3, IncrementsFinite, FS_AddElement

(* When every started worker has done its rounds, all increments are made. *)
LEMMA AllMade ==
    ASSUME TypeOK, NEW n \in 0 .. MaxWorkers,
           \A w \in Ids : Made(w) = IF w <= n THEN Iterations ELSE 0
    PROVE  Cardinality(Increments) = n * Iterations
<1>1. Increments = (1 .. n) \X (1 .. Iterations)
  <2>1. (1 .. n) \X (1 .. Iterations) \in SUBSET (Ids \X (1 .. Iterations))
      BY MutexBenchAssumption DEF Ids
  <2>2. \A w \in Ids, r \in 1 .. Iterations :
            <<w, r>> \in Increments <=> <<w, r>> \in (1 .. n) \X (1 .. Iterations)
    <3> SUFFICES ASSUME NEW w \in Ids, NEW r \in 1 .. Iterations
                 PROVE  r <= Made(w) <=> w \in 1 .. n
        BY IncrementsAre
    <3>1. Made(w) = IF w <= n THEN Iterations ELSE 0
        OBVIOUS
    <3> QED
        BY <3>1, MutexBenchAssumption DEF Ids
  <2> QED
      BY <2>1, <2>2, IncrementsAre
<1>2. /\ IsFiniteSet(1 .. n) /\ Cardinality(1 .. n) = n
      /\ IsFiniteSet(1 .. Iterations) /\ Cardinality(1 .. Iterations) = Iterations
    BY MutexBenchAssumption, FS_Interval
<1>3. Cardinality((1 .. n) \X (1 .. Iterations)) = n * Iterations
  <2> DEFINE A == 1 .. n
             B == 1 .. Iterations
  <2> HIDE DEF A, B
  <2>1. IsFiniteSet(A) /\ IsFiniteSet(B) => Cardinality(A \X B) = Cardinality(A) * Cardinality(B)
      BY FS_Product
  <2> QED
      BY <2>1, <1>2 DEF A, B
<1> QED
    BY <1>1, <1>3

-----------------------------------------------------------------------------

(* The conjuncts apart from the count, and the steps that count nothing. *)
LEMMA ControlStep ==
    ASSUME IndInv, Next
    PROVE  TypeOK' /\ MutexHeld' /\ WorkersEnd'
<1>0. TypeOK /\ MutexHeld /\ WorkersEnd
    BY DEF IndInv, NoLostUpdate
<1> USE <1>0, MutexBenchAssumption DEF TypeOK
<1>1. ASSUME NEW w \in Ids, Spawn(w) PROVE TypeOK' /\ MutexHeld' /\ WorkersEnd'
  <2>1. TypeOK'
      BY <1>1 DEF Spawn, MutexHeld, Section
  <2>2. MutexHeld'
      BY <1>1 DEF Spawn, MutexHeld, Section, Ids, WorkersEnd
  <2>3. WorkersEnd'
    <3>1. Started' = Started /\ w <= Started /\ pc' = [pc EXCEPT ![w] = "lock"] /\ rounds' = rounds
          /\ main = "spawning" /\ main' \in {"spawning", "awaiting"}
        BY <1>1 DEF Spawn, Started
    <3>2. Started \in Nat /\ w \in Nat
      <4>1. workers \in 0 .. MaxWorkers /\ NumWorkers \in 1 .. MaxWorkers /\ w \in 1 .. MaxWorkers
          BY DEF Ids
      <4> QED
          BY <4>1 DEF Started
    <3> QED
        BY <3>1, <3>2 DEF WorkersEnd
  <2> QED
      BY <2>1, <2>2, <2>3
<1>2. ASSUME SpawnFails \/ ThreadSpawnFails PROVE TypeOK' /\ MutexHeld' /\ WorkersEnd'
  <2>1. TypeOK'
      BY <1>2 DEF SpawnFails, ThreadSpawnFails, MutexHeld, Section
  <2>2. MutexHeld'
      BY <1>2 DEF SpawnFails, ThreadSpawnFails, MutexHeld, Section, Ids, WorkersEnd
  <2>3. WorkersEnd'
    <3>1. Started' = Started /\ pc' = pc /\ rounds' = rounds /\ main' \notin {"spawning", "awaiting"}
        BY <1>2 DEF SpawnFails, ThreadSpawnFails, Started
    <3> QED
        BY <3>1 DEF WorkersEnd
  <2> QED
      BY <2>1, <2>2, <2>3
<1>3. ASSUME Check \/ Cancel \/ Overrun PROVE TypeOK' /\ MutexHeld' /\ WorkersEnd'
  <2>1. TypeOK'
      BY <1>3 DEF Check, Cancel, Overrun, MutexHeld, Section
  <2>2. MutexHeld'
      BY <1>3 DEF Check, Cancel, Overrun, MutexHeld, Section, Ids, WorkersEnd
  <2>3. WorkersEnd'
    <3>1. Started' = Started /\ pc' = pc /\ rounds' = rounds /\ main' \notin {"spawning", "awaiting"}
        BY <1>3 DEF Check, Cancel, Overrun, Started
    <3> QED
        BY <3>1 DEF WorkersEnd
  <2> QED
      BY <2>1, <2>2, <2>3
<1>4. ASSUME NEW w \in Ids, Lock(w) PROVE TypeOK' /\ MutexHeld' /\ WorkersEnd'
  <2>1. TypeOK'
      BY <1>4 DEF Lock
  <2>2. MutexHeld'
      BY <1>4 DEF Lock, MutexHeld, Section, Ids
  <2>3. WorkersEnd'
      BY <1>4 DEF Lock, WorkersEnd, Started
  <2> QED
      BY <2>1, <2>2, <2>3
<1>9. ASSUME NEW w \in Ids, LockCanceled(w) PROVE TypeOK' /\ MutexHeld' /\ WorkersEnd'
  <2>1. TypeOK'
      BY <1>9 DEF LockCanceled
  <2>2. MutexHeld'
      BY <1>9 DEF LockCanceled, MutexHeld, Section, Ids
  <2>3. WorkersEnd'
      BY <1>9 DEF LockCanceled, WorkersEnd, Started
  <2> QED
      BY <2>1, <2>2, <2>3
<1>5. ASSUME NEW w \in Ids, Load(w) PROVE TypeOK' /\ MutexHeld' /\ WorkersEnd'
  <2>1. TypeOK'
      BY <1>5 DEF Load, MutexHeld, Section
  <2>2. MutexHeld'
      BY <1>5 DEF Load, MutexHeld, Section, Ids, WorkersEnd
  <2>3. WorkersEnd'
      BY <1>5 DEF Load, WorkersEnd, Started, Ids, MutexHeld, Section
  <2> QED
      BY <2>1, <2>2, <2>3
<1>6. ASSUME NEW w \in Ids, Store(w) PROVE TypeOK' /\ MutexHeld' /\ WorkersEnd'
  <2>1. TypeOK'
      BY <1>6 DEF Store, MutexHeld, Section
  <2>2. MutexHeld'
      BY <1>6 DEF Store, MutexHeld, Section, Ids, WorkersEnd
  <2>3. WorkersEnd'
      BY <1>6 DEF Store, WorkersEnd, Started, Ids, MutexHeld, Section
  <2> QED
      BY <2>1, <2>2, <2>3
<1>7. ASSUME NEW w \in Ids, Unlock(w) PROVE TypeOK' /\ MutexHeld' /\ WorkersEnd'
  <2>1. TypeOK'
      BY <1>7 DEF Unlock, MutexHeld, Section
  <2>2. MutexHeld'
      BY <1>7 DEF Unlock, MutexHeld, Section, Ids, WorkersEnd
  <2>3. WorkersEnd'
      BY <1>7 DEF Unlock, WorkersEnd, Started, Ids, MutexHeld, Section
  <2> QED
      BY <2>1, <2>2, <2>3
<1>8. ASSUME NEW w \in Ids, End(w) PROVE TypeOK' /\ MutexHeld' /\ WorkersEnd'
  <2>1. TypeOK'
      BY <1>8 DEF End, MutexHeld, Section
  <2>2. MutexHeld'
      BY <1>8 DEF End, MutexHeld, Section, Ids, WorkersEnd
  <2>3. WorkersEnd'
      BY <1>8 DEF End, WorkersEnd, Started, Ids, MutexHeld, Section
  <2> QED
      BY <2>1, <2>2, <2>3
<1> QED
    BY <1>1, <1>2, <1>3, <1>4, <1>5, <1>6, <1>7, <1>8, <1>9 DEF Next, Main, Worker

LEMMA InitInv == Init => IndInv
<1> SUFFICES ASSUME Init PROVE IndInv
    OBVIOUS
<1>1. TypeOK /\ MutexHeld /\ WorkersEnd
  <2>1. TypeOK
      BY MutexBenchAssumption DEF Init, TypeOK
  <2> QED
      BY <2>1, MutexBenchAssumption DEF Init, MutexHeld, WorkersEnd, Section, Ids
<1>2. Cardinality(Increments) = 0 * Iterations
  <2>1. 0 \in 0 .. MaxWorkers /\ \A w \in Ids : Made(w) = IF w <= 0 THEN Iterations ELSE 0
      BY MutexBenchAssumption DEF Init, Made, Ids
  <2> QED
      BY <1>1, <2>1, AllMade
<1> QED
    BY <1>1, <1>2, MutexBenchAssumption DEF IndInv, NoLostUpdate, Init

(* Every store is counted once, and main finds what it expects where       *)
(* --workers is obeyed (src/mutex_bench_native.zig:84-87).                 *)
LEMMA StepInv == ASSUME IndInv, [Next]_vars PROVE IndInv'
<1>0. TypeOK /\ MutexHeld /\ WorkersEnd /\ counter = Cardinality(Increments)
      /\ (main = "BadCount" => ~threads /\ workers # NumWorkers)
    BY DEF IndInv, NoLostUpdate
<1>1. CASE UNCHANGED vars
    BY <1>0, <1>1 DEF vars, IndInv, NoLostUpdate, TypeOK, Increments, MutexHeld, Section, WorkersEnd, Started
<1>2. CASE Next
  <2>1. TypeOK' /\ MutexHeld' /\ WorkersEnd'
      BY <1>2, ControlStep
  <2>2. counter' = Cardinality(Increments')
    <3>1. ASSUME NEW w \in Ids, Store(w) PROVE counter' = Cardinality(Increments')
      <4>1. counter' = counter + 1 /\ rounds[w] < Iterations /\ Made(w) = rounds[w]
          BY <1>0, <3>1 DEF Store, MutexHeld, Section, Made, TypeOK
      <4>2. \A v \in Ids : Made(v)' = IF v = w THEN rounds[w] + 1 ELSE Made(v)
          BY <1>0, <3>1 DEF Store, Made, TypeOK
      <4> QED
          BY <1>0, <4>1, <4>2, OneIncrement
    <3>2. ASSUME NEW w \in Ids, Unlock(w) PROVE counter' = Cardinality(Increments')
      <4>1. \A v \in Ids : Made(v)' = Made(v)
          BY <1>0, <3>2 DEF Unlock, Made, TypeOK
      <4> QED
          BY <1>0, <3>2, <4>1, SameIncrements DEF Unlock
    <3>3. ASSUME NEW w \in Ids, Spawn(w) \/ Lock(w) \/ LockCanceled(w) \/ Load(w) \/ End(w)
          PROVE  counter' = Cardinality(Increments')
      <4>1. \A v \in Ids : Made(v)' = Made(v)
          BY <1>0, <3>3 DEF Spawn, Lock, LockCanceled, Load, End, Made, TypeOK
      <4> QED
          BY <1>0, <3>3, <4>1, SameIncrements DEF Spawn, Lock, LockCanceled, Load, End
    <3>4. CASE SpawnFails \/ ThreadSpawnFails \/ Check \/ Cancel \/ Overrun
        BY <1>0, <3>4 DEF SpawnFails, ThreadSpawnFails, Check, Cancel, Overrun, Increments
    <3> QED
        BY <1>2, <3>1, <3>2, <3>3, <3>4 DEF Next, Main, Worker
  <2>3. main' = "BadCount" => ~threads' /\ workers' # NumWorkers
    <3>1. CASE Check
      <4>1. Started \in 0 .. MaxWorkers /\ Started \in Nat
          BY <1>0, MutexBenchAssumption DEF TypeOK, Started
      <4>2. \A w \in Ids : Made(w) = IF w <= Started THEN Iterations ELSE 0
          BY <1>0, <3>1, <4>1, MutexBenchAssumption DEF Check, Made, WorkersEnd, Ids, TypeOK
      <4>3. counter = Started * Iterations
        <5> DEFINE n == Started
        <5>1. n \in 0 .. MaxWorkers /\ \A w \in Ids : Made(w) = IF w <= n THEN Iterations ELSE 0
            BY <4>1, <4>2
        <5> HIDE DEF n
        <5>2. Cardinality(Increments) = n * Iterations
            BY <1>0, <5>1, AllMade
        <5> QED
            BY <1>0, <5>2 DEF n
      <4> QED
          BY <3>1, <4>3 DEF Check, Started
    <3>2. CASE ~Check
      <4>1. main' = main \/ main' # "BadCount"
          BY <1>2, <3>2 DEF Next, Main, Worker, Spawn, Cancel, Overrun, SpawnFails, ThreadSpawnFails, Lock, LockCanceled,
                            Load, Store, Unlock, End
      <4>2. threads' = threads /\ workers' = workers
          BY <1>2, <3>2 DEF Next, Main, Worker, Spawn, Cancel, Overrun, SpawnFails, ThreadSpawnFails, Lock, LockCanceled,
                            Load, Store, Unlock, End
      <4> QED
          BY <1>0, <4>1, <4>2
    <3> QED
        BY <3>1, <3>2
  <2> QED
      BY <2>1, <2>2, <2>3 DEF IndInv, NoLostUpdate
<1> QED
    BY <1>1, <1>2

(***************************************************************************)
(* For every number of workers and rounds the counter is the number of     *)
(* increments made, and main's check (src/mutex_bench.zig:32,              *)
(* src/mutex_bench_native.zig:84-87) fails only for tasks started with a   *)
(* --workers they ignore.                                                  *)
(***************************************************************************)
THEOREM UpdatesKept == Spec => []NoLostUpdate
<1>1. Spec => []IndInv
    BY InitInv, StepInv, PTL DEF Spec
<1>2. IndInv => NoLostUpdate
    BY DEF IndInv
<1> QED
    BY <1>1, <1>2, PTL

-----------------------------------------------------------------------------
(* condition_bench                                                         *)

(* The invariant holds before the players are started. *)
LEMMA ConditionInit == PlayInit => PlayInv
BY ConditionBenchAssumption DEF PlayInit, PlayInv, PlayTypeOK, Alternate, SignalIsComing, Players, Nobody

(* Starting the players, canceling them and waiting for them preserves it (lines 27-35). *)
LEMMA ConditionRun == PlayInv /\ (Run \/ StartFails \/ ThreadStartFails) => PlayInv'
<1> SUFFICES ASSUME PlayInv, Run \/ StartFails \/ ThreadStartFails PROVE PlayInv'
    OBVIOUS
<1> USE DEF PlayInv, PlayTypeOK, Alternate, SignalIsComing, Players, Nobody
<1>1. ASSUME NEW p \in Players, StartPlayer(p) PROVE PlayInv'
    BY <1>1 DEF StartPlayer, Goto
<1>2. CASE StartFails \/ ThreadStartFails
    BY <1>2 DEF StartFails, ThreadStartFails
<1>3. CASE RunEnds
    BY <1>3 DEF RunEnds
<1> QED
    BY <1>1, <1>2, <1>3 DEF Run

(* The steps of a player preserve it (lines 17-25). *)
LEMMA ConditionPlayer ==
    ASSUME PlayInv, NEW p \in Players, Player(p) \/ SpuriousWake(p)
    PROVE  PlayInv'
<1> USE DEF PlayInv, PlayTypeOK, Alternate, SignalIsComing, Players, Nobody
<1>1. CASE PlayerLocks(p)
    BY <1>1 DEF PlayerLocks, Goto
<1>2. CASE TakeTurn(p)
    BY <1>2, ConditionBenchAssumption DEF TakeTurn, Goto
<1>3. CASE NotMyTurn(p)
    BY <1>3 DEF NotMyTurn, Goto
<1>4. CASE Wait(p)
    BY <1>4 DEF Wait, Goto
<1>5. CASE Relock(p)
    BY <1>5 DEF Relock, Goto
<1>6. CASE PlayerUnlocks(p)
    BY <1>6 DEF PlayerUnlocks, Goto
<1>7. CASE Signal(p)
    BY <1>7 DEF Signal
<1>8. CASE PlayerEnds(p)
    BY <1>8 DEF PlayerEnds, Goto
<1>9. CASE PlayerLockCanceled(p)
    BY <1>9 DEF PlayerLockCanceled, Goto
<1>10. CASE WaitCanceled(p)
    BY <1>10 DEF WaitCanceled, Goto
<1>11. CASE SpuriousWake(p)
    BY <1>11 DEF SpuriousWake, Goto
<1> QED
    BY <1>1, <1>2, <1>3, <1>4, <1>5, <1>6, <1>7, <1>8, <1>9, <1>10, <1>11 DEF Player

(***************************************************************************)
(* The invariant of the two players holds in every reachable state.        *)
(***************************************************************************)
THEOREM ConditionInvariance == PlaySpec => []PlayInv
<1>1. PlayInv /\ [PlayNext]_playVars => PlayInv'
    <2> SUFFICES ASSUME PlayInv, [PlayNext]_playVars PROVE PlayInv'
        OBVIOUS
    <2>1. CASE UNCHANGED playVars
        BY <2>1 DEF playVars, PlayInv, PlayTypeOK, Alternate, SignalIsComing
    <2>2. CASE PlayNext
        BY <2>2, ConditionRun, ConditionPlayer DEF PlayNext
    <2> QED
        BY <2>1, <2>2
<1> QED
    BY <1>1, ConditionInit, PTL DEF PlaySpec

(***************************************************************************)
(* "two tasks alternate turns": whatever the number of rounds, the turns   *)
(* taken differ by at most one (src/condition_bench.zig:5, 20-21).         *)
(***************************************************************************)
THEOREM TurnsAlternate == PlaySpec => []Alternate
<1>1. PlayInv => Alternate
    BY DEF PlayInv
<1> QED
    BY <1>1, ConditionInvariance, PTL

(***************************************************************************)
(* Nobody waits for a turn that is its own unless the opponent is about to *)
(* signal, although the signal is given after the unlock (lines 20-23).    *)
(***************************************************************************)
THEOREM NoSignalLost == PlaySpec => []SignalIsComing
<1>1. PlayInv => SignalIsComing
    BY DEF PlayInv
<1> QED
    BY <1>1, ConditionInvariance, PTL
=============================================================================
