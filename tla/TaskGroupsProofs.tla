-------------------------- MODULE TaskGroupsProofs --------------------------
(***************************************************************************)
(* The benchmarks that start tasks and wait for them, for every number of  *)
(* tasks, every depth of the tree and every length of the chain: nobody    *)
(* outlives the frame of its group, the count is what it claims to be, and *)
(* a duration is printed only when every task has run.                     *)
(***************************************************************************)
EXTENDS TaskGroups, FiniteSetTheorems, SequenceTheorems, WellFoundedInduction, TLAPS

(* What has been started are the first of the tasks to start. *)
Born ==
    \A n \in Tasks : \A i \in 1 .. NumKids(n) : pc[Append(n, i)] = "unborn" <=> started[n] < i

(* Which of the programs uses which step. *)
Places ==
    \A n \in Tasks :
        /\ pc[n] = "unborn" => started[n] = 0
        /\ pc[n] = "null" => program = "semaphore" /\ n # <<>>
        /\ pc[n] \in {"sleep", "count"} => program \in Sleepers /\ n # <<>>
        /\ pc[n] = "await" => HasGroup(n) /\ started[n] = NumKids(n)
        /\ pc[n] = "cancel" => program = "group" /\ n = <<>>
        /\ pc[n] = "done" /\ n # <<>> => started[n] = NumKids(n)

(* main is the task <<>>, and in all programs but spawn_tree everybody     *)
(* else is over when it ends.                                              *)
MainAt ==
    /\ main = "parsing" => pc[<<>>] = "unborn"
    /\ main = "running" => pc[<<>>] \in {"spawn", "call", "await", "cancel"}
    /\ main = "failed" => pc[<<>>] \in {"unborn", "done"}
    /\ main = "ok" => pc[<<>>] = "done" /\ started[<<>>] = NumKids(<<>>)
    /\ main # "short"
    /\ pc[<<>>] = "unborn" => \A n \in Tasks : pc[n] = "unborn"
    /\ main \in Ended /\ program # "spawn_tree" =>
          \A n \in Tasks \ {<<>>} : pc[n] \notin Live

Finished == {n \in Tasks \ {<<>>} : pc[n] = "done"}

(* Unless they are canceled, the sleepers that have finished are counted. *)
Counted ==
    /\ program \notin Sleepers => counter = 0
    /\ program \in Sleepers => counter <= Cardinality(Finished)
    /\ program \in Sleepers /\ pc[<<>>] # "cancel" /\ main # "failed" =>
          counter = Cardinality(Finished)
    /\ program \in Sleepers /\ main = "ok" => Finished = Tasks \ {<<>>}

(* A node of the tree ends after its children. *)
ChildrenFirst ==
    program = "spawn_tree" =>
        \A n \in Tasks : pc[n] = "done" => \A k \in GroupOf(n) : pc[k] = "done"

(* The conjunction that every step of main and of the tasks preserves. *)
IndInv == TypeOK /\ Born /\ Places /\ MainAt /\ Counted /\ ChildrenFirst

-----------------------------------------------------------------------------
(* Sets of numbers                                                         *)

(* A set of natural numbers has a least element: of the intervals that     *)
(* start at 0 and end in the set, one is smallest.                         *)
LEMMA LeastNumber ==
    ASSUME NEW T \in SUBSET Nat, T # {}
    PROVE  \E m \in T : \A n \in T : m <= n
<1> DEFINE F == {0 .. n : n \in T}
           R == StrictSubsetOrdering(Nat)
           S == FiniteSubsetsOf(Nat)
<1>1. IsWellFoundedOn(R, S)
    BY FS_StrictSubsetOrderingWellFounded
<1>2. F \subseteq S /\ F # {}
  <2>1. ASSUME NEW n \in T PROVE 0 .. n \in S
      BY FS_Interval DEF FiniteSubsetsOf
  <2> QED
      BY <2>1
<1> HIDE DEF R, S, F
<1>3. PICK x \in F : \A y \in F : ~(<<y, x>> \in R)
    BY <1>1, <1>2, WFMin
<1>4. PICK m \in T : x = 0 .. m
    BY <1>3 DEF F
<1>5. ASSUME NEW n \in T, n < m PROVE FALSE
  <2>1. 0 .. n \in F /\ ~(<<0 .. n, 0 .. m>> \in R)
      BY <1>3, <1>4 DEF F
  <2>2. 0 .. n \subseteq 0 .. m /\ 0 .. n # 0 .. m /\ 0 .. m \subseteq Nat
      BY <1>5
  <2> QED
      BY <2>1, <2>2 DEF R, StrictSubsetOrdering
<1> QED
    BY <1>4, <1>5

(* A bounded one has a largest. *)
LEMMA LargestNumber ==
    ASSUME NEW D \in Nat, NEW T \in SUBSET (0 .. D), T # {}
    PROVE  \E m \in T : \A n \in T : n <= m
<1> DEFINE U == {D - n : n \in T}
<1>1. \A n \in T : D - n \in Nat /\ n \in Nat /\ D - n \in U
    OBVIOUS
<1>2. PICK u \in U : \A v \in U : u <= v
  <2>1. U \subseteq Nat /\ U # {}
      BY <1>1
  <2> HIDE DEF U
  <2> QED
      BY <2>1, LeastNumber
<1>3. PICK m \in T : u = D - m
    BY <1>2
<1>4. ASSUME NEW n \in T PROVE n <= m
  <2>1. u <= D - n
      BY <1>1, <1>2
  <2> QED
      BY <1>1, <1>3, <2>1
<1> QED
    BY <1>4

-----------------------------------------------------------------------------
(* Paths                                                                   *)

Setting == program \in Programs /\ numTasks \in TaskCounts /\ sleepMs \in {0, 1}

(* A path is a sequence of numbers. *)
LEMMA PathFacts ==
    ASSUME NEW S, NEW d \in Nat, NEW n \in [1 .. d -> S]
    PROVE  n \in Seq(S) /\ Len(n) = d
OBVIOUS

LEMMA TaskFacts ==
    ASSUME Setting, NEW n
    PROVE  /\ program = "spawn_tree" =>
                 (n \in Tasks <=> n \in Seq({1, 2}) /\ Len(n) <= Depth)
           /\ program = "task_chain" =>
                 (n \in Tasks <=> n \in Seq({1}) /\ Len(n) <= ChainLength + 1)
           /\ program \in Sleepers =>
                 (n \in Tasks <=> n = <<>> \/ \E i \in 1 .. numTasks : n = <<i>>)
<1>1. CASE program = "spawn_tree"
  <2>1. ASSUME n \in Tasks PROVE n \in Seq({1, 2}) /\ Len(n) <= Depth
    <3>1. PICK d \in 0 .. Depth : n \in [1 .. d -> {1, 2}]
        BY <1>1, <2>1, TaskGroupsAssumption DEF Tasks
    <3> QED
        BY <3>1, PathFacts, TaskGroupsAssumption
  <2>2. ASSUME n \in Seq({1, 2}), Len(n) <= Depth PROVE n \in Tasks
    <3>1. Len(n) \in 0 .. Depth /\ n \in [1 .. Len(n) -> {1, 2}]
        BY <2>2, TaskGroupsAssumption
    <3> QED
        BY <1>1, <3>1 DEF Tasks
  <2> QED
      BY <1>1, <2>1, <2>2 DEF Sleepers
<1>2. CASE program = "task_chain"
  <2>1. ASSUME n \in Tasks PROVE n \in Seq({1}) /\ Len(n) <= ChainLength + 1
    <3>1. PICK d \in 0 .. ChainLength + 1 : n \in [1 .. d -> {1}]
        BY <1>2, <2>1, TaskGroupsAssumption DEF Tasks
    <3> QED
        BY <3>1, PathFacts, TaskGroupsAssumption
  <2>2. ASSUME n \in Seq({1}), Len(n) <= ChainLength + 1 PROVE n \in Tasks
    <3>1. Len(n) \in 0 .. ChainLength + 1 /\ n \in [1 .. Len(n) -> {1}]
        BY <2>2, TaskGroupsAssumption
    <3> QED
        BY <1>2, <3>1 DEF Tasks
  <2> QED
      BY <1>2, <2>1, <2>2 DEF Sleepers
<1>3. CASE program \in Sleepers
  <2>1. ASSUME NEW i \in 1 .. numTasks PROVE <<i>> \in [{1} -> 1 .. numTasks]
      OBVIOUS
  <2>2. ASSUME NEW f \in [{1} -> 1 .. numTasks] PROVE \E i \in 1 .. numTasks : f = <<i>>
    <3>1. f \in Seq(1 .. numTasks) /\ Len(f) = 1
      <4>1. {1} = 1 .. 1
          OBVIOUS
      <4> QED
          BY <4>1, PathFacts
    <3>2. f = <<f[1]>>
        BY <3>1
    <3> QED
        BY <3>2
  <2> QED
      BY <1>3, <2>1, <2>2 DEF Tasks, Sleepers
<1> QED
    BY <1>1, <1>2, <1>3 DEF Setting, Programs, Sleepers

(* The tasks are main and what the tasks start. *)
LEMMA Family ==
    ASSUME Setting
    PROVE  /\ <<>> \in Tasks
           /\ \A n \in Tasks : n \in Seq(Nat) /\ NumKids(n) \in Nat
           /\ \A n \in Tasks : \A i \in 1 .. NumKids(n) : Append(n, i) \in Tasks
           /\ \A k \in Tasks \ {<<>>} :
                 \E n \in Tasks : \E i \in 1 .. NumKids(n) : k = Append(n, i)
<1> USE TaskGroupsAssumption
<1>0. numTasks \in Nat /\ Len(<<>>) = 0 /\ \A S : <<>> \in Seq(S)
    BY DEF Setting
<1>1. <<>> \in Tasks
  <2>1. Len(<<>>) <= Depth /\ Len(<<>>) <= ChainLength + 1
      BY <1>0
  <2>2. <<>> \in Seq({1, 2}) /\ <<>> \in Seq({1})
      BY <1>0
  <2> QED
      BY <2>1, <2>2, TaskFacts DEF Setting, Programs
<1>2. ASSUME NEW n \in Tasks PROVE n \in Seq(Nat) /\ NumKids(n) \in Nat
  <2>1. n \in Seq(Nat)
    <3>1. n \in Seq({1, 2}) \/ n \in Seq({1}) => n \in Seq(Nat)
        OBVIOUS
    <3>2. ASSUME NEW i \in 1 .. numTasks PROVE <<i>> \in Seq(Nat)
        BY <1>0
    <3>3. <<>> \in Seq(Nat)
        OBVIOUS
    <3>4. CASE program = "spawn_tree"
        BY <3>1, <3>4, TaskFacts
    <3>5. CASE program = "task_chain"
        BY <3>1, <3>5, TaskFacts
    <3>6. CASE program \in Sleepers
        BY <3>2, <3>3, <3>6, TaskFacts
    <3> QED
        BY <3>4, <3>5, <3>6 DEF Setting, Programs
  <2> QED
      BY <1>0, <2>1 DEF NumKids
<1>3. ASSUME NEW n \in Tasks, NEW i \in 1 .. NumKids(n) PROVE Append(n, i) \in Tasks
  <2>0. n \in Seq(Nat) /\ i \in Nat
      BY <1>2
  <2>1. CASE program = "spawn_tree"
    <3>1. i \in {1, 2} /\ Len(n) < Depth /\ n \in Seq({1, 2})
        BY <2>0, <2>1, TaskFacts DEF NumKids
    <3>2. Append(n, i) \in Seq({1, 2}) /\ Len(Append(n, i)) = Len(n) + 1
        BY <3>1
    <3>3. Len(Append(n, i)) <= Depth
        BY <3>1, <3>2
    <3> QED
        BY <2>1, <3>2, <3>3, TaskFacts
  <2>2. CASE program = "task_chain"
    <3>1. i \in {1} /\ Len(n) <= ChainLength /\ n \in Seq({1})
        BY <2>0, <2>2, TaskFacts DEF NumKids
    <3>2. Append(n, i) \in Seq({1}) /\ Len(Append(n, i)) = Len(n) + 1
        BY <3>1
    <3>3. Len(Append(n, i)) <= ChainLength + 1
        BY <3>1, <3>2
    <3> QED
        BY <2>2, <3>2, <3>3, TaskFacts
  <2>3. CASE program \in Sleepers
    <3>1. n = <<>> /\ i \in 1 .. numTasks
        BY <1>0, <2>3 DEF NumKids, Sleepers
    <3>2. Append(n, i) = <<i>>
        BY <3>1
    <3> QED
        BY <2>3, <3>1, <3>2, TaskFacts DEF Sleepers
  <2> QED
      BY <2>1, <2>2, <2>3 DEF Setting, Programs
<1>4. ASSUME NEW k \in Tasks, k # <<>>
      PROVE  \E n \in Tasks : \E i \in 1 .. NumKids(n) : k = Append(n, i)
  <2> DEFINE n == SubSeq(k, 1, Len(k) - 1)
             i == k[Len(k)]
  <2>0. k \in Seq(Nat) /\ Len(k) \in Nat \ {0}
      BY <1>2, <1>4
  <2>1. n \in Seq(Nat) /\ Len(n) = Len(k) - 1 /\ k = Append(n, i)
    <3>1. n \in Seq(Nat) /\ Len(n) = Len(k) - 1 /\ \A x \in 1 .. Len(k) - 1 : n[x] = k[x]
      <4> DEFINE l == Len(k) - 1
      <4>1. l \in Int /\ l >= 0 /\ \A x \in 1 .. l : k[x] \in Nat
          BY <2>0
      <4> HIDE DEF l
      <4>2. /\ SubSeq(k, 1, l) \in Seq(Nat)
            /\ Len(SubSeq(k, 1, l)) = IF 1 <= l THEN l - 1 + 1 ELSE 0
            /\ \A x \in 1 .. l - 1 + 1 : SubSeq(k, 1, l)[x] = k[1 + x - 1]
          BY <4>1, SubSeqProperties
      <4>3. Len(SubSeq(k, 1, l)) = l /\ \A x \in 1 .. l : SubSeq(k, 1, l)[x] = k[x]
          BY <4>1, <4>2
      <4> QED
          BY <4>2, <4>3 DEF l
    <3>2. i \in Nat
        BY <2>0
    <3> HIDE DEF n
    <3>3. /\ Append(n, i) \in Seq(Nat) /\ Len(Append(n, i)) = Len(k)
          /\ Append(n, i)[Len(k)] = i /\ \A x \in 1 .. Len(k) - 1 : Append(n, i)[x] = n[x]
        BY <2>0, <3>1, <3>2
    <3>4. \A x \in 1 .. Len(k) : k[x] = Append(n, i)[x]
        BY <2>0, <3>1, <3>3
    <3> QED
        BY <2>0, <3>1, <3>3, <3>4, SeqEqual
  <2>2. CASE program = "spawn_tree"
    <3>1. k \in Seq({1, 2}) /\ Len(k) <= Depth
        BY <2>2, TaskFacts
    <3>2. n \in Seq({1, 2}) /\ i \in {1, 2}
        BY <2>0, <3>1
    <3>3. Len(n) < Depth
        BY <2>0, <2>1, <3>1
    <3> HIDE DEF n, i
    <3>4. n \in Tasks /\ NumKids(n) = 2
        BY <2>2, <3>2, <3>3, TaskFacts DEF NumKids
    <3> QED
        BY <2>1, <3>2, <3>4
  <2>3. CASE program = "task_chain"
    <3>1. k \in Seq({1}) /\ Len(k) <= ChainLength + 1
        BY <2>3, TaskFacts
    <3>2. n \in Seq({1}) /\ i \in {1}
        BY <2>0, <3>1
    <3>3. Len(n) <= ChainLength
        BY <2>0, <2>1, <3>1
    <3> HIDE DEF n, i
    <3>4. n \in Tasks /\ NumKids(n) = 1
        BY <2>1, <2>3, <3>2, <3>3, TaskFacts DEF NumKids
    <3> QED
        BY <2>1, <3>2, <3>4
  <2>4. CASE program \in Sleepers
    <3>1. PICK j \in 1 .. numTasks : k = <<j>>
        BY <1>4, <2>4, TaskFacts DEF Sleepers
    <3>2. k = Append(<<>>, j) /\ NumKids(<<>>) = numTasks
        BY <2>4, <3>1 DEF NumKids, Sleepers
    <3> QED
        BY <1>1, <3>2
  <2> QED
      BY <2>2, <2>3, <2>4 DEF Setting, Programs
<1> QED
    BY <1>1, <1>2, <1>3, <1>4

(* A path says who started it. *)
LEMMA AppendUnique ==
    ASSUME NEW n \in Seq(Nat), NEW m \in Seq(Nat), NEW i \in Nat, NEW j \in Nat
    PROVE  /\ Append(n, i) = Append(m, j) => n = m /\ i = j
           /\ Append(n, i) # <<>>
           /\ Append(n, i) # n
           /\ Len(Append(n, i)) = Len(n) + 1
<1>1. /\ Len(Append(n, i)) = Len(n) + 1 /\ Append(n, i)[Len(n) + 1] = i
      /\ Append(n, i) \in Seq(Nat) /\ \A x \in 1 .. Len(n) : Append(n, i)[x] = n[x]
    OBVIOUS
<1>2. /\ Len(Append(m, j)) = Len(m) + 1 /\ Append(m, j)[Len(m) + 1] = j
      /\ Append(m, j) \in Seq(Nat) /\ \A x \in 1 .. Len(m) : Append(m, j)[x] = m[x]
    OBVIOUS
<1>3. ASSUME Append(n, i) = Append(m, j) PROVE n = m /\ i = j
  <2>1. Len(n) = Len(m) /\ i = j
      BY <1>1, <1>2, <1>3
  <2>2. \A x \in 1 .. Len(n) : n[x] = m[x]
      BY <1>1, <1>2, <1>3, <2>1
  <2> QED
      BY <2>1, <2>2, SeqEqual
<1>4. Append(n, i) # <<>> /\ Append(n, i) # n
  <2>1. Len(<<>>) = 0 /\ Len(n) + 1 # 0 /\ Len(n) + 1 # Len(n)
      OBVIOUS
  <2> QED
      BY <1>1, <2>1
<1> QED
    BY <1>1, <1>3, <1>4

(* Only the nodes of the tree and main have a group; that of a node are    *)
(* its children.                                                           *)
LEMMA Groups ==
    ASSUME Setting, NEW n \in Tasks
    PROVE  /\ program = "spawn_tree" => GroupOf(n) = {Append(n, i) : i \in 1 .. NumKids(n)}
           /\ program # "spawn_tree" => GroupOf(n) = IF n = <<>> THEN Tasks \ {<<>>} ELSE {}
           /\ GroupOf(n) \subseteq Tasks \ {<<>>}
<1>1. n \in Seq(Nat) /\ NumKids(n) \in Nat
    BY Family
<1>2. CASE program # "spawn_tree"
    BY <1>2 DEF GroupOf
<1>3. CASE program = "spawn_tree"
  <2>1. ASSUME NEW k \in GroupOf(n) PROVE \E i \in 1 .. NumKids(n) : k = Append(n, i)
    <3>1. k \in Tasks /\ k \in Seq(Nat) /\ Len(k) = Len(n) + 1 /\ SubSeq(k, 1, Len(n)) = n
        BY <1>3, Family DEF GroupOf
    <3>2. k # <<>>
        BY <3>1
    <3>3. PICK m \in Tasks : \E i \in 1 .. NumKids(m) : k = Append(m, i)
        BY <3>1, <3>2, Family
    <3>4. PICK i \in 1 .. NumKids(m) : k = Append(m, i)
        BY <3>3
    <3>5. m \in Seq(Nat) /\ NumKids(m) \in Nat
        BY Family
    <3>6. Len(m) = Len(n)
        BY <1>1, <3>1, <3>4, <3>5
    <3>7. SubSeq(k, 1, Len(m)) = m
        BY <3>4, <3>5
    <3> QED
        BY <3>1, <3>4, <3>6, <3>7
  <2>2. ASSUME NEW i \in 1 .. NumKids(n) PROVE Append(n, i) \in GroupOf(n)
    <3>1. Append(n, i) \in Tasks
        BY Family
    <3>2. Len(Append(n, i)) = Len(n) + 1 /\ SubSeq(Append(n, i), 1, Len(n)) = n
        BY <1>1
    <3> QED
        BY <1>3, <3>1, <3>2 DEF GroupOf
  <2>3. GroupOf(n) = {Append(n, i) : i \in 1 .. NumKids(n)}
      BY <2>1, <2>2
  <2>4. ASSUME NEW i \in 1 .. NumKids(n) PROVE Append(n, i) \in Tasks /\ Append(n, i) # <<>>
    <3>1. i \in Nat
        BY <1>1
    <3> QED
        BY <1>1, <3>1, Family, AppendUnique
  <2> QED
      BY <1>3, <2>3, <2>4
<1> QED
    BY <1>2, <1>3

(***************************************************************************)
(* The tree has 2^(Depth + 1) - 1 nodes: the steps to the right and the    *)
(* length of a path make a set of numbers up to Depth whose largest        *)
(* element is the length, and every set but the empty one is such a set.   *)
(***************************************************************************)
Code(n) == {j \in 0 .. Len(n) : j = Len(n) \/ n[j + 1] = 2}

LEMMA TreeSize ==
    ASSUME Setting, program = "spawn_tree"
    PROVE  IsFiniteSet(Tasks) /\ Cardinality(Tasks) = 2 ^ (Depth + 1) - 1
<1> DEFINE Sets == (SUBSET (0 .. Depth)) \ {{}}
           f == [n \in Tasks |-> Code(n)]
<1>0. Depth \in Nat
    BY TaskGroupsAssumption
<1>1. \A n : n \in Tasks <=> n \in Seq({1, 2}) /\ Len(n) <= Depth
    BY TaskFacts
<1>2. IsFiniteSet(Sets) /\ Cardinality(Sets) = 2 ^ (Depth + 1) - 1
  <2>1. IsFiniteSet(0 .. Depth) /\ Cardinality(0 .. Depth) = Depth + 1
      BY <1>0, FS_Interval
  <2>2. IsFiniteSet(SUBSET (0 .. Depth)) /\ Cardinality(SUBSET (0 .. Depth)) = 2 ^ (Depth + 1)
      BY <2>1, FS_SUBSET
  <2> DEFINE U == SUBSET (0 .. Depth)
  <2>3. {} \in U /\ Sets = U \ {{}}
      OBVIOUS
  <2> HIDE DEF U, Sets
  <2> QED
      BY <2>2, <2>3, FS_RemoveElement DEF U
<1>3. ASSUME NEW n \in Tasks
      PROVE  Len(n) \in Code(n) /\ Code(n) \in Sets /\ \A j \in Code(n) : j <= Len(n)
  <2>1. Len(n) \in 0 .. Depth
      BY <1>0, <1>1
  <2>2. Len(n) \in Code(n) /\ Code(n) \subseteq 0 .. Len(n)
      BY <2>1 DEF Code
  <2>3. 0 .. Len(n) \subseteq 0 .. Depth
      BY <1>0, <2>1
  <2> HIDE DEF Sets
  <2>4. Code(n) \in Sets
      BY <2>2, <2>3 DEF Sets
  <2> QED
      BY <2>1, <2>2, <2>4
<1>4. f \in Injection(Tasks, Sets)
  <2>1. ASSUME NEW n \in Tasks, NEW m \in Tasks, Code(n) = Code(m) PROVE n = m
    <3>1. Len(n) \in Nat /\ Len(m) \in Nat /\ n \in Seq({1, 2}) /\ m \in Seq({1, 2})
        BY <1>1
    <3>2. Len(n) = Len(m)
        BY <1>3, <2>1, <3>1
    <3>3. ASSUME NEW x \in 1 .. Len(n) PROVE n[x] = m[x]
      <4>1. x - 1 \in 0 .. Len(n) /\ x - 1 # Len(n) /\ (x - 1) + 1 = x
          BY <3>1
      <4>2. n[x] = 2 <=> x - 1 \in Code(n)
          BY <4>1 DEF Code
      <4>3. m[x] = 2 <=> x - 1 \in Code(m)
          BY <3>2, <4>1 DEF Code
      <4>4. n[x] \in {1, 2} /\ m[x] \in {1, 2}
          BY <3>1, <3>2
      <4> QED
          BY <2>1, <4>2, <4>3, <4>4
    <3> QED
        BY <3>1, <3>2, <3>3, SeqEqual
  <2>2. f \in [Tasks -> Sets] /\ \A n \in Tasks : f[n] = Code(n)
      BY <1>3
  <2> HIDE DEF f, Sets
  <2> QED
      BY <2>1, <2>2 DEF Injection, IsInjective
<1>5. f \in Surjection(Tasks, Sets)
  <2>1. ASSUME NEW A \in Sets PROVE \E n \in Tasks : Code(n) = A
    <3>1. PICK d \in A : \A j \in A : j <= d
      <4>1. A \in SUBSET (0 .. Depth) /\ A # {}
          OBVIOUS
      <4> QED
          BY <1>0, <4>1, LargestNumber
    <3>2. d \in 0 .. Depth /\ A \subseteq 0 .. Depth
        OBVIOUS
    <3> DEFINE n == [x \in 1 .. d |-> IF x - 1 \in A THEN 2 ELSE 1]
    <3>3. n \in [1 .. d -> {1, 2}]
        OBVIOUS
    <3>4. n \in Seq({1, 2}) /\ Len(n) = d
        BY <1>0, <3>2, <3>3, PathFacts
    <3>5. n \in Tasks
        BY <1>0, <1>1, <3>2, <3>4
    <3>6. ASSUME NEW j \in 0 .. d, j # d PROVE n[j + 1] = 2 <=> j \in A
      <4>1. j + 1 \in 1 .. d /\ (j + 1) - 1 = j
          BY <1>0, <3>2, <3>6
      <4> QED
          BY <4>1
    <3>7. A \subseteq 0 .. d
        BY <1>0, <3>1, <3>2
    <3> HIDE DEF n
    <3>8. Code(n) = A
        BY <3>1, <3>4, <3>6, <3>7 DEF Code
    <3> QED
        BY <3>5, <3>8
  <2>2. f \in [Tasks -> Sets] /\ \A n \in Tasks : f[n] = Code(n)
      BY <1>3
  <2> HIDE DEF f, Sets
  <2>3. ASSUME NEW A \in Sets PROVE \E n \in Tasks : f[n] = A
      BY <2>1, <2>2
  <2> QED
      BY <2>2, <2>3 DEF Surjection
<1> HIDE DEF f, Sets
<1>6. IsFiniteSet(Tasks) /\ Cardinality(Tasks) = Cardinality(Sets)
    BY <1>2, <1>4, <1>5, FS_Injection
<1> QED
    BY <1>2, <1>6

(* There is one link of each length. *)
LEMMA ChainFinite ==
    ASSUME Setting, program = "task_chain"
    PROVE  IsFiniteSet(Tasks)
<1> DEFINE f == [n \in Tasks |-> Len(n)]
<1>1. ChainLength \in Nat
    BY TaskGroupsAssumption
<1>2. \A n \in Tasks : n \in Seq({1}) /\ Len(n) \in 0 .. ChainLength + 1
    BY <1>1, TaskFacts
<1>3. ASSUME NEW n \in Tasks, NEW m \in Tasks, Len(n) = Len(m) PROVE n = m
  <2>1. n \in Seq({1}) /\ m \in Seq({1}) /\ \A x \in 1 .. Len(n) : n[x] = 1 /\ m[x] = 1
      BY <1>2, <1>3
  <2> QED
      BY <1>3, <2>1, SeqEqual
<1>4. f \in Injection(Tasks, 0 .. ChainLength + 1)
  <2>1. f \in [Tasks -> 0 .. ChainLength + 1] /\ \A n \in Tasks : f[n] = Len(n)
      BY <1>2
  <2> HIDE DEF f
  <2> QED
      BY <1>3, <2>1 DEF Injection, IsInjective
<1> HIDE DEF f
<1>5. IsFiniteSet(0 .. ChainLength + 1)
    BY <1>1, FS_Interval
<1> QED
    BY <1>4, <1>5, FS_Injection

(* There are as many sleepers as were asked for. *)
LEMMA SleepersSize ==
    ASSUME Setting, program \in Sleepers
    PROVE  IsFiniteSet(Tasks) /\ Cardinality(Tasks \ {<<>>}) = numTasks
<1> DEFINE f == [i \in 1 .. numTasks |-> <<i>>]
           S == Tasks \ {<<>>}
<1>1. numTasks \in Nat
    BY TaskGroupsAssumption DEF Setting
<1>2. \A n : n \in Tasks <=> n = <<>> \/ \E i \in 1 .. numTasks : n = <<i>>
    BY TaskFacts
<1>3. \A i \in 1 .. numTasks : <<i>> \in S
    BY <1>2
<1>4. f \in Injection(1 .. numTasks, S)
  <2>1. f \in [1 .. numTasks -> S] /\ \A i \in 1 .. numTasks : f[i] = <<i>>
      BY <1>3
  <2>2. \A i, j : <<i>> = <<j>> => i = j
      OBVIOUS
  <2> HIDE DEF f, S
  <2> QED
      BY <2>1, <2>2 DEF Injection, IsInjective
<1>5. f \in Surjection(1 .. numTasks, S)
    BY <1>2, <1>3 DEF Surjection
<1>6. IsFiniteSet(1 .. numTasks) /\ Cardinality(1 .. numTasks) = numTasks
    BY <1>1, FS_Interval
<1> HIDE DEF f, S
<1>7. IsFiniteSet(S) /\ Cardinality(S) = numTasks
    BY <1>4, <1>5, <1>6, FS_Surjection
<1>8. Tasks = S \union {<<>>}
    BY <1>2 DEF S
<1> QED
    BY <1>7, <1>8, FS_AddElement DEF S

LEMMA TasksFinite ==
    ASSUME Setting
    PROVE  /\ IsFiniteSet(Tasks) /\ Cardinality(Tasks) \in Nat
           /\ Cardinality(Tasks \ {<<>>}) = Cardinality(Tasks) - 1
           /\ Cardinality(Tasks) >= 1
<1>1. IsFiniteSet(Tasks)
    BY TreeSize, ChainFinite, SleepersSize DEF Setting, Programs
<1>2. <<>> \in Tasks
    BY Family
<1>3. Cardinality(Tasks \ {<<>>}) = Cardinality(Tasks) - 1 /\ IsFiniteSet(Tasks \ {<<>>})
    BY <1>1, <1>2, FS_RemoveElement
<1>4. Cardinality(Tasks \ {<<>>}) \in Nat /\ Cardinality(Tasks) \in Nat
    BY <1>1, <1>3, FS_CardinalityType
<1> QED
    BY <1>1, <1>3, <1>4

-----------------------------------------------------------------------------
(* Steps                                                                   *)

LEMMA SameFamily ==
    ASSUME UNCHANGED setting
    PROVE  /\ Tasks' = Tasks
           /\ \A n : NumKids(n)' = NumKids(n) /\ GroupOf(n)' = GroupOf(n) /\ HasGroup(n)' = HasGroup(n)
           /\ program' = program /\ numTasks' = numTasks /\ sleepMs' = sleepMs
BY DEF setting, Tasks, NumKids, GroupOf, HasGroup

(* The next task n starts is one that has not been started. *)
LEMMA NextKid ==
    ASSUME IndInv, NEW n \in Tasks, started[n] < NumKids(n)
    PROVE  /\ Setting /\ started[n] \in Nat /\ NumKids(n) \in Nat
           /\ started[n] + 1 \in 1 .. NumKids(n)
           /\ Kid(n) \in Tasks /\ Kid(n) # n /\ Kid(n) # <<>>
           /\ pc[Kid(n)] = "unborn" /\ started[Kid(n)] = 0
           /\ \A m \in Tasks : \A i \in 1 .. NumKids(m) :
                 Append(m, i) = Kid(n) => m = n /\ i = started[n] + 1
<1>1. Setting
    BY DEF IndInv, TypeOK, Setting
<1>2. n \in Seq(Nat) /\ started[n] \in Nat /\ NumKids(n) \in Nat
    BY <1>1, Family DEF IndInv, TypeOK
<1>3. started[n] + 1 \in 1 .. NumKids(n) /\ started[n] + 1 \in Nat
    BY <1>2
<1>4. Kid(n) \in Tasks /\ pc[Kid(n)] = "unborn"
    BY <1>1, <1>2, <1>3, Family DEF Kid, IndInv, Born
<1>5. Kid(n) # n /\ Kid(n) # <<>>
    BY <1>2, <1>3, AppendUnique DEF Kid
<1>6. ASSUME NEW m \in Tasks, NEW i \in 1 .. NumKids(m), Append(m, i) = Kid(n)
      PROVE  m = n /\ i = started[n] + 1
  <2>1. m \in Seq(Nat) /\ i \in Nat
      BY <1>1, Family
  <2> QED
      BY <1>2, <1>3, <1>6, <2>1, AppendUnique DEF Kid
<1> QED
    BY <1>1, <1>2, <1>3, <1>4, <1>5, <1>6 DEF IndInv, Places

(* How many sleepers have finished. *)
LEMMA FinishedFacts ==
    ASSUME Setting
    PROVE  /\ IsFiniteSet(Finished) /\ Cardinality(Finished) \in Nat
           /\ Cardinality(Finished) <= Cardinality(Tasks \ {<<>>})
           /\ Cardinality(Finished) = Cardinality(Tasks \ {<<>>}) => Finished = Tasks \ {<<>>}
<1> DEFINE S == Tasks \ {<<>>}
<1>1. IsFiniteSet(S)
    BY TasksFinite, FS_RemoveElement
<1>2. Finished \in SUBSET S
    BY DEF Finished
<1> HIDE DEF S
<1>3. IsFiniteSet(Finished) /\ Cardinality(Finished) <= Cardinality(S)
      /\ (Cardinality(S) = Cardinality(Finished) => S = Finished)
    BY <1>1, <1>2, FS_Subset
<1> QED
    BY <1>3, FS_CardinalityType DEF S

(***************************************************************************)
(* Spawn, Call and CreateFails: task n starts Kid(n) and stays where it is *)
(* or runs it itself.                                                      *)
(***************************************************************************)
LEMMA CreateMoves ==
    ASSUME IndInv, NEW n \in Tasks, Spawn(n) \/ Call(n) \/ CreateFails(n)
    PROVE  IndInv'
<1> DEFINE k == Kid(n)
           here == pc'[n]
           there == pc'[k]
<1>1. pc[n] = "spawn" /\ started[n] < NumKids(n) /\ UNCHANGED <<setting, main, counter>>
    BY DEF Spawn, Call, CreateFails, Spawning
<1>2. /\ Setting /\ started[n] \in Nat /\ NumKids(n) \in Nat
      /\ started[n] + 1 \in 1 .. NumKids(n)
      /\ k \in Tasks /\ k # n /\ k # <<>> /\ pc[k] = "unborn" /\ started[k] = 0
      /\ \A m \in Tasks : \A i \in 1 .. NumKids(m) : Append(m, i) = k => m = n /\ i = started[n] + 1
    BY <1>1, NextKid
<1>3. pc \in [Tasks -> Live \union {"unborn", "null", "done"}] /\ started \in [Tasks -> Nat]
    BY DEF IndInv, TypeOK
<1> HIDE DEF k
<1>4. /\ pc' \in [Tasks -> Live \union {"unborn", "null", "done"}]
      /\ here \in {"spawn", "call"} /\ there \in {"spawn", "null"}
      /\ there = "null" => program = "semaphore"
      /\ \A m \in Tasks : m \notin {n, k} => pc'[m] = pc[m]
    BY <1>1, <1>2, <1>3 DEF Spawn, Call, CreateFails, k, Live
<1>5. /\ started' \in [Tasks -> Nat]
      /\ \A m \in Tasks : started'[m] = IF m = n THEN started[n] + 1 ELSE started[m]
    BY <1>1, <1>2, <1>3 DEF Spawn, Call, CreateFails
<1>6. /\ Tasks' = Tasks
      /\ \A m : NumKids(m)' = NumKids(m) /\ GroupOf(m)' = GroupOf(m) /\ HasGroup(m)' = HasGroup(m)
      /\ program' = program /\ numTasks' = numTasks /\ sleepMs' = sleepMs
    BY <1>1, SameFamily
<1> HIDE DEF here, there
<1>7. pc'[n] \in {"spawn", "call"} /\ pc'[k] \in {"spawn", "null"}
      /\ (pc'[k] = "null" => program = "semaphore")
    BY <1>4 DEF here, there
<1>8. Finished' = Finished
    BY <1>1, <1>2, <1>4, <1>6, <1>7 DEF Finished
<1>9. TypeOK'
    BY <1>1, <1>2, <1>4, <1>5, <1>6 DEF IndInv, TypeOK
<1>10. Born'
  <2> SUFFICES ASSUME NEW m \in Tasks, NEW i \in 1 .. NumKids(m)
               PROVE  pc'[Append(m, i)] = "unborn" <=> started'[m] < i
      BY <1>6 DEF Born
  <2>1. Append(m, i) \in Tasks /\ NumKids(m) \in Nat /\ started[m] \in Nat
      BY <1>2, <1>3, Family
  <2>2. pc[Append(m, i)] = "unborn" <=> started[m] < i
      BY DEF IndInv, Born
  <2>3. CASE Append(m, i) = k
      BY <1>2, <1>5, <1>7, <2>3
  <2>4. CASE Append(m, i) # k
    <3>1. pc'[Append(m, i)] = "unborn" <=> pc[Append(m, i)] = "unborn"
        BY <1>1, <1>4, <1>7, <2>1, <2>4
    <3>2. CASE m # n
        BY <1>5, <2>2, <3>1, <3>2
    <3>3. CASE m = n
      <4>1. i # started[n] + 1
          BY <2>4, <3>3 DEF k, Kid
      <4> QED
          BY <1>2, <1>5, <2>1, <2>2, <3>1, <3>3, <4>1
    <3> QED
        BY <3>2, <3>3
  <2> QED
      BY <2>3, <2>4
<1>11. Places'
  <2> SUFFICES ASSUME NEW m \in Tasks
               PROVE  /\ pc'[m] = "unborn" => started'[m] = 0
                      /\ pc'[m] = "null" => program = "semaphore" /\ m # <<>>
                      /\ pc'[m] \in {"sleep", "count"} => program \in Sleepers /\ m # <<>>
                      /\ pc'[m] = "await" => HasGroup(m) /\ started'[m] = NumKids(m)
                      /\ pc'[m] = "cancel" => program = "group" /\ m = <<>>
                      /\ pc'[m] = "done" /\ m # <<>> => started'[m] = NumKids(m)
      BY <1>6 DEF Places
  <2>1. CASE m \in {n, k}
      BY <1>2, <1>5, <1>7, <2>1
  <2>2. CASE m \notin {n, k}
    <3>1. pc'[m] = pc[m] /\ started'[m] = started[m]
        BY <1>4, <1>5, <2>2
    <3> QED
        BY <3>1 DEF IndInv, Places
  <2> QED
      BY <2>1, <2>2
<1>12. MainAt'
  <2>1. <<>> \in Tasks
      BY <1>2, Family
  <2>2. pc[<<>>] # "unborn"
      BY <1>1 DEF IndInv, MainAt
  <2>3. ASSUME main \in Ended PROVE n # <<>> /\ program = "spawn_tree"
      BY <1>1, <2>1, <2>3 DEF IndInv, MainAt, Ended, Live
  <2>4. IF n = <<>> THEN pc'[<<>>] \in {"spawn", "call"} ELSE pc'[<<>>] = pc[<<>>] /\ started'[<<>>] = started[<<>>]
      BY <1>2, <1>4, <1>5, <1>7, <2>1
  <2>5. n = <<>> => main = "running"
      BY <1>1, <2>3 DEF IndInv, MainAt, TypeOK
  <2> QED
      BY <1>1, <1>6, <2>2, <2>3, <2>4, <2>5 DEF IndInv, MainAt, Ended
<1>13. Counted'
  <2>1. pc'[<<>>] = "cancel" <=> pc[<<>>] = "cancel"
      BY <1>1, <1>2, <1>4, <1>7, Family
  <2> QED
      BY <1>1, <1>6, <1>8, <2>1 DEF IndInv, Counted
<1>14. ChildrenFirst'
  <2> SUFFICES ASSUME program = "spawn_tree", NEW m \in Tasks, pc'[m] = "done", NEW j \in GroupOf(m)
               PROVE  pc'[j] = "done"
      BY <1>6 DEF ChildrenFirst
  <2>1. m \notin {n, k} /\ pc[m] = "done"
      BY <1>4, <1>7
  <2>2. pc[j] = "done" /\ j \in Tasks
      BY <1>2, <2>1, Groups DEF IndInv, ChildrenFirst
  <2> QED
      BY <1>1, <1>2, <1>4, <2>2
<1> QED
    BY <1>9, <1>10, <1>11, <1>12, <1>13, <1>14 DEF IndInv

(* When all tasks of a group have been started and are over, they have     *)
(* run, unless they could not be created.                                  *)
LEMMA GroupRan ==
    ASSUME IndInv, program = "spawn_tree", NEW n \in Tasks, started[n] = NumKids(n),
           \A j \in GroupOf(n) : pc[j] \notin Live
    PROVE  \A j \in GroupOf(n) : pc[j] = "done"
<1> SUFFICES ASSUME NEW j \in GroupOf(n) PROVE pc[j] = "done"
    OBVIOUS
<1>1. Setting
    BY DEF IndInv, TypeOK, Setting
<1>2. PICK i \in 1 .. NumKids(n) : j = Append(n, i)
    BY <1>1, Groups
<1>3. j \in Tasks /\ NumKids(n) \in Nat
    BY <1>1, Groups, Family
<1>4. pc[j] # "unborn"
    BY <1>2, <1>3 DEF IndInv, Born
<1>5. pc[j] # "null"
    BY <1>3 DEF IndInv, Places
<1> QED
    BY <1>3, <1>4, <1>5 DEF IndInv, TypeOK

(* The end of task n adds it to those that have finished. *)
LEMMA OneFinished ==
    ASSUME IndInv, NEW n \in Tasks, n # <<>>, UNCHANGED setting, pc[n] # "done", pc'[n] = "done",
           \A m \in Tasks : m # n => pc'[m] = pc[m]
    PROVE  Cardinality(Finished)' = Cardinality(Finished) + 1
<1>1. Setting
    BY DEF IndInv, TypeOK, Setting
<1>2. Finished' = Finished \union {n} /\ n \notin Finished
    BY SameFamily DEF Finished
<1> QED
    BY <1>1, <1>2, FinishedFacts, FS_AddElement

(***************************************************************************)
(* CallReturns, SpawnedAll, Wake, Count, SleepCanceled, Awaited and        *)
(* SpawnFails: task n goes on or ends.                                     *)
(***************************************************************************)
Goes(n) ==
    \/ CallReturns(n) \/ SpawnedAll(n) \/ Wake(n) \/ Count(n)
    \/ SleepCanceled(n) \/ Awaited(n) \/ SpawnFails(n)

(* Where it goes. *)
LEMMA Destination ==
    ASSUME IndInv, NEW n \in Tasks, Goes(n)
    PROVE  /\ UNCHANGED <<setting, main, started>>
           /\ pc[n] \in {"call", "spawn", "sleep", "count", "await"}
           /\ pc'[n] \in {"spawn", "await", "done", "sleep", "count", "cancel"}
           /\ pc' \in [Tasks -> Live \union {"unborn", "null", "done"}]
           /\ \A m \in Tasks : m # n => pc'[m] = pc[m]
           /\ pc'[n] = "await" => HasGroup(n) /\ started[n] = NumKids(n)
           /\ pc'[n] \in {"sleep", "count"} => program \in Sleepers /\ n # <<>>
           /\ pc'[n] = "cancel" => program = "group" /\ n = <<>>
           /\ pc'[n] = "done" => n # <<>> /\ started[n] = NumKids(n)
           /\ pc'[n] = "done" /\ program = "spawn_tree" => \A k \in GroupOf(n) : pc[k] = "done"
           /\ pc'[n] = "done" /\ program \in Sleepers /\ pc[<<>>] # "cancel" => Count(n)
           /\ IF Count(n) THEN counter' = counter + 1 /\ pc'[n] = "done" /\ program \in Sleepers
                          ELSE counter' = counter
<1>0. Setting /\ pc \in [Tasks -> Live \union {"unborn", "null", "done"}] /\ <<>> \in Tasks
    BY Family DEF IndInv, TypeOK, Setting
<1>1. UNCHANGED <<setting, main, started>>
    BY DEF Goes, CallReturns, SpawnedAll, Wake, Count, SleepCanceled, Awaited, SpawnFails
<1>2. \E l \in {"spawn", "await", "done", "sleep", "count", "cancel"} : pc' = [pc EXCEPT ![n] = l]
    BY DEF Goes, CallReturns, SpawnedAll, Wake, Count, SleepCanceled, Awaited, SpawnFails
<1>3. /\ pc'[n] \in {"spawn", "await", "done", "sleep", "count", "cancel"}
      /\ pc' \in [Tasks -> Live \union {"unborn", "null", "done"}]
      /\ \A m \in Tasks : m # n => pc'[m] = pc[m]
    BY <1>0, <1>2 DEF Live
<1>4. pc[n] \in {"call", "spawn", "sleep", "count", "await"}
    BY DEF Goes, CallReturns, SpawnedAll, Wake, Count, SleepCanceled, Awaited, SpawnFails, Spawning
<1>5. ASSUME program \in Sleepers, n # <<>> PROVE NumKids(n) = 0 /\ started[n] = NumKids(n) /\ ~HasGroup(n)
    BY <1>0, <1>5, TaskGroupsAssumption DEF NumKids, Sleepers, HasGroup, IndInv, TypeOK
<1>6. CASE CallReturns(n)
    BY <1>0, <1>1, <1>3, <1>4, <1>6 DEF CallReturns, Count
<1>7. CASE SpawnedAll(n)
  <2>1. pc[n] = "spawn" /\ started[n] = NumKids(n) /\ counter' = counter /\ ~Count(n)
      BY <1>7 DEF SpawnedAll, Count
  <2>2. CASE HasGroup(n)
    <3>1. pc'[n] = "await"
        BY <1>0, <1>7, <2>2 DEF SpawnedAll
    <3> QED
        BY <1>1, <1>3, <1>4, <2>1, <2>2, <3>1
  <2>3. CASE ~HasGroup(n) /\ program \in {"spawn_tree", "task_chain"}
    <3>1. pc'[n] = "done" /\ n # <<>> /\ program \notin Sleepers
        BY <1>0, <1>7, <2>3 DEF SpawnedAll, HasGroup, Sleepers
    <3>2. program = "spawn_tree" => GroupOf(n) = {}
      <4>1. HAVE program = "spawn_tree"
      <4>2. NumKids(n) = 0
          BY <2>3, <4>1 DEF HasGroup, NumKids
      <4> QED
          BY <1>0, <4>1, <4>2, Groups
    <3> QED
        BY <1>1, <1>3, <1>4, <2>1, <3>1, <3>2
  <2>4. CASE ~HasGroup(n) /\ program \notin {"spawn_tree", "task_chain"}
    <3>1. pc'[n] \in {"sleep", "count"} /\ n # <<>> /\ program \in Sleepers
        BY <1>0, <1>7, <2>4 DEF SpawnedAll, HasGroup, Setting, Programs
    <3> QED
        BY <1>1, <1>3, <1>4, <2>1, <3>1
  <2> QED
      BY <2>2, <2>3, <2>4
<1>8. CASE Wake(n)
  <2>1. pc[n] = "sleep" /\ pc'[n] = "count" /\ counter' = counter /\ ~Count(n)
      BY <1>0, <1>8 DEF Wake, Count
  <2>2. program \in Sleepers /\ n # <<>>
      BY <2>1 DEF IndInv, Places
  <2> QED
      BY <1>1, <1>3, <1>4, <2>1, <2>2
<1>9. CASE Count(n)
  <2>1. pc[n] = "count" /\ pc'[n] = "done" /\ counter' = counter + 1
      BY <1>0, <1>9 DEF Count
  <2>2. program \in Sleepers /\ n # <<>>
      BY <2>1 DEF IndInv, Places
  <2> QED
      BY <1>1, <1>3, <1>4, <1>5, <1>9, <2>1, <2>2 DEF Sleepers
<1>10. CASE SleepCanceled(n)
  <2>1. pc[n] = "sleep" /\ pc'[n] = "done" /\ counter' = counter /\ ~Count(n) /\ pc[<<>>] = "cancel"
      BY <1>0, <1>10 DEF SleepCanceled, Count
  <2>2. program \in Sleepers /\ n # <<>>
      BY <2>1 DEF IndInv, Places
  <2> QED
      BY <1>1, <1>3, <1>4, <1>5, <2>1, <2>2 DEF Sleepers
<1>11. CASE Awaited(n)
  <2>1. pc[n] = "await" /\ pc'[n] = "done" /\ counter' = counter /\ ~Count(n) /\ n # <<>> /\ AllOver(n)
      BY <1>0, <1>11 DEF Awaited, Count
  <2>2. program = "spawn_tree" /\ started[n] = NumKids(n)
      BY <2>1 DEF IndInv, Places, HasGroup
  <2>3. \A k \in GroupOf(n) : pc[k] = "done"
      BY <2>1, <2>2, GroupRan DEF AllOver
  <2> QED
      BY <1>1, <1>3, <1>4, <2>1, <2>2, <2>3 DEF Sleepers
<1>12. CASE SpawnFails(n)
  <2>1. pc[n] = "spawn" /\ pc'[n] = "cancel" /\ counter' = counter /\ ~Count(n) /\ program = "group"
        /\ started[n] < NumKids(n)
      BY <1>0, <1>12 DEF SpawnFails, Spawning, Count
  <2>2. n = <<>>
      BY <1>5, <2>1 DEF Sleepers, IndInv, TypeOK
  <2> QED
      BY <1>1, <1>3, <1>4, <2>1, <2>2
<1> QED
    BY <1>6, <1>7, <1>8, <1>9, <1>10, <1>11, <1>12 DEF Goes

LEMMA GoMoves ==
    ASSUME IndInv, NEW n \in Tasks, Goes(n)
    PROVE  IndInv'
<1>0. Setting /\ <<>> \in Tasks
    BY Family DEF IndInv, TypeOK, Setting
<1>1. /\ UNCHANGED <<setting, main, started>>
      /\ pc[n] \in {"call", "spawn", "sleep", "count", "await"}
      /\ pc'[n] \in {"spawn", "await", "done", "sleep", "count", "cancel"}
      /\ pc' \in [Tasks -> Live \union {"unborn", "null", "done"}]
      /\ \A m \in Tasks : m # n => pc'[m] = pc[m]
    BY Destination
<1>2. /\ pc'[n] = "await" => HasGroup(n) /\ started[n] = NumKids(n)
      /\ pc'[n] \in {"sleep", "count"} => program \in Sleepers /\ n # <<>>
      /\ pc'[n] = "cancel" => program = "group" /\ n = <<>>
      /\ pc'[n] = "done" => n # <<>> /\ started[n] = NumKids(n)
    BY Destination
<1>3. /\ Tasks' = Tasks
      /\ \A m : NumKids(m)' = NumKids(m) /\ GroupOf(m)' = GroupOf(m) /\ HasGroup(m)' = HasGroup(m)
      /\ program' = program /\ numTasks' = numTasks /\ sleepMs' = sleepMs
    BY <1>1, SameFamily
<1>4. \A m \in Tasks : pc'[m] = "unborn" <=> pc[m] = "unborn"
    BY <1>1
<1>5. Setting'
    BY <1>0, <1>3 DEF Setting
<1>6. main \in Ended => n # <<>> /\ program = "spawn_tree"
    BY <1>0, <1>1 DEF IndInv, MainAt, Ended, Live
<1>7. n = <<>> => main = "running"
    BY <1>0, <1>1, <1>6 DEF IndInv, MainAt, TypeOK
<1>8. Born'
  <2> SUFFICES ASSUME NEW m \in Tasks, NEW i \in 1 .. NumKids(m)
               PROVE  pc'[Append(m, i)] = "unborn" <=> started[m] < i
      BY <1>1, <1>3 DEF Born
  <2>1. Append(m, i) \in Tasks
      BY <1>0, Family
  <2> QED
      BY <1>4, <2>1 DEF IndInv, Born
<1>9. Places'
  <2> SUFFICES ASSUME NEW m \in Tasks
               PROVE  /\ pc'[m] = "unborn" => started[m] = 0
                      /\ pc'[m] = "null" => program = "semaphore" /\ m # <<>>
                      /\ pc'[m] \in {"sleep", "count"} => program \in Sleepers /\ m # <<>>
                      /\ pc'[m] = "await" => HasGroup(m) /\ started[m] = NumKids(m)
                      /\ pc'[m] = "cancel" => program = "group" /\ m = <<>>
                      /\ pc'[m] = "done" /\ m # <<>> => started[m] = NumKids(m)
      BY <1>1, <1>3 DEF Places
  <2>1. CASE m = n
      BY <1>1, <1>2, <2>1
  <2>2. CASE m # n
    <3>1. pc'[m] = pc[m]
        BY <1>1, <2>2
    <3> QED
        BY <3>1 DEF IndInv, Places
  <2> QED
      BY <2>1, <2>2
<1>10. MainAt'
  <2>1. CASE n = <<>>
    <3>1. main = "running" /\ pc'[<<>>] \in {"spawn", "await", "cancel"}
        BY <1>1, <1>2, <1>7, <2>1
    <3> QED
        BY <1>1, <3>1 DEF MainAt, Ended
  <2>2. CASE n # <<>>
    <3>1. pc'[<<>>] = pc[<<>>] /\ pc[<<>>] # "unborn"
        BY <1>0, <1>1, <2>2 DEF IndInv, MainAt
    <3> QED
        BY <1>1, <1>3, <1>6, <3>1 DEF IndInv, MainAt
  <2> QED
      BY <2>1, <2>2
<1>11. /\ Cardinality(Finished) \in Nat
       /\ Cardinality(Finished)' =
             IF pc'[n] = "done" THEN Cardinality(Finished) + 1 ELSE Cardinality(Finished)
  <2>1. CASE pc'[n] = "done"
      BY <1>0, <1>1, <1>2, <2>1, FinishedFacts, OneFinished
  <2>2. CASE pc'[n] # "done"
    <3>1. Finished' = Finished
        BY <1>1, <1>3, <2>2 DEF Finished
    <3> QED
        BY <1>0, <2>2, <3>1, FinishedFacts
  <2> QED
      BY <2>1, <2>2
<1>12. counter \in Nat
    BY <1>0, TasksFinite DEF IndInv, TypeOK
<1>13. Counted'
  <2>1. ASSUME program \notin Sleepers PROVE counter' = 0
      BY <2>1, Destination DEF IndInv, Counted
  <2>2. ASSUME program \in Sleepers PROVE counter' <= Cardinality(Finished)'
      BY <1>11, <1>12, <2>2, Destination DEF IndInv, Counted
  <2>3. ASSUME program \in Sleepers, pc'[<<>>] # "cancel", main # "failed"
        PROVE  counter' = Cardinality(Finished)'
    <3>1. pc[<<>>] # "cancel"
        BY <1>0, <1>1, <2>3
    <3>2. counter = Cardinality(Finished)
        BY <2>3, <3>1 DEF IndInv, Counted
    <3>3. pc'[n] = "done" <=> Count(n)
        BY <2>3, <3>1, Destination
    <3> QED
        BY <1>11, <3>2, <3>3, Destination
  <2>4. program \in Sleepers => main # "ok"
      BY <1>6 DEF Ended, Sleepers
  <2> QED
      BY <1>1, <1>3, <2>1, <2>2, <2>3, <2>4 DEF Counted
<1>14. TypeOK'
  <2>1. counter' \in Nat
      BY <1>12, Destination
  <2>2. Cardinality(Finished)' <= Cardinality(Tasks \ {<<>>}) /\ Cardinality(Finished)' \in Nat
    <3>1. IsFiniteSet(Tasks \ {<<>>}) /\ Finished' \in SUBSET (Tasks \ {<<>>})
        BY <1>0, <1>3, TasksFinite, FS_RemoveElement DEF Finished
    <3> QED
        BY <3>1, FS_Subset, FS_CardinalityType
  <2>3. counter' <= Cardinality(Tasks) - 1
    <3>1. counter' <= Cardinality(Finished)'
        BY <1>3, <1>13, <2>1, <2>2 DEF Counted
    <3> QED
        BY <1>0, <2>1, <2>2, <3>1, TasksFinite
  <2>4. counter' \in 0 .. Cardinality(Tasks) - 1
      BY <1>0, <2>1, <2>3, TasksFinite
  <2> QED
      BY <1>1, <1>3, <2>4 DEF IndInv, TypeOK
<1>15. ChildrenFirst'
  <2> SUFFICES ASSUME program = "spawn_tree", NEW m \in Tasks, pc'[m] = "done", NEW j \in GroupOf(m)
               PROVE  pc'[j] = "done"
      BY <1>3 DEF ChildrenFirst
  <2>1. pc[j] = "done" /\ j \in Tasks
      BY <1>0, <1>1, Groups, Destination DEF IndInv, ChildrenFirst
  <2> QED
      BY <1>1, <2>1
<1> QED
    BY <1>8, <1>9, <1>10, <1>13, <1>14, <1>15 DEF IndInv

(* The end of main, when its group is empty, and the starts that fail      *)
(* before anything runs.                                                   *)
LEMMA MainMoves ==
    ASSUME IndInv, Configure \/ MainEnds \/ UsageError \/ InitFails
    PROVE  IndInv'
<1>0. /\ Setting /\ <<>> \in Tasks
      /\ pc \in [Tasks -> Live \union {"unborn", "null", "done"}]
    BY Family DEF IndInv, TypeOK, Setting
<1>1. UNCHANGED <<setting, started, counter>>
    BY DEF Configure, MainEnds, UsageError, InitFails
<1>2. /\ Tasks' = Tasks
      /\ \A m : NumKids(m)' = NumKids(m) /\ GroupOf(m)' = GroupOf(m) /\ HasGroup(m)' = HasGroup(m)
      /\ program' = program /\ numTasks' = numTasks /\ sleepMs' = sleepMs
    BY <1>1, SameFamily
<1>3. /\ pc' \in [Tasks -> Live \union {"unborn", "null", "done"}]
      /\ \A m \in Tasks \ {<<>>} : pc'[m] = pc[m]
    BY <1>0 DEF Configure, MainEnds, UsageError, InitFails, Live
<1>4. Finished' = Finished
    BY <1>2, <1>3 DEF Finished
<1>5. Born'
  <2> SUFFICES ASSUME NEW m \in Tasks, NEW i \in 1 .. NumKids(m)
               PROVE  pc'[Append(m, i)] = "unborn" <=> started[m] < i
      BY <1>1, <1>2 DEF Born
  <2>1. Append(m, i) \in Tasks \ {<<>>}
    <3>1. m \in Seq(Nat) /\ i \in Nat /\ Append(m, i) \in Tasks
        BY <1>0, Family
    <3> QED
        BY <3>1, AppendUnique
  <2> QED
      BY <1>3, <2>1 DEF IndInv, Born
<1>6. main' \in {"running"} \union Ended
    BY DEF Configure, MainEnds, UsageError, InitFails, Ended
<1>7. TypeOK'
    BY <1>1, <1>2, <1>3, <1>6 DEF IndInv, TypeOK
<1>8. CASE Configure
  <2>1. main = "parsing" /\ main' = "running" /\ pc'[<<>>] = "spawn" /\ pc[<<>>] = "unborn"
      BY <1>0, <1>8 DEF Configure, IndInv, MainAt
  <2>2. Places'
      BY <1>1, <1>2, <1>3, <2>1 DEF IndInv, Places
  <2>3. MainAt'
      BY <2>1 DEF MainAt, Ended
  <2>4. Counted'
      BY <1>1, <1>2, <1>4, <2>1 DEF IndInv, Counted
  <2>5. ChildrenFirst'
    <3> SUFFICES ASSUME program = "spawn_tree", NEW m \in Tasks, pc'[m] = "done", NEW j \in GroupOf(m)
                 PROVE  pc'[j] = "done"
        BY <1>2 DEF ChildrenFirst
    <3>1. j \in Tasks \ {<<>>}
        BY <1>0, Groups
    <3> QED
        BY <1>3, <2>1, <3>1 DEF IndInv, ChildrenFirst
  <2> QED
      BY <1>5, <1>7, <2>2, <2>3, <2>4, <2>5 DEF IndInv
<1>9. CASE UsageError \/ InitFails
  <2>1. main = "parsing" /\ main' = "failed" /\ pc' = pc /\ pc[<<>>] = "unborn"
      BY <1>9 DEF UsageError, InitFails, IndInv, MainAt
  <2>2. Places'
      BY <1>1, <1>2, <2>1 DEF IndInv, Places, HasGroup
  <2>3. MainAt'
      BY <1>2, <2>1 DEF IndInv, MainAt, Live
  <2>4. Counted'
      BY <1>1, <1>2, <1>4, <2>1 DEF IndInv, Counted
  <2>5. ChildrenFirst'
      BY <1>2, <2>1 DEF IndInv, ChildrenFirst
  <2> QED
      BY <1>5, <1>7, <2>2, <2>3, <2>4, <2>5 DEF IndInv
<1>10. CASE MainEnds
  <2>1. pc[<<>>] \in {"await", "cancel"} /\ AllOver(<<>>) /\ pc'[<<>>] = "done"
        /\ main' = IF pc[<<>>] = "cancel" THEN "failed" ELSE IF Short THEN "short" ELSE "ok"
      BY <1>0, <1>10 DEF MainEnds
  <2>2. ASSUME program \in Sleepers, pc[<<>>] = "await"
        PROVE  Finished = Tasks \ {<<>>} /\ counter = numTasks
    <3>1. started[<<>>] = NumKids(<<>>) /\ NumKids(<<>>) = numTasks /\ numTasks \in Nat
        BY <1>0, <2>2, TaskGroupsAssumption DEF IndInv, Places, NumKids, Sleepers, Setting
    <3>2. counter = Cardinality(Finished)
        BY <1>0, <2>2 DEF IndInv, Counted, MainAt
    <3>3. Cardinality(Tasks \ {<<>>}) = numTasks
        BY <1>0, <2>2, SleepersSize
    <3>4. CASE program = "semaphore"
      <4>1. Cardinality(Finished) >= numTasks
          BY <2>1, <3>2, <3>4 DEF AllOver
      <4> QED
          BY <1>0, <3>1, <3>2, <3>3, <4>1, FinishedFacts
    <3>5. CASE program # "semaphore"
      <4>1. ASSUME NEW m \in Tasks, m # <<>> PROVE pc[m] = "done"
        <5>1. pc[m] \notin Live
            BY <1>0, <2>1, <2>2, <3>5, <4>1, Groups DEF AllOver, Sleepers
        <5>2. PICK p \in Tasks : \E i \in 1 .. NumKids(p) : m = Append(p, i)
            BY <1>0, <4>1, Family
        <5>3. p = <<>>
            BY <2>2, <5>2 DEF NumKids, Sleepers
        <5>4. PICK i \in 1 .. NumKids(<<>>) : m = Append(<<>>, i)
            BY <5>2, <5>3
        <5>5. pc[m] # "unborn"
          <6>1. pc[Append(<<>>, i)] = "unborn" <=> started[<<>>] < i
              BY <1>0 DEF IndInv, Born
          <6>2. ~(started[<<>>] < i)
              BY <3>1
          <6> QED
              BY <5>4, <6>1, <6>2
        <5>6. pc[m] # "null"
            BY <3>5 DEF IndInv, Places
        <5> QED
            BY <1>0, <5>1, <5>5, <5>6
      <4>2. Finished = Tasks \ {<<>>}
          BY <4>1 DEF Finished
      <4> QED
          BY <3>2, <3>3, <4>2
    <3> QED
        BY <3>4, <3>5
  <2>3. main' # "short"
      BY <2>1, <2>2 DEF Short, Sleepers
  <2>4. Places'
      BY <1>1, <1>2, <1>3, <2>1 DEF IndInv, Places
  <2>5. MainAt'
    <3>1. main' = "ok" => started[<<>>] = NumKids(<<>>)
        BY <1>0, <2>1 DEF IndInv, Places
    <3>2. ASSUME program # "spawn_tree", NEW m \in Tasks \ {<<>>} PROVE pc'[m] \notin Live
      <4>1. CASE program # "semaphore"
          BY <1>0, <1>3, <2>1, <3>2, <4>1, Groups DEF AllOver
      <4>2. CASE program = "semaphore"
        <5>1. pc[<<>>] = "await"
            BY <1>0, <2>1, <4>2 DEF IndInv, Places
        <5>2. pc[m] = "done"
            BY <2>2, <4>2, <5>1 DEF Sleepers, Finished
        <5> QED
            BY <1>3, <5>2 DEF Live
      <4> QED
          BY <4>1, <4>2
    <3>3. main' \in {"failed", "ok"}
        BY <2>1, <2>3
    <3> QED
        BY <1>1, <1>2, <2>1, <3>1, <3>2, <3>3 DEF MainAt
  <2>6. Counted'
    <3>1. main' # "failed" => pc[<<>>] = "await" /\ main # "failed"
        BY <2>1 DEF IndInv, MainAt
    <3> QED
        BY <1>1, <1>2, <1>4, <2>1, <2>2, <3>1 DEF IndInv, Counted
  <2>7. ChildrenFirst'
    <3> SUFFICES ASSUME program = "spawn_tree", NEW m \in Tasks, pc'[m] = "done", NEW j \in GroupOf(m)
                 PROVE  pc'[j] = "done"
        BY <1>2 DEF ChildrenFirst
    <3>1. j \in Tasks \ {<<>>}
        BY <1>0, Groups
    <3>2. CASE m # <<>>
        BY <1>3, <3>1, <3>2 DEF IndInv, ChildrenFirst
    <3>3. CASE m = <<>>
      <4>1. started[<<>>] = NumKids(<<>>)
          BY <1>0, <2>1 DEF IndInv, Places
      <4>2. \A k \in GroupOf(<<>>) : pc[k] \notin Live
          BY <2>1 DEF AllOver
      <4> QED
          BY <1>0, <1>3, <3>1, <3>3, <4>1, <4>2, GroupRan
    <3> QED
        BY <3>2, <3>3
  <2> QED
      BY <1>5, <1>7, <2>4, <2>5, <2>6, <2>7 DEF IndInv
<1> QED
    BY <1>8, <1>9, <1>10

LEMMA InitInv == Init => IndInv
<1> SUFFICES ASSUME Init PROVE IndInv
    OBVIOUS
<1>0. Setting /\ <<>> \in Tasks
    BY Family DEF Init, Setting
<1>1. \A n \in Tasks : pc[n] = "unborn" /\ started[n] = 0 /\ NumKids(n) \in Nat
    BY <1>0, Family DEF Init
<1>2. TypeOK
  <2>1. 0 \in 0 .. Cardinality(Tasks) - 1
      BY <1>0, TasksFinite
  <2>2. pc \in [Tasks -> Live \union {"unborn", "null", "done"}] /\ started \in [Tasks -> Nat]
      BY DEF Init
  <2> QED
      BY <1>0, <1>1, <2>1, <2>2 DEF Init, TypeOK
<1>3. Born
  <2> SUFFICES ASSUME NEW n \in Tasks, NEW i \in 1 .. NumKids(n)
               PROVE  pc[Append(n, i)] = "unborn" /\ started[n] < i
      BY DEF Born
  <2>1. Append(n, i) \in Tasks
      BY <1>0, Family
  <2> QED
      BY <1>1, <2>1
<1>4. Places /\ ChildrenFirst
    BY <1>1 DEF Places, ChildrenFirst
<1>5. MainAt
    BY <1>0, <1>1 DEF Init, MainAt, Ended
<1>6. Counted
  <2>1. Finished = {}
      BY <1>1 DEF Finished
  <2> QED
      BY <2>1, FS_EmptySet DEF Init, Counted
<1> QED
    BY <1>2, <1>3, <1>4, <1>5, <1>6 DEF IndInv

LEMMA StepInv == IndInv /\ [Next]_vars => IndInv'
<1> SUFFICES ASSUME IndInv, [Next]_vars PROVE IndInv'
    OBVIOUS
<1>1. CASE UNCHANGED vars
  <2>1. UNCHANGED setting /\ UNCHANGED <<main, pc, started, counter>>
      BY <1>1 DEF vars
  <2>2. /\ Tasks' = Tasks
        /\ \A m : NumKids(m)' = NumKids(m) /\ GroupOf(m)' = GroupOf(m) /\ HasGroup(m)' = HasGroup(m)
        /\ program' = program /\ numTasks' = numTasks /\ sleepMs' = sleepMs
      BY <2>1, SameFamily
  <2>3. Finished' = Finished
      BY <2>1, <2>2 DEF Finished
  <2> QED
      BY <2>1, <2>2, <2>3 DEF IndInv, TypeOK, Born, Places, MainAt, Counted, ChildrenFirst
<1>2. CASE Main
    BY <1>2, MainMoves DEF Main
<1>3. CASE Failure
    BY <1>3, MainMoves, GoMoves DEF Failure, Goes
<1>4. CASE \E n \in Tasks : Task(n)
    BY <1>4, CreateMoves, GoMoves DEF Task, Goes
<1> QED
    BY <1>1, <1>2, <1>3, <1>4 DEF Next

(* The invariant holds for every number of tasks, depth and length. *)
THEOREM Invariance == Spec => []IndInv
BY InitInv, StepInv, PTL DEF Spec

(***************************************************************************)
(* Nobody outlives the frame its group, counter or semaphore is in, be it  *)
(* left by a return, a failed spawn or a failed count.                     *)
(***************************************************************************)
THEOREM FramesOutliveTasks == Spec => []NobodyOutlivesItsGroup
<1>1. IndInv => NobodyOutlivesItsGroup
  <2> SUFFICES ASSUME IndInv, NEW n \in Tasks, pc[n] = "done" \/ (n = <<>> /\ main \in Ended),
                      NEW k \in GroupOf(n)
               PROVE  pc[k] \notin Live
      BY DEF NobodyOutlivesItsGroup
  <2>0. Setting /\ <<>> \in Tasks
      BY Family DEF IndInv, TypeOK, Setting
  <2>1. k \in Tasks \ {<<>>}
      BY <2>0, Groups
  <2>2. CASE program = "spawn_tree"
    <3>1. CASE pc[n] = "done"
        BY <2>2, <3>1 DEF IndInv, ChildrenFirst, Live
    <3>2. CASE pc[n] # "done"
      <4>1. pc[<<>>] = "unborn"
          BY <3>2 DEF IndInv, MainAt, Ended
      <4> QED
          BY <2>1, <4>1 DEF IndInv, MainAt, Live
    <3> QED
        BY <3>1, <3>2
  <2>3. CASE program # "spawn_tree"
    <3>1. n = <<>>
        BY <2>0, <2>3, Groups
    <3>2. main \in Ended
        BY <3>1 DEF IndInv, MainAt, TypeOK
    <3> QED
        BY <2>1, <2>3, <3>2 DEF IndInv, MainAt
  <2> QED
      BY <2>2, <2>3
<1> QED
    BY <1>1, Invariance, PTL

(***************************************************************************)
(* A full count proves that every sleeper is over, and no program reports  *)
(* a short one (cpp/sleep_asio.cpp:5-6 and 46-49).                         *)
(***************************************************************************)
THEOREM CountProves == Spec => []CountIsProof
<1>1. IndInv => CountIsProof
  <2> SUFFICES ASSUME IndInv PROVE CountIsProof
      OBVIOUS
  <2>0. Setting
      BY DEF IndInv, TypeOK, Setting
  <2>1. ASSUME program \in Sleepers, counter = numTasks, NEW n \in Tasks \ {<<>>}
        PROVE  pc[n] = "done"
    <3>1. counter <= Cardinality(Finished) /\ Cardinality(Tasks \ {<<>>}) = numTasks /\ numTasks \in Nat
        BY <2>0, <2>1, SleepersSize, TaskGroupsAssumption DEF IndInv, Counted, Setting
    <3>2. Cardinality(Finished) = Cardinality(Tasks \ {<<>>})
        BY <2>0, <2>1, <3>1, FinishedFacts
    <3> QED
        BY <2>0, <3>2, FinishedFacts DEF Finished
  <2> QED
      BY <2>1 DEF IndInv, MainAt, CountIsProof
<1> QED
    BY <1>1, Invariance, PTL

(***************************************************************************)
(* A duration is printed only when every task has run and started all it   *)
(* had to: were there one that has not, take one with the shortest path;   *)
(* the task that had to start it has run, so it was started, and main has  *)
(* waited for it.  In the tree these are 2^(Depth + 1) - 1 nodes.          *)
(***************************************************************************)
THEOREM ReportedAllRan == Spec => []ReportMeansAllRan
<1>1. IndInv => ReportMeansAllRan
  <2> SUFFICES ASSUME IndInv, main = "ok" PROVE ReportMeansAllRan
      BY DEF ReportMeansAllRan
  <2>0. Setting
      BY DEF IndInv, TypeOK, Setting
  <2>1. ASSUME NEW b \in Tasks, pc[b] # "done" PROVE FALSE
    <3> DEFINE T == {Len(n) : n \in {m \in Tasks : pc[m] # "done"}}
    <3>1. T \in SUBSET Nat /\ T # {}
      <4>1. \A n \in Tasks : Len(n) \in Nat
          BY <2>0, Family
      <4> QED
          BY <2>1, <4>1
    <3> HIDE DEF T
    <3>2. PICK l \in T : \A x \in T : l <= x
        BY <3>1, LeastNumber
    <3>3. PICK n \in Tasks : pc[n] # "done" /\ Len(n) = l
        BY <3>2 DEF T
    <3>4. n # <<>>
        BY <3>3 DEF IndInv, MainAt
    <3>5. PICK p \in Tasks : \E i \in 1 .. NumKids(p) : n = Append(p, i)
        BY <2>0, <3>4, Family
    <3>6. PICK i \in 1 .. NumKids(p) : n = Append(p, i)
        BY <3>5
    <3>7. NumKids(p) \in Nat /\ Len(p) \in Nat /\ Len(n) = Len(p) + 1
      <4>1. p \in Seq(Nat) /\ NumKids(p) \in Nat
          BY <2>0, Family
      <4> QED
          BY <3>6, <4>1
    <3>8. pc[p] = "done"
      <4>1. Len(p) \notin T
          BY <3>2, <3>3, <3>7
      <4> QED
          BY <4>1 DEF T
    <3>9. started[p] = NumKids(p)
        BY <3>8 DEF IndInv, Places, MainAt
    <3>10. pc[n] # "unborn"
      <4>1. pc[Append(p, i)] = "unborn" <=> started[p] < i
          BY DEF IndInv, Born
      <4> QED
          BY <3>6, <3>7, <3>9, <4>1
    <3>11. CASE program = "spawn_tree"
      <4>1. n \in GroupOf(p)
        <5>1. GroupOf(p) = {Append(p, j) : j \in 1 .. NumKids(p)}
            BY <2>0, <3>11, Groups
        <5> QED
            BY <3>6, <5>1
      <4> QED
          BY <3>3, <3>8, <3>11, <4>1 DEF IndInv, ChildrenFirst
    <3>12. CASE program \in Sleepers
        BY <3>3, <3>4, <3>12 DEF IndInv, Counted, Finished
    <3>13. CASE program = "task_chain"
      <4>1. pc[n] \notin Live
          BY <3>4, <3>13 DEF IndInv, MainAt, Ended
      <4>2. pc[n] # "null"
          BY <3>13 DEF IndInv, Places
      <4> QED
          BY <3>3, <3>10, <4>1, <4>2 DEF IndInv, TypeOK
    <3> QED
        BY <2>0, <3>11, <3>12, <3>13 DEF Setting, Programs
  <2>2. \A n \in Tasks : pc[n] = "done" /\ started[n] = NumKids(n)
      BY <2>1 DEF IndInv, Places, MainAt
  <2>3. ASSUME program = "spawn_tree"
        PROVE  Cardinality({n \in Tasks : pc[n] = "done"}) = 2 ^ (Depth + 1) - 1
    <3>1. {n \in Tasks : pc[n] = "done"} = Tasks
        BY <2>1
    <3> QED
        BY <2>0, <2>3, <3>1, TreeSize
  <2> QED
      BY <2>2, <2>3 DEF ReportMeansAllRan
<1> QED
    BY <1>1, Invariance, PTL
=============================================================================
