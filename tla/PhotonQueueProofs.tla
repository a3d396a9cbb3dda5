-------------------------- MODULE PhotonQueueProofs --------------------------
(***************************************************************************)
(* Both semaphore queues keep their permits, exclude each other's access   *)
(* to the slots and implement Channel, for every number of tasks, every    *)
(* capacity and every width of the counters that the capacity divides.     *)
(***************************************************************************)
EXTENDS PhotonQueue, FiniteSetTheorems, SequenceTheorems, TLAPS

(* In Queue the owner of the mutex is the task between its lock and its    *)
(* unlock; Slot has no mutex.                                              *)
MutexOwner ==
    \A t \in Tasks : IF kind = "queue" THEN mu = t <=> pc[t] = "access"
                                       ELSE pc[t] # "lock"

(* Nobody changes a counter between its load and its store. *)
TicketsCurrent ==
    kind = "queue" =>
        \A t \in Tasks : pc[t] = "access" => ticket[t] = IF t \in Pushers THEN tail ELSE head

(* The values from head on end where the next one goes. *)
RingInOrder == kind = "queue" => tail = (head + Filled) % CounterMod

(* A pop starts with an empty result. *)
ResultsFresh == \A t \in Poppers : pc[t] = "idle" => data[t] = Undefined

(***************************************************************************)
(* The conjunction that every step of push and pop preserves (lines        *)
(* 27-44).                                                                 *)
(***************************************************************************)
IndInv ==
    /\ PermitsConserved
    /\ MutexOwner
    /\ TicketsCurrent
    /\ RingInOrder
    /\ ResultsFresh

-----------------------------------------------------------------------------
(* Counting the tasks at a label                                           *)

Labels == {"idle", "wait", "lock", "access", "signal"}

(* The tasks between their wait and their signal, and the two kinds of     *)
(* them whose slot is filled.                                              *)
InHands == Cardinality(At(Tasks, {"lock", "access", "signal"}))
Written == Cardinality(At(Pushers, {"signal"}))
Reading == Cardinality(At(Poppers, {"lock", "access"}))

(* One task moves: the count of a set of labels follows it. *)
LEMMA CountMove ==
    ASSUME NEW T \in SUBSET Tasks, IsFiniteSet(T), NEW L \in SUBSET Labels,
           pc \in [Tasks -> Labels], NEW t \in Tasks, NEW l \in Labels, Goto(t, l)
    PROVE  /\ Cardinality(At(T, L)) \in Nat
           /\ Cardinality(At(T, L))' =
                IF t \notin T \/ (pc[t] \in L <=> l \in L) THEN Cardinality(At(T, L))
                ELSE IF l \in L THEN Cardinality(At(T, L)) + 1
                ELSE Cardinality(At(T, L)) - 1
           /\ t \in T /\ pc[t] \in L => Cardinality(At(T, L)) > 0
<1>1. IsFiniteSet(At(T, L))
    BY FS_Subset DEF At
<1>2. Cardinality(At(T, L)) \in Nat
    BY <1>1, FS_CardinalityType
<1>6. t \in T /\ pc[t] \in L => Cardinality(At(T, L)) > 0
  <2>1. t \in T /\ pc[t] \in L => At(T, L) # {}
      BY DEF At
  <2> QED
      BY <1>1, <1>2, <2>1, FS_EmptySet
<1>3. CASE t \notin T \/ (pc[t] \in L <=> l \in L)
  <2>1. At(T, L)' = At(T, L)
      BY <1>3 DEF At, Goto
  <2> QED
      BY <1>2, <1>3, <1>6, <2>1
<1>4. CASE t \in T /\ pc[t] \notin L /\ l \in L
  <2>1. At(T, L)' = At(T, L) \union {t} /\ t \notin At(T, L)
      BY <1>4 DEF At, Goto
  <2> QED
      BY <1>1, <1>2, <1>4, <2>1, FS_AddElement
<1>5. CASE t \in T /\ pc[t] \in L /\ l \notin L
  <2>1. At(T, L)' = At(T, L) \ {t} /\ t \in At(T, L)
      BY <1>5 DEF At, Goto
  <2> QED
      BY <1>1, <1>2, <1>5, <2>1, FS_RemoveElement, FS_EmptySet
<1> QED
    BY <1>3, <1>4, <1>5

LEMMA TasksFinite ==
    /\ IsFiniteSet(Tasks) /\ Pushers \in SUBSET Tasks /\ Poppers \in SUBSET Tasks
    /\ IsFiniteSet(Pushers) /\ IsFiniteSet(Poppers)
BY PhotonQueueAssumption, FS_Union DEF Tasks

(* The three counts, when a task goes from one label to the next. *)
LEMMA CountsMove ==
    ASSUME TypeOK, NEW t \in Tasks, NEW l \in Labels, Goto(t, l)
    PROVE  /\ InHands \in Nat /\ Written \in Nat /\ Reading \in Nat
           /\ pc[t] = "wait" /\ l \in {"lock", "access"} =>
                 /\ InHands' = InHands + 1 /\ Written' = Written
                 /\ Reading' = IF t \in Poppers THEN Reading + 1 ELSE Reading
           /\ pc[t] = "lock" /\ l = "access" =>
                 InHands' = InHands /\ Written' = Written /\ Reading' = Reading
           /\ pc[t] = "access" /\ l = "signal" =>
                 /\ InHands' = InHands
                 /\ Written' = IF t \in Pushers THEN Written + 1 ELSE Written
                 /\ Reading' = IF t \in Poppers THEN Reading - 1 ELSE Reading
                 /\ t \in Poppers => Reading > 0
           /\ pc[t] = "signal" /\ l = "idle" =>
                 /\ InHands' = InHands - 1 /\ InHands > 0
                 /\ Written' = IF t \in Pushers THEN Written - 1 ELSE Written
                 /\ t \in Pushers => Written > 0
                 /\ Reading' = Reading
           /\ pc[t] = "idle" /\ l = "wait" =>
                 InHands' = InHands /\ Written' = Written /\ Reading' = Reading
<1>0. pc \in [Tasks -> Labels]
    BY DEF TypeOK, Labels
<1> DEFINE L1 == {"lock", "access", "signal"}
           L2 == {"signal"}
           L3 == {"lock", "access"}
           n1 == Cardinality(At(Tasks, L1))
           n2 == Cardinality(At(Pushers, L2))
           n3 == Cardinality(At(Poppers, L3))
<1>1. /\ n1 \in Nat
      /\ n1' = IF t \notin Tasks \/ (pc[t] \in L1 <=> l \in L1) THEN n1
               ELSE IF l \in L1 THEN n1 + 1 ELSE n1 - 1
      /\ t \in Tasks /\ pc[t] \in L1 => n1 > 0
  <2>1. L1 \in SUBSET Labels
      BY DEF Labels
  <2> HIDE DEF L1
  <2> QED
      BY <1>0, <2>1, CountMove, TasksFinite
<1>2. /\ n2 \in Nat
      /\ n2' = IF t \notin Pushers \/ (pc[t] \in L2 <=> l \in L2) THEN n2
               ELSE IF l \in L2 THEN n2 + 1 ELSE n2 - 1
      /\ t \in Pushers /\ pc[t] \in L2 => n2 > 0
  <2>1. L2 \in SUBSET Labels
      BY DEF Labels
  <2> HIDE DEF L2
  <2> QED
      BY <1>0, <2>1, CountMove, TasksFinite
<1>3. /\ n3 \in Nat
      /\ n3' = IF t \notin Poppers \/ (pc[t] \in L3 <=> l \in L3) THEN n3
               ELSE IF l \in L3 THEN n3 + 1 ELSE n3 - 1
      /\ t \in Poppers /\ pc[t] \in L3 => n3 > 0
  <2>1. L3 \in SUBSET Labels
      BY DEF Labels
  <2> HIDE DEF L3
  <2> QED
      BY <1>0, <2>1, CountMove, TasksFinite
<1>4. n1 = InHands /\ n2 = Written /\ n3 = Reading /\ n1' = InHands' /\ n2' = Written' /\ n3' = Reading'
    BY DEF InHands, Written, Reading
<1> HIDE DEF n1, n2, n3
<1>5. t \notin Pushers \/ t \notin Poppers
    BY PhotonQueueAssumption
<1> QED
    BY <1>1, <1>2, <1>3, <1>4, <1>5

(* Every permit in hand belongs to one of four kinds of task. *)
LEMMA InHandsParts ==
    ASSUME TypeOK
    PROVE  /\ InHands \in Nat /\ Written \in Nat /\ Reading \in Nat
           /\ Written + Reading <= InHands
           /\ (\E t \in Pushers : pc[t] \in {"lock", "access"}) => Written + Reading < InHands
<1> DEFINE A == At(Tasks, {"lock", "access", "signal"})
           W == At(Pushers, {"signal"})
           R == At(Poppers, {"lock", "access"})
<1>1. IsFiniteSet(A) /\ IsFiniteSet(W) /\ IsFiniteSet(R)
    BY TasksFinite, FS_Subset DEF At
<1>2. W \intersect R = {} /\ W \union R \in SUBSET A
    BY PhotonQueueAssumption DEF At, Tasks
<1>3. ASSUME NEW t \in Pushers, pc[t] \in {"lock", "access"}
      PROVE  t \in A /\ t \notin W \union R
    BY <1>3, PhotonQueueAssumption DEF At, Tasks
<1>4. InHands = Cardinality(A) /\ Written = Cardinality(W) /\ Reading = Cardinality(R)
    BY DEF InHands, Written, Reading
<1> HIDE DEF A, W, R
<1>5. Cardinality(A) \in Nat /\ Cardinality(W) \in Nat /\ Cardinality(R) \in Nat
    BY <1>1, FS_CardinalityType
<1>6. IsFiniteSet(W \union R) /\ Cardinality(W \union R) = Cardinality(W) + Cardinality(R)
    BY <1>1, <1>2, <1>5, FS_Union, FS_EmptySet
<1>7. /\ Cardinality(W \union R) <= Cardinality(A)
      /\ Cardinality(A) = Cardinality(W \union R) => A = W \union R
    BY <1>1, <1>2, FS_Subset
<1> QED
    BY <1>3, <1>4, <1>5, <1>6, <1>7

(* The permit equation and its consequences for the number of values. *)
LEMMA FilledBounds ==
    ASSUME PermitsConserved
    PROVE  /\ space + items + InHands = Cap
           /\ Filled = items + Written + Reading
           /\ Filled \in 0 .. Cap
           /\ (\E t \in Pushers : pc[t] \in {"lock", "access"}) => Filled < Cap
           /\ Cap \in 1 .. Capacity
           /\ items \in Nat /\ space \in Nat
<1>1. Cap \in 1 .. Capacity
    BY PhotonQueueAssumption DEF Cap
<1>2. space + items + InHands = Cap /\ Filled = items + Written + Reading
    BY DEF PermitsConserved, InHands, Filled, Written, Reading
<1>3. items \in Nat /\ space \in Nat /\ TypeOK
    BY <1>1, PhotonQueueAssumption DEF PermitsConserved, TypeOK
<1> QED
    BY <1>1, <1>2, <1>3, InHandsParts, PhotonQueueAssumption

-----------------------------------------------------------------------------
(* Arithmetic of the counters                                              *)

(* Quotient and remainder are determined by what they add up to. *)
LEMMA DivisionUnique ==
    ASSUME NEW c \in Nat \ {0}, NEW q \in Int, NEW r \in 0 .. c - 1
    PROVE  (c * q + r) % c = r
<1> DEFINE a == c * q + r
           k == a \div c
           m == a % c
<1>1. a \in Int /\ k \in Int /\ m \in 0 .. c - 1 /\ a = c * k + m
    BY SMT
<1>2. c * (q - k) = m - r
    BY <1>1
<1> HIDE DEF a, k, m
<1>3. q - k = 0
  <2> DEFINE d == q - k
  <2>1. d \in Int /\ c * d < c /\ c * d > 0 - c
      BY <1>1, <1>2
  <2> HIDE DEF d
  <2>2. ~(d >= 1)
      BY <2>1
  <2>3. ~(d <= 0 - 1)
      BY <2>1
  <2>4. d = 0
      BY <2>1, <2>2, <2>3
  <2> QED
      BY <2>4 DEF d
<1>4. m = r
    BY <1>1, <1>2, <1>3
<1> QED
    BY <1>4 DEF m, a

(* A remainder is within its range, and leaves a multiple. *)
LEMMA Division ==
    ASSUME NEW c \in Nat \ {0}, NEW a \in Nat
    PROVE  a % c \in 0 .. c - 1 /\ a \div c \in Int /\ a = c * (a \div c) + (a % c)
BY SMT

(* Going round the ring: a multiple of its size changes no remainder. *)
LEMMA ModShift ==
    ASSUME NEW c \in Nat \ {0}, NEW y \in Nat, y % c = 0, NEW x \in Nat
    PROVE  (y + x) % c = x % c
<1> DEFINE q == y \div c
           p == x \div c
           r == x % c
<1>1. q \in Int /\ p \in Int /\ r \in 0 .. c - 1 /\ y = c * q /\ x = c * p + r
    BY Division
<1> HIDE DEF q, p, r
<1> DEFINE d == q + p
<1>2. y + x = c * d + r /\ d \in Int
    BY <1>1
<1> HIDE DEF d
<1>3. (c * d + r) % c = r
    BY <1>1, <1>2, DivisionUnique
<1> QED
    BY <1>2, <1>3 DEF r

(* A remainder by a multiple of the ring's size points at the same slot. *)
LEMMA ModMod ==
    ASSUME NEW c \in Nat \ {0}, NEW m \in Nat \ {0}, m % c = 0, NEW x \in Nat
    PROVE  (x % m) % c = x % c
<1> DEFINE q == x \div m
           r == x % m
           p == m \div c
           y == m * q
           d == p * q
<1>1. q \in Int /\ r \in 0 .. m - 1 /\ x = m * q + r /\ p \in Int /\ m = c * p
    BY Division
<1>2. q \in Nat
    BY SMT
<1> HIDE DEF q, r, p
<1>3. y \in Nat /\ d \in Int /\ r \in Nat
    BY <1>1, <1>2
<1>4. y = c * d + 0
    BY <1>1, <1>2
<1> HIDE DEF d
<1>5. (c * d + 0) % c = 0
    BY <1>3, DivisionUnique
<1>6. y % c = 0 /\ x = y + r
    BY <1>1, <1>4, <1>5
<1> HIDE DEF y
<1>7. (y + r) % c = r % c
    BY <1>3, <1>6, ModShift
<1> QED
    BY <1>6, <1>7 DEF r

(* Less than one round apart: different slots. *)
LEMMA ModDistinct ==
    ASSUME NEW c \in Nat \ {0}, NEW a \in Nat, NEW b \in Nat, a < b, b < a + c
    PROVE  a % c # b % c
<1> DEFINE q == a \div c
           p == b \div c
<1> SUFFICES ASSUME a % c = b % c PROVE FALSE
    OBVIOUS
<1>1. q \in Int /\ p \in Int /\ b - a = c * p - c * q
    BY Division
<1> HIDE DEF q, p
<1> DEFINE d == p - q
<1>2. d \in Int /\ 0 < c * d /\ c * d < c
    BY <1>1
<1> HIDE DEF d
<1>3. ~(d >= 1)
    BY <1>2
<1>4. ~(d <= 0)
    BY <1>2
<1> QED
    BY <1>2, <1>3, <1>4

(* The counters: one step further, the slots follow, past the wrap of the  *)
(* counter too (lines 31 and 39).                                          *)
LEMMA CounterStep ==
    ASSUME NEW c \in Nat \ {0}, c = Capacity \/ c = 1, NEW h \in 0 .. CounterMod - 1, NEW j \in Nat
    PROVE  (Succ(h) + j) % c = (h + 1 + j) % c
<1>0. CounterMod \in Nat \ {0} /\ CounterMod % Capacity = 0 /\ h \in Nat
    BY PhotonQueueAssumption
<1>1. CounterMod % c = 0
    BY <1>0
<1>2. CASE h + 1 < CounterMod
  <2>1. Succ(h) = h + 1
      BY <1>0, <1>2 DEF Succ
  <2> QED
      BY <2>1
<1>3. CASE h + 1 = CounterMod
  <2>1. Succ(h) = 0
      BY <1>0, <1>3 DEF Succ
  <2>2. (CounterMod + j) % c = j % c
      BY <1>0, <1>1, ModShift
  <2> QED
      BY <1>3, <2>1, <2>2
<1> QED
    BY <1>0, <1>2, <1>3

-----------------------------------------------------------------------------
(* The ring as a sequence                                                  *)

(* What a slot may hold. *)
Word == Items \union {Undefined}

(* The n values from counter h on, in a ring of c slots. *)
Contents(b, h, n, c) == [i \in 1 .. n |-> b[(h + i - 1) % c]]

(* They are a sequence of what the slots hold. *)
LEMMA ContentsType ==
    ASSUME NEW c \in Nat \ {0}, NEW b \in [0 .. c - 1 -> Word], NEW n \in Nat, NEW h \in Nat
    PROVE  /\ Contents(b, h, n, c) \in Seq(Word)
           /\ Len(Contents(b, h, n, c)) = n
           /\ \A i \in 1 .. n : Contents(b, h, n, c)[i] = b[(h + i - 1) % c]
<1>1. ASSUME NEW i \in 1 .. n PROVE b[(h + i - 1) % c] \in Word
  <2>1. h + i - 1 \in Nat
      OBVIOUS
  <2>2. (h + i - 1) % c \in 0 .. c - 1
      BY <2>1, Division
  <2> QED
      BY <2>2
<1>2. Contents(b, h, n, c) \in [1 .. n -> Word]
    BY <1>1 DEF Contents
<1>3. Contents(b, h, n, c) \in Seq(Word) /\ Len(Contents(b, h, n, c)) = n
    BY <1>2, IsASeq, LenProperties
<1> QED
    BY <1>3 DEF Contents

(* Writing behind the last value appends it (line 31). *)
LEMMA PutContents ==
    ASSUME NEW c \in Nat \ {0}, NEW b \in [0 .. c - 1 -> Word], NEW d \in [0 .. c - 1 -> Word],
           NEW n \in 0 .. c - 1, NEW h \in Nat,
           \A j \in 0 .. c - 1 : j # (h + n) % c => d[j] = b[j]
    PROVE  Contents(d, h, n + 1, c) = Append(Contents(b, h, n, c), d[(h + n) % c])
<1> DEFINE e == (h + n) % c
           q == Contents(b, h, n, c)
           r == Contents(d, h, n + 1, c)
<1>1. n \in Nat /\ n + 1 \in Nat /\ h + n \in Nat
    OBVIOUS
<1>2. e \in 0 .. c - 1 /\ d[e] \in Word
    BY <1>1, Division
<1>3. q \in Seq(Word) /\ Len(q) = n /\ \A i \in 1 .. n : q[i] = b[(h + i - 1) % c]
    BY <1>1, ContentsType
<1>4. r \in Seq(Word) /\ Len(r) = n + 1 /\ \A i \in 1 .. n + 1 : r[i] = d[(h + i - 1) % c]
    BY <1>1, ContentsType
<1> HIDE DEF q, r
<1>5. /\ Append(q, d[e]) \in Seq(Word) /\ Len(Append(q, d[e])) = n + 1
      /\ \A i \in 1 .. n : Append(q, d[e])[i] = q[i]
      /\ Append(q, d[e])[n + 1] = d[e]
    BY <1>2, <1>3, AppendProperties
<1>6. r[n + 1] = d[e]
  <2>1. n + 1 \in 1 .. n + 1 /\ h + (n + 1) - 1 = h + n
      BY <1>1
  <2> QED
      BY <2>1, <1>4
<1>7. ASSUME NEW i \in 1 .. n PROVE r[i] = q[i]
  <2>1. i \in 1 .. n + 1 /\ h + i - 1 \in Nat /\ h + i - 1 < h + n /\ h + n < h + i - 1 + c
      BY <1>1
  <2>2. (h + i - 1) % c \in 0 .. c - 1 /\ (h + i - 1) % c # e
      BY <1>1, <2>1, Division, ModDistinct
  <2> QED
      BY <2>1, <2>2, <1>3, <1>4
<1>8. \A i \in 1 .. n + 1 : r[i] = Append(q, d[e])[i]
    BY <1>1, <1>5, <1>6, <1>7
<1> QED
    BY <1>4, <1>5, <1>8, SeqEqual DEF q, r

(* Counter k is one value further than counter h, in a ring of c slots. *)
Follows(k, h, c) == \A j \in Nat : (k + j) % c = (h + 1 + j) % c

(* Advancing the counter of pops takes the oldest value (line 39). *)
LEMMA TakeContents ==
    ASSUME NEW c \in Nat \ {0}, NEW b \in [0 .. c - 1 -> Word], NEW n \in Nat \ {0},
           NEW h \in Nat, NEW k \in Nat, Follows(k, h, c)
    PROVE  /\ Contents(b, h, n, c) # <<>>
           /\ Head(Contents(b, h, n, c)) = b[h % c]
           /\ Contents(b, k, n - 1, c) = Tail(Contents(b, h, n, c))
<1> DEFINE q == Contents(b, h, n, c)
           r == Contents(b, k, n - 1, c)
<1>1. n - 1 \in Nat /\ n \in Nat
    OBVIOUS
<1>4. q \in Seq(Word) /\ Len(q) = n /\ \A i \in 1 .. n : q[i] = b[(h + i - 1) % c]
    BY <1>1, ContentsType
<1>5. r \in Seq(Word) /\ Len(r) = n - 1 /\ \A i \in 1 .. n - 1 : r[i] = b[(k + i - 1) % c]
    BY <1>1, ContentsType
<1> HIDE DEF q, r
<1>6. q # <<>> /\ Head(q) = q[1]
  <2>1. q # <<>>
      BY <1>1, <1>4, EmptySeq
  <2> QED
      BY <2>1, <1>4, HeadTailProperties
<1>7. Head(q) = b[h % c]
  <2>1. 1 \in 1 .. n /\ h + 1 - 1 = h
      BY <1>1
  <2> QED
      BY <2>1, <1>4, <1>6
<1>8. r = Tail(q)
  <2>1. /\ Tail(q) \in Seq(Word) /\ Len(Tail(q)) = n - 1
        /\ \A i \in 1 .. n - 1 : Tail(q)[i] = q[i + 1]
      BY <1>1, <1>4, <1>6, HeadTailProperties
  <2>2. ASSUME NEW i \in 1 .. n - 1 PROVE r[i] = Tail(q)[i]
    <3>1. i + 1 \in 1 .. n /\ i - 1 \in Nat /\ k + i - 1 = k + (i - 1) /\ h + (i + 1) - 1 = h + 1 + (i - 1)
        BY <1>1
    <3>2. (k + i - 1) % c = (h + (i + 1) - 1) % c
        BY <3>1 DEF Follows
    <3> QED
        BY <2>1, <3>1, <3>2, <1>4, <1>5
  <2> QED
      BY <2>1, <2>2, <1>5, SeqEqual
<1> QED
    BY <1>6, <1>7, <1>8 DEF q, r

-----------------------------------------------------------------------------
(* The inductive invariant                                                 *)

(* The number of values held changes in Write and Read only: between them  *)
(* the semaphores and the tasks pass the permit on (lines 27-44).          *)
LEMMA FilledSteps ==
    ASSUME IndInv, NEW t \in Tasks,
           Call(t) \/ SpaceWait(t) \/ ItemsWait(t) \/ Lock(t) \/ Write(t) \/ Read(t) \/ ItemsSignal(t)
           \/ SpaceSignal(t)
    PROVE  /\ Filled' = IF Write(t) THEN Filled + 1 ELSE IF Read(t) THEN Filled - 1 ELSE Filled
           /\ Write(t) => Filled < Cap
           /\ Read(t) => Filled > 0
           /\ space' + items' + InHands' = Cap
           /\ items' \in 0 .. Cap /\ space' \in 0 .. Cap
           /\ kind' = kind /\ Cap' = Cap
<1>0. /\ space + items + InHands = Cap /\ Filled = items + Written + Reading
      /\ Filled \in 0 .. Cap /\ Cap \in 1 .. Capacity /\ items \in Nat /\ space \in Nat
      /\ (\E u \in Pushers : pc[u] \in {"lock", "access"}) => Filled < Cap
    BY FilledBounds DEF IndInv
<1>1. Filled' = items' + Written' + Reading'
    BY DEF Filled, Written, Reading
<1>2. TypeOK /\ Capacity \in Nat /\ InHands \in Nat /\ Written \in Nat /\ Reading \in Nat
    BY InHandsParts, PhotonQueueAssumption DEF IndInv, PermitsConserved
<1>3. kind' = kind /\ Cap' = Cap
    BY DEF Call, SpaceWait, ItemsWait, Lock, Write, Read, ItemsSignal, SpaceSignal, Cap
<1>4. t \in Pushers \/ t \in Poppers
    BY DEF Tasks
<1>5. ~(t \in Pushers /\ t \in Poppers)
    BY PhotonQueueAssumption
<1>6. CASE Call(t)
  <2>1. InHands' = InHands /\ Written' = Written /\ Reading' = Reading
      BY <1>2, <1>6, CountsMove DEF Call, Labels
  <2>2. items' = items /\ space' = space /\ ~Write(t) /\ ~Read(t)
      BY <1>6 DEF Call, Write, Read
  <2> QED
      BY <1>0, <1>1, <1>2, <1>3, <2>1, <2>2
<1>7. CASE SpaceWait(t)
  <2>1. InHands' = InHands + 1 /\ Written' = Written /\ Reading' = Reading
      BY <1>2, <1>5, <1>7, CountsMove DEF SpaceWait, Labels, AfterWait
  <2>2. items' = items /\ space' = space - 1 /\ space > 0 /\ ~Write(t) /\ ~Read(t)
      BY <1>7 DEF SpaceWait, Write, Read
  <2> QED
      BY <1>0, <1>1, <1>2, <1>3, <2>1, <2>2
<1>8. CASE ItemsWait(t)
  <2>1. InHands' = InHands + 1 /\ Written' = Written /\ Reading' = Reading + 1
      BY <1>2, <1>5, <1>8, CountsMove DEF ItemsWait, Labels, AfterWait
  <2>2. items' = items - 1 /\ items > 0 /\ space' = space /\ ~Write(t) /\ ~Read(t)
      BY <1>8 DEF ItemsWait, Write, Read
  <2> QED
      BY <1>0, <1>1, <1>2, <1>3, <2>1, <2>2
<1>9. CASE Lock(t)
  <2>1. InHands' = InHands /\ Written' = Written /\ Reading' = Reading
      BY <1>2, <1>9, CountsMove DEF Lock, Labels
  <2>2. items' = items /\ space' = space /\ ~Write(t) /\ ~Read(t)
      BY <1>9 DEF Lock, Write, Read
  <2> QED
      BY <1>0, <1>1, <1>2, <1>3, <2>1, <2>2
<1>10. CASE Write(t)
  <2>1. InHands' = InHands /\ Written' = Written + 1 /\ Reading' = Reading
      BY <1>2, <1>5, <1>10, CountsMove DEF Write, Labels
  <2>2. items' = items /\ space' = space /\ ~Read(t) /\ Filled < Cap
      BY <1>0, <1>5, <1>10 DEF Write, Read
  <2> QED
      BY <1>0, <1>1, <1>2, <1>3, <1>10, <2>1, <2>2
<1>11. CASE Read(t)
  <2>1. InHands' = InHands /\ Written' = Written /\ Reading' = Reading - 1 /\ Reading > 0
      BY <1>2, <1>5, <1>11, CountsMove DEF Read, Labels
  <2>2. items' = items /\ space' = space /\ ~Write(t)
      BY <1>5, <1>11 DEF Write, Read
  <2> QED
      BY <1>0, <1>1, <1>2, <1>3, <1>11, <2>1, <2>2
<1>12. CASE ItemsSignal(t)
  <2>1. /\ InHands' = InHands - 1 /\ InHands > 0 /\ Written' = Written - 1 /\ Written > 0
        /\ Reading' = Reading
      BY <1>2, <1>5, <1>12, CountsMove DEF ItemsSignal, Returned, Labels
  <2>2. items' = items + 1 /\ space' = space /\ ~Write(t) /\ ~Read(t)
      BY <1>12 DEF ItemsSignal, Write, Read
  <2> QED
      BY <1>0, <1>1, <1>2, <1>3, <2>1, <2>2
<1>13. CASE SpaceSignal(t)
  <2>1. InHands' = InHands - 1 /\ InHands > 0 /\ Written' = Written /\ Reading' = Reading
      BY <1>2, <1>5, <1>13, CountsMove DEF SpaceSignal, Returned, Labels
  <2>2. items' = items /\ space' = space + 1 /\ ~Write(t) /\ ~Read(t)
      BY <1>13 DEF SpaceSignal, Write, Read
  <2> QED
      BY <1>0, <1>1, <1>2, <1>3, <2>1, <2>2
<1> QED
    BY <1>6, <1>7, <1>8, <1>9, <1>10, <1>11, <1>12, <1>13

(* The steps of a task, by name. *)
StepOf(t) ==
    Call(t) \/ SpaceWait(t) \/ ItemsWait(t) \/ Lock(t) \/ Write(t) \/ Read(t) \/ ItemsSignal(t)
    \/ SpaceSignal(t)

LEMMA NextStep == ASSUME Next PROVE \E t \in Tasks : StepOf(t)
BY DEF Next, Push, Pop, StepOf, Tasks

(* The permits, the counters and the slots keep their types. *)
LEMMA PermitsStep ==
    ASSUME IndInv, NEW t \in Tasks, StepOf(t)
    PROVE  PermitsConserved'
<1>1. /\ space' + items' + InHands' = Cap /\ items' \in 0 .. Cap /\ space' \in 0 .. Cap
      /\ kind' = kind /\ Cap' = Cap
    BY FilledSteps DEF StepOf
<1>2. Cap \in 1 .. Capacity /\ Capacity \in Nat
    BY FilledBounds, PhotonQueueAssumption DEF IndInv
<1>3. TypeOK /\ CounterMod \in Nat \ {0}
    BY PhotonQueueAssumption DEF IndInv, PermitsConserved
<1>4. buf' \in [0 .. Cap - 1 -> Items \union {Undefined}]
    BY <1>3 DEF TypeOK, StepOf, Call, SpaceWait, ItemsWait, Lock, Write, Read, ItemsSignal, SpaceSignal
<1>5. ASSUME NEW n \in 0 .. CounterMod - 1 PROVE Succ(n) \in 0 .. CounterMod - 1
    BY <1>3 DEF Succ
<1>6. head' \in 0 .. CounterMod - 1 /\ tail' \in 0 .. CounterMod - 1
    BY <1>3, <1>5 DEF TypeOK, StepOf, Call, SpaceWait, ItemsWait, Lock, Write, Read, ItemsSignal, SpaceSignal,
                      Advance
<1>7. mu' \in Tasks \union {Nobody}
    BY <1>3 DEF TypeOK, StepOf, Call, SpaceWait, ItemsWait, Lock, Write, Read, ItemsSignal, SpaceSignal
<1>8. pc' \in [Tasks -> {"idle", "wait", "lock", "access", "signal"}]
    BY <1>3 DEF TypeOK, StepOf, Call, SpaceWait, ItemsWait, Lock, Write, Read, ItemsSignal, SpaceSignal,
                Returned, Goto, AfterWait
<1>9. ticket' \in [Tasks -> 0 .. CounterMod - 1]
    BY <1>3 DEF TypeOK, StepOf, Call, SpaceWait, ItemsWait, Lock, Write, Read, ItemsSignal, SpaceSignal, Returned
<1>10. data' \in [Tasks -> Items \union {Undefined}]
  <2>1. ASSUME Read(t) PROVE buf[ticket[t] % Cap] \in Items \union {Undefined}
    <3>1. ticket[t] % Cap \in 0 .. Cap - 1
      <4>1. ticket[t] \in Nat /\ Cap \in Nat \ {0}
          BY <1>2, <1>3 DEF TypeOK
      <4> QED
          BY <4>1, Division
    <3> QED
        BY <1>3, <3>1 DEF TypeOK
  <2> QED
      BY <1>3, <2>1 DEF TypeOK, StepOf, Call, SpaceWait, ItemsWait, Lock, Write, Read, ItemsSignal, SpaceSignal, Returned
<1>11. TypeOK'
    BY <1>1, <1>3, <1>4, <1>6, <1>7, <1>8, <1>9, <1>10 DEF TypeOK
<1> QED
    BY <1>1, <1>11 DEF PermitsConserved, InHands

(* The mutex, the loaded counters and the results. *)
LEMMA ControlStep ==
    ASSUME IndInv, NEW t \in Tasks, StepOf(t)
    PROVE  MutexOwner' /\ TicketsCurrent' /\ ResultsFresh'
<1>0. /\ pc \in [Tasks -> Labels] /\ ticket \in [Tasks -> 0 .. CounterMod - 1]
      /\ data \in [Tasks -> Word] /\ mu \in Tasks \union {Nobody}
      /\ MutexOwner /\ TicketsCurrent /\ ResultsFresh
      /\ Nobody \notin Tasks /\ ~(t \in Pushers /\ t \in Poppers)
    BY PhotonQueueAssumption DEF IndInv, PermitsConserved, TypeOK, Labels, Word, Tasks
<1> USE <1>0 DEF Goto
<1>1. CASE Call(t)
  <2>1. ResultsFresh'
      BY <1>1 DEF Call, ResultsFresh, Tasks
  <2>2. MutexOwner'
      BY <1>1 DEF Call, MutexOwner
  <2>3. TicketsCurrent'
      BY <1>1 DEF Call, TicketsCurrent
  <2> QED
      BY <2>1, <2>2, <2>3
<1>2. CASE SpaceWait(t) \/ ItemsWait(t)
  <2>1. ResultsFresh'
      BY <1>2 DEF SpaceWait, ItemsWait, AfterWait, ResultsFresh, Tasks
  <2>2. MutexOwner'
      BY <1>2 DEF SpaceWait, ItemsWait, AfterWait, MutexOwner
  <2>3. TicketsCurrent'
      BY <1>2 DEF SpaceWait, ItemsWait, AfterWait, TicketsCurrent
  <2> QED
      BY <2>1, <2>2, <2>3
<1>3. CASE Lock(t)
    BY <1>3 DEF Lock, MutexOwner, TicketsCurrent, ResultsFresh
<1>4. CASE Write(t)
    BY <1>4 DEF Write, MutexOwner, TicketsCurrent, ResultsFresh
<1>5. CASE Read(t)
    BY <1>5 DEF Read, MutexOwner, TicketsCurrent, ResultsFresh
<1>6. CASE ItemsSignal(t) \/ SpaceSignal(t)
  <2>1. ResultsFresh'
      BY <1>6 DEF ItemsSignal, SpaceSignal, Returned, ResultsFresh, Tasks
  <2>2. MutexOwner'
      BY <1>6 DEF ItemsSignal, SpaceSignal, Returned, MutexOwner
  <2>3. TicketsCurrent'
      BY <1>6 DEF ItemsSignal, SpaceSignal, Returned, TicketsCurrent
  <2> QED
      BY <2>1, <2>2, <2>3
<1> QED
    BY <1>1, <1>2, <1>3, <1>4, <1>5, <1>6 DEF StepOf

(* The counter of pushes stays the number of values ahead of that of pops, *)
(* modulo the width of the counters (lines 31 and 39).                     *)
LEMMA RingStep ==
    ASSUME IndInv, NEW t \in Tasks, StepOf(t)
    PROVE  RingInOrder'
<1> SUFFICES ASSUME kind' = "queue" PROVE tail' = (head' + Filled') % CounterMod
    BY DEF RingInOrder
<1>1. /\ Filled' = IF Write(t) THEN Filled + 1 ELSE IF Read(t) THEN Filled - 1 ELSE Filled
      /\ Read(t) => Filled > 0
      /\ kind = "queue"
    BY FilledSteps DEF StepOf
<1>2. /\ CounterMod \in Nat \ {0} /\ head \in 0 .. CounterMod - 1 /\ Filled \in Nat
      /\ tail = (head + Filled) % CounterMod
  <2>1. Filled \in 0 .. Cap /\ Cap \in 1 .. Capacity /\ Capacity \in Nat /\ CounterMod \in Nat \ {0}
      BY FilledBounds, PhotonQueueAssumption DEF IndInv
  <2>2. head \in 0 .. CounterMod - 1
      BY DEF IndInv, PermitsConserved, TypeOK
  <2>3. tail = (head + Filled) % CounterMod
      BY <1>1 DEF IndInv, RingInOrder
  <2> QED
      BY <2>1, <2>2, <2>3
<1>3. CASE Write(t)
  <2> DEFINE x == head + Filled
             q == x \div CounterMod
  <2>1. tail' = (tail + 1) % CounterMod /\ head' = head /\ Filled' = Filled + 1
      BY <1>1, <1>3 DEF Write, Advance, Succ, IndInv, TicketsCurrent
  <2>2. x \in Nat
      BY <1>2
  <2>3. tail \in 0 .. CounterMod - 1 /\ q \in Int /\ x = CounterMod * q + tail
      BY <1>2, <2>2, Division
  <2> HIDE DEF q
  <2>4. CASE tail + 1 < CounterMod
    <3> DEFINE r == tail + 1
    <3>1. r \in 0 .. CounterMod - 1 /\ x + 1 = CounterMod * q + r
        BY <1>2, <2>3, <2>4
    <3>2. r % CounterMod = r
        BY <1>2, <3>1
    <3> HIDE DEF r, x
    <3>3. (CounterMod * q + r) % CounterMod = r
        BY <1>2, <2>3, <3>1, DivisionUnique
    <3>4. (x + 1) % CounterMod = r
        BY <3>1, <3>3
    <3> QED
        BY <1>2, <2>1, <3>2, <3>4 DEF r, x
  <2>5. CASE tail + 1 = CounterMod
    <3> DEFINE d == q + 1
    <3>1. d \in Int /\ x + 1 = CounterMod * d + 0 /\ 0 \in 0 .. CounterMod - 1
        BY <1>2, <2>3, <2>5
    <3> HIDE DEF d, x
    <3>2. (CounterMod * d + 0) % CounterMod = 0
        BY <1>2, <3>1, DivisionUnique
    <3>3. (x + 1) % CounterMod = 0
        BY <3>1, <3>2
    <3>4. CounterMod % CounterMod = 0
        BY <1>2
    <3> QED
        BY <1>2, <2>1, <2>5, <3>3, <3>4 DEF x
  <2> QED
      BY <1>2, <2>3, <2>4, <2>5
<1>4. CASE Read(t)
  <2>1. /\ head' = Succ(head) /\ tail' = tail /\ Filled' = Filled - 1 /\ Filled > 0
    <3>1. ~Write(t)
        BY <1>4, PhotonQueueAssumption DEF Read, Write
    <3>2. t \notin Pushers
        BY <1>4, PhotonQueueAssumption DEF Read
    <3> QED
        BY <1>1, <1>4, <3>1, <3>2 DEF Read, Advance, IndInv, TicketsCurrent
  <2>2. CASE head + 1 < CounterMod
    <3>1. Succ(head) = head + 1
        BY <1>2, <2>2 DEF Succ
    <3> QED
        BY <1>2, <2>1, <3>1
  <2>3. CASE head + 1 = CounterMod
    <3> DEFINE y == Filled - 1
    <3>1. Succ(head) = 0 /\ y \in Nat /\ head + Filled = CounterMod + y /\ CounterMod % CounterMod = 0
        BY <1>2, <2>1, <2>3 DEF Succ
    <3> HIDE DEF y
    <3>2. (CounterMod + y) % CounterMod = y % CounterMod
        BY <1>2, <3>1, ModShift
    <3> QED
        BY <1>2, <2>1, <3>1, <3>2 DEF y
  <2> QED
      BY <1>2, <2>2, <2>3
<1>5. CASE ~Write(t) /\ ~Read(t)
  <2>1. head' = head /\ tail' = tail
      BY <1>5 DEF StepOf, Call, SpaceWait, ItemsWait, Lock, ItemsSignal, SpaceSignal
  <2> QED
      BY <1>1, <1>2, <1>5, <2>1
<1> QED
    BY <1>3, <1>4, <1>5

(* An empty queue. *)
LEMMA InitFilled == Init => InHands = 0 /\ Filled = 0
<1> SUFFICES ASSUME Init PROVE InHands = 0 /\ Filled = 0
    OBVIOUS
<1> DEFINE A == At(Tasks, {"lock", "access", "signal"})
           W == At(Pushers, {"signal"})
           R == At(Poppers, {"lock", "access"})
<1>1. A = {} /\ W = {} /\ R = {}
    BY DEF Init, At, Tasks
<1>2. InHands = Cardinality(A) /\ Filled = 0 + Cardinality(W) + Cardinality(R)
    BY DEF InHands, Filled, Init
<1> HIDE DEF A, W, R
<1> QED
    BY <1>1, <1>2, FS_EmptySet

LEMMA InitInv == Init => IndInv
<1> SUFFICES ASSUME Init PROVE IndInv
    OBVIOUS
<1>1. CounterMod \in Nat \ {0} /\ Capacity \in Nat \ {0}
    BY PhotonQueueAssumption
<1>2. Cap \in Nat \ {0} /\ TypeOK
    BY <1>1 DEF Init, TypeOK, Cap
<1>3. InHands = 0 /\ Filled = 0
    BY InitFilled
<1>4. PermitsConserved
    BY <1>2, <1>3 DEF PermitsConserved, InHands, Init
<1>5. MutexOwner /\ TicketsCurrent /\ ResultsFresh
    BY PhotonQueueAssumption DEF Init, MutexOwner, TicketsCurrent, ResultsFresh, Tasks
<1>6. RingInOrder
    BY <1>1, <1>3 DEF RingInOrder, Init
<1> QED
    BY <1>4, <1>5, <1>6 DEF IndInv

LEMMA StepInv == ASSUME IndInv, [Next]_vars PROVE IndInv'
<1>1. CASE Next
    BY <1>1, NextStep, PermitsStep, ControlStep, RingStep DEF IndInv
<1>2. CASE UNCHANGED vars
    BY <1>2 DEF vars, IndInv, PermitsConserved, TypeOK, Cap, At, MutexOwner, TicketsCurrent, RingInOrder,
                Filled, ResultsFresh
<1> QED
    BY <1>1, <1>2

(* The invariant holds in every reachable state. *)
THEOREM Invariance == Spec => []IndInv
BY InitInv, StepInv, PTL DEF Spec

(***************************************************************************)
(* No permit of either queue is lost or made up (lines 27-44), whatever    *)
(* the number of tasks, and every counter and slot keeps its type.         *)
(***************************************************************************)
THEOREM Permits == Spec => []PermitsConserved
<1>1. IndInv => PermitsConserved
    BY DEF IndInv
<1> QED
    BY <1>1, Invariance, PTL

(***************************************************************************)
(* No two tasks touch the slots at the same time: in Queue by the mutex,   *)
(* in Slot (cpp/queue_ping_pong_photon.cpp:19-29) because its only permit  *)
(* is in the hands of one task.                                            *)
(***************************************************************************)
THEOREM Exclusion == Spec => []AccessExclusive
<1>1. IndInv => AccessExclusive
  <2> SUFFICES ASSUME IndInv, NEW t \in Tasks, NEW u \in Tasks, pc[t] = "access", pc[u] = "access", t # u
               PROVE  FALSE
      BY DEF AccessExclusive, At
  <2>1. CASE kind = "queue"
      BY <2>1 DEF IndInv, MutexOwner
  <2>2. CASE kind # "queue"
    <3> DEFINE A == At(Tasks, {"lock", "access", "signal"})
    <3>1. IsFiniteSet(A) /\ t \in A /\ u \in A
        BY TasksFinite, FS_Subset DEF At
    <3>2. Cardinality(A) \in 0 .. 1
      <4>1. space + items + InHands = Cap /\ items \in Nat /\ space \in Nat
          BY FilledBounds DEF IndInv
      <4>2. InHands \in Nat /\ Cap = 1 /\ InHands = Cardinality(A)
          BY <2>2, InHandsParts DEF IndInv, InHands, Cap, PermitsConserved
      <4> QED
          BY <4>1, <4>2
    <3> HIDE DEF A
    <3>3. A = {} \/ \E x : A = {x}
        BY <3>1, <3>2, FS_EmptySet, FS_Singleton
    <3> QED
        BY <3>1, <3>3
  <2> QED
      BY <2>1, <2>2
<1> QED
    BY <1>1, Invariance, PTL

-----------------------------------------------------------------------------
(* Refinement of Channel                                                   *)

(* The abstract operations and outcomes. *)
Ops  == [t \in Tasks |-> Op(t)]
Rets == [t \in Tasks |-> Ret(t)]

LEMMA HeldIsContents ==
    /\ Held = Contents(buf, head, Filled, Cap)
    /\ Held' = Contents(buf', head', Filled', Cap')
BY DEF Held, Contents

(* A write appends to the values held and a read takes the first of them; *)
(* no other step changes them (lines 31 and 39).                          *)
LEMMA HeldSteps ==
    ASSUME IndInv, NEW t \in Tasks, StepOf(t)
    PROVE  /\ Write(t) => Held' = Append(Held, data[t]) /\ Len(Held) < Capacity
           /\ Read(t) => /\ Held # <<>> /\ Held' = Tail(Held)
                         /\ data' = [data EXCEPT ![t] = Head(Held)]
           /\ ~Write(t) /\ ~Read(t) => Held' = Held
<1>1. /\ Filled' = IF Write(t) THEN Filled + 1 ELSE IF Read(t) THEN Filled - 1 ELSE Filled
      /\ Write(t) => Filled < Cap
      /\ Read(t) => Filled > 0
      /\ kind' = kind /\ Cap' = Cap
    BY FilledSteps DEF StepOf
<1>2. Filled \in 0 .. Cap /\ Cap \in 1 .. Capacity /\ Cap \in Nat \ {0} /\ Capacity \in Nat /\ Filled \in Nat
    BY FilledBounds, PhotonQueueAssumption DEF IndInv
<1>3. /\ head \in 0 .. CounterMod - 1 /\ head \in Nat /\ buf \in [0 .. Cap - 1 -> Word]
      /\ data \in [Tasks -> Word] /\ ticket[t] \in Nat /\ CounterMod \in Nat \ {0}
    BY PhotonQueueAssumption DEF IndInv, PermitsConserved, TypeOK, Word
<1>4. Cap = Capacity \/ Cap = 1
    BY DEF Cap
<1> HIDE DEF Cap
<1>5. ASSUME Write(t) PROVE Held' = Append(Held, data[t]) /\ Len(Held) < Capacity
  <2> DEFINE e == ticket[t] % Cap
  <2>1. e = (head + Filled) % Cap
    <3>1. CASE kind = "queue"
      <4>1. ticket[t] = (head + Filled) % CounterMod /\ Cap = Capacity
          BY <1>5, <3>1 DEF IndInv, TicketsCurrent, RingInOrder, Write, Cap
      <4> DEFINE x == head + Filled
      <4>2. x \in Nat /\ CounterMod % Cap = 0
          BY <1>2, <1>3, <4>1, PhotonQueueAssumption
      <4> HIDE DEF x
      <4>3. (x % CounterMod) % Cap = x % Cap
          BY <1>2, <1>3, <4>2, ModMod
      <4> QED
          BY <4>1, <4>3 DEF x
    <3>2. CASE kind # "queue"
      <4>1. Cap = 1
          BY <3>2 DEF Cap
      <4>2. head + Filled \in Nat
          BY <1>2, <1>3
      <4> QED
          BY <1>3, <4>1, <4>2
    <3> QED
        BY <3>1, <3>2
  <2>2. buf' = [buf EXCEPT ![e] = data[t]] /\ head' = head
      BY <1>5 DEF Write
  <2>3. e \in 0 .. Cap - 1
      BY <1>2, <1>3, Division
  <2> HIDE DEF e
  <2>4. /\ buf' \in [0 .. Cap - 1 -> Word] /\ buf'[e] = data[t]
        /\ \A j \in 0 .. Cap - 1 : j # e => buf'[j] = buf[j]
      BY <1>3, <2>2, <2>3
  <2>5. Filled \in 0 .. Cap - 1
      BY <1>1, <1>2, <1>5
  <2>6. Contents(buf', head, Filled + 1, Cap) = Append(Contents(buf, head, Filled, Cap), buf'[e])
    <3> DEFINE d == buf'
               n == Filled
               c == Cap
    <3>1. /\ c \in Nat \ {0} /\ buf \in [0 .. c - 1 -> Word] /\ d \in [0 .. c - 1 -> Word]
          /\ n \in 0 .. c - 1 /\ head \in Nat /\ e = (head + n) % c
          /\ \A j \in 0 .. c - 1 : j # (head + n) % c => d[j] = buf[j]
        BY <1>2, <1>3, <2>1, <2>4, <2>5
    <3> HIDE DEF d, n, c
    <3>2. Contents(d, head, n + 1, c) = Append(Contents(buf, head, n, c), d[(head + n) % c])
        BY <3>1, PutContents
    <3> QED
        BY <3>1, <3>2 DEF d, n, c
  <2>7. Len(Contents(buf, head, Filled, Cap)) = Filled
      BY <1>2, <1>3, ContentsType
  <2>8. Filled' = Filled + 1 /\ Filled < Capacity
      BY <1>1, <1>2, <1>5
  <2>9. Held' = Contents(buf', head, Filled + 1, Cap)
      BY <1>1, <2>2, <2>8, HeldIsContents
  <2> QED
      BY <2>4, <2>6, <2>7, <2>8, <2>9, HeldIsContents
<1>6. ASSUME Read(t)
      PROVE  Held # <<>> /\ Held' = Tail(Held) /\ data' = [data EXCEPT ![t] = Head(Held)]
  <2>1. ~Write(t)
      BY <1>6, PhotonQueueAssumption DEF Read, Write
  <2>2. Filled' = Filled - 1 /\ Filled \in Nat \ {0} /\ buf' = buf
      BY <1>1, <1>2, <1>6, <2>1 DEF Read
  <2>3. head' \in Nat /\ Follows(head', head, Cap) /\ ticket[t] % Cap = head % Cap
    <3>1. CASE kind = "queue"
      <4>1. head' = Succ(head) /\ ticket[t] = head
        <5>1. t \notin Pushers
            BY <1>6, PhotonQueueAssumption DEF Read
        <5> QED
            BY <1>6, <3>1, <5>1 DEF Read, Advance, IndInv, TicketsCurrent
      <4>2. Succ(head) \in Nat
          BY <1>3 DEF Succ
      <4>3. \A j \in Nat : (Succ(head) + j) % Cap = (head + 1 + j) % Cap
          BY <1>2, <1>3, <1>4, CounterStep
      <4> QED
          BY <4>1, <4>2, <4>3 DEF Follows
    <3>2. CASE kind # "queue"
      <4>1. head' = head /\ Cap = 1
          BY <1>6, <3>2 DEF Read, Advance, Cap
      <4> QED
          BY <1>3, <4>1 DEF Follows
    <3> QED
        BY <3>1, <3>2
  <2>4. data' = [data EXCEPT ![t] = buf[head % Cap]]
      BY <1>6, <2>3 DEF Read
  <2>5. /\ Contents(buf, head, Filled, Cap) # <<>>
        /\ Head(Contents(buf, head, Filled, Cap)) = buf[head % Cap]
        /\ Contents(buf, head', Filled - 1, Cap) = Tail(Contents(buf, head, Filled, Cap))
    <3> DEFINE k == head'
               n == Filled
               c == Cap
    <3>1. /\ c \in Nat \ {0} /\ buf \in [0 .. c - 1 -> Word] /\ n \in Nat \ {0} /\ head \in Nat
          /\ k \in Nat /\ Follows(k, head, c)
        BY <1>2, <1>3, <2>2, <2>3
    <3> HIDE DEF k, n, c
    <3>2. /\ Contents(buf, head, n, c) # <<>>
          /\ Head(Contents(buf, head, n, c)) = buf[head % c]
          /\ Contents(buf, k, n - 1, c) = Tail(Contents(buf, head, n, c))
        BY <3>1, TakeContents
    <3> QED
        BY <3>2 DEF k, n, c
  <2> QED
      BY <1>1, <2>2, <2>4, <2>5, HeldIsContents
<1>7. ASSUME ~Write(t), ~Read(t) PROVE Held' = Held
  <2>1. buf' = buf /\ head' = head
      BY <1>7 DEF StepOf, Call, SpaceWait, ItemsWait, Lock, ItemsSignal, SpaceSignal
  <2> QED
      BY <1>1, <1>7, <2>1, HeldIsContents
<1> QED
    BY <1>5, <1>6, <1>7

(* The observable call of one task follows its label. *)
LEMMA ObservedStep ==
    ASSUME pc \in [Tasks -> Labels], NEW t \in Tasks, NEW l \in Labels, Goto(t, l)
    PROVE  /\ Ops' = [Ops EXCEPT ![t] = IF l = "idle" THEN "none"
                                       ELSE IF t \in Pushers THEN "send" ELSE "receive"]
           /\ Rets' = [Rets EXCEPT ![t] = IF l = "signal" THEN "ok" ELSE "none"]
           /\ Ops[t] = Op(t) /\ Rets[t] = Ret(t)
BY DEF Ops, Rets, Op, Ret, Goto, Labels

(* The call, the access and the return are the steps a caller sees. *)
LEMMA StepRefines ==
    ASSUME IndInv, NEW t \in Tasks, StepOf(t)
    PROVE  C!Next \/ UNCHANGED <<Held, Ops, data, Rets>>
<1>0. /\ pc \in [Tasks -> Labels] /\ data \in [Tasks -> Word] /\ ResultsFresh
      /\ ~(t \in Pushers /\ t \in Poppers) /\ (t \in Pushers \/ t \in Poppers)
    BY PhotonQueueAssumption DEF IndInv, PermitsConserved, TypeOK, Labels, Word, Tasks
<1>1. /\ Write(t) => Held' = Append(Held, data[t]) /\ Len(Held) < Capacity
      /\ Read(t) => /\ Held # <<>> /\ Held' = Tail(Held)
                    /\ data' = [data EXCEPT ![t] = Head(Held)]
      /\ ~Write(t) /\ ~Read(t) => Held' = Held
    BY HeldSteps
<1>2. CASE Call(t)
  <2>1. Ops' = [Ops EXCEPT ![t] = IF t \in Pushers THEN "send" ELSE "receive"] /\ Ops[t] = "none"
      BY <1>0, <1>2, ObservedStep DEF Call, Labels, Op
  <2>2. Rets' = Rets
      BY <1>0, <1>2 DEF Call, Goto, Rets, Ret
  <2>3. Held' = Held
      BY <1>1, <1>2 DEF Call, Write, Read
  <2>4. CASE t \in Pushers
    <3>1. PICK v \in Items : data' = [data EXCEPT ![t] = v]
        BY <1>2, <2>4 DEF Call
    <3>2. C!Call(t, "send", v)
        BY <2>1, <2>2, <2>3, <2>4, <3>1 DEF C!Call, Ops, Rets
    <3> QED
        BY <3>2 DEF C!Next, C!Ops
  <2>5. CASE t \notin Pushers
    <3>1. data' = [data EXCEPT ![t] = Undefined]
        BY <1>0, <1>2, <2>5 DEF Call, ResultsFresh
    <3>2. C!Call(t, "receive", Undefined)
        BY <2>1, <2>2, <2>3, <2>5, <3>1, PhotonQueueAssumption DEF C!Call, Ops, Rets
    <3> QED
        BY <3>2 DEF C!Next, C!Ops
  <2> QED
      BY <2>4, <2>5
<1>3. CASE SpaceWait(t) \/ ItemsWait(t) \/ Lock(t)
  <2>1. Ops' = Ops /\ Rets' = Rets
      BY <1>0, <1>3 DEF SpaceWait, ItemsWait, Lock, AfterWait, Goto, Ops, Op, Rets, Ret
  <2>2. Held' = Held /\ data' = data
      BY <1>1, <1>3 DEF SpaceWait, ItemsWait, Lock, Write, Read
  <2> QED
      BY <2>1, <2>2
<1>4. CASE Write(t)
  <2>1. Ops' = Ops /\ Ops[t] = "send" /\ Rets' = [Rets EXCEPT ![t] = "ok"] /\ Rets[t] = "none"
      BY <1>0, <1>4 DEF Write, Goto, Ops, Op, Rets, Ret
  <2>2. C!Accept(t)
      BY <1>1, <1>4, <2>1 DEF Write, C!Accept, C!Pending, Ops, Rets
  <2> QED
      BY <2>2 DEF C!Next
<1>5. CASE Read(t)
  <2>1. Ops' = Ops /\ Ops[t] = "receive" /\ Rets' = [Rets EXCEPT ![t] = "ok"] /\ Rets[t] = "none"
      BY <1>0, <1>5 DEF Read, Goto, Ops, Op, Rets, Ret
  <2>2. C!Take(t)
      BY <1>1, <1>5, <2>1 DEF C!Take, C!Pending, Ops, Rets
  <2> QED
      BY <2>2 DEF C!Next
<1>6. CASE ItemsSignal(t) \/ SpaceSignal(t)
  <2>1. Ops' = [Ops EXCEPT ![t] = "none"] /\ Rets' = [Rets EXCEPT ![t] = "none"] /\ Rets[t] = "ok"
      BY <1>0, <1>6, ObservedStep DEF ItemsSignal, SpaceSignal, Returned, Labels, Ret
  <2>2. Held' = Held /\ data' = [data EXCEPT ![t] = Undefined]
      BY <1>1, <1>6 DEF ItemsSignal, SpaceSignal, Returned, Write, Read
  <2>3. C!Return(t)
      BY <2>1, <2>2 DEF C!Return, Ops, Rets
  <2> QED
      BY <2>3 DEF C!Next
<1> QED
    BY <1>2, <1>3, <1>4, <1>5, <1>6 DEF StepOf

(***************************************************************************)
(* Both queues implement Channel: whatever the order in which tasks come   *)
(* and go between their wait, their access and their signal (lines 27-44,  *)
(* cpp/queue_ping_pong_photon.cpp:19-29), every value is delivered once    *)
(* and in order and at most CAP of them are held, also when the counters   *)
(* wrap.                                                                   *)
(***************************************************************************)
THEOREM Refinement == Spec => ImplementsChannel
<1>1. Init => C!Init
  <2> SUFFICES ASSUME Init PROVE C!Init
      OBVIOUS
  <2>1. Filled = 0
      BY InitFilled
  <2>2. Held = <<>>
      BY <2>1 DEF Held
  <2> QED
      BY <2>2 DEF Init, C!Init, Op, Ret
<1>2. IndInv /\ [Next]_vars => [C!Next]_(C!vars)
  <2> SUFFICES ASSUME IndInv, [Next]_vars PROVE C!Next \/ UNCHANGED C!vars
      OBVIOUS
  <2>1. CASE UNCHANGED vars
      BY <2>1 DEF vars, C!vars, Held, Filled, At, Cap, Op, Ret
  <2>2. CASE Next
    <3>1. UNCHANGED <<Held, Ops, data, Rets>> => UNCHANGED C!vars
        BY DEF C!vars, Ops, Rets
    <3> QED
        BY <2>2, <3>1, NextStep, StepRefines
  <2> QED
      BY <2>1, <2>2
<1> QED
    BY <1>1, <1>2, Invariance, PTL DEF Spec, ImplementsChannel, C!Spec
=============================================================================
