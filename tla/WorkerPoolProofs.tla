-------------------------- MODULE WorkerPoolProofs --------------------------
(***************************************************************************)
(* The worker pools for every number of items, producers, consumers and    *)
(* slots, zero included, and every way of stopping the consumers: the      *)
(* items are conserved, drained before a consumer stops, and the checksum  *)
(* is that of the items that producers and consumers exist for.            *)
(***************************************************************************)
EXTENDS WorkerPool, FiniteSetTheorems, TLAPS

(* The three places an item can be in. *)
Owns(p, i)  == next[p] < i /\ i <= Split(p + 1)
At(k, i)    == queue[k] = i

(* Item i is in one place at most. *)
Once(i) ==
    /\ taken[i] \in {0, 1}
    /\ taken[i] = 1 => /\ \A p \in Producers : ~Owns(p, i)
                       /\ \A k \in 1 .. Len(queue) : ~At(k, i)
    /\ \A p \in Producers : Owns(p, i) =>
           /\ \A q \in Producers : Owns(q, i) => q = p
           /\ \A k \in 1 .. Len(queue) : ~At(k, i)
    /\ \A k, l \in 1 .. Len(queue) : At(k, i) /\ At(l, i) => k = l

(* With a producer it is in one place at least. *)
Somewhere(i) ==
    numProducers > 0 =>
        \/ taken[i] = 1
        \/ \E p \in Producers : Owns(p, i)
        \/ \E k \in 1 .. Len(queue) : At(k, i)

(* Items may stay behind: the pool is given up, or nobody is there to take *)
(* them.                                                                   *)
Canceled == main \in {"canceling", "failed"} \/ numConsumers = 0

(* The producers that remaining still counts. *)
Unfinished == {p \in Producers : producer[p] \in {"unborn", "null", "push"}}

(* A canceled producer does not count itself down. *)
Counted ==
    /\ Cardinality(Unfinished) <= remaining
    /\ ~Canceled => Cardinality(Unfinished) = remaining
    /\ main = "canceling" => stop = "closeByLast"

(* A producer that has finished has pushed its share. *)
Finished ==
    ~Canceled => \A p \in Producers : producer[p] \in {"last", "done"} => next[p] >= Split(p + 1)

(* The consumers are stopped when no producer is left. *)
StoppedLate ==
    /\ \A p \in Producers : producer[p] = "last" => Unfinished = {}
    /\ main = "stopping" => Unfinished = {}
    /\ ~Canceled =>
          /\ closed => Unfinished = {}
          /\ \A k \in 1 .. Len(queue) : queue[k] = 0 => Unfinished = {}
          /\ \A c \in Consumers : consumer[c] \in {"publish", "done"} =>
                Unfinished = {} /\ \A k \in 1 .. Len(queue) : queue[k] = 0

(* Nothing but sentinels follows a sentinel. *)
ZerosLast ==
    ~Canceled => \A k, l \in 1 .. Len(queue) : k < l /\ queue[k] = 0 => queue[l] = 0

(* An item that was taken is in the accumulator of one consumer. *)
Accumulated(i) ==
    /\ taken[i] = 0 => \A c \in Consumers : i \notin acc[c]
    /\ taken[i] = 1 => \E c \in Consumers :
           /\ i \in acc[c] <=> WorkIters # 0
           /\ \A d \in Consumers \ {c} : i \notin acc[d]

(* main reports what the consumers have published. *)
Reported ==
    /\ \A c \in Consumers : consumer[c] = "done" => result[c] = acc[c]
    /\ main = "ok" => \A c \in Consumers : consumer[c] = "done"

(* The conjunction that every step of main and the tasks preserves. *)
IndInv ==
    /\ TypeOK
    /\ \A i \in Items : Once(i) /\ Somewhere(i) /\ Accumulated(i)
    /\ Counted /\ Finished /\ StoppedLate /\ ZerosLast /\ Reported

-----------------------------------------------------------------------------
(* The split                                                               *)

(* The shares of the producers cover the items in order. *)
LEMMA SplitFacts ==
    ASSUME numProducers \in Nat \ {0}
    PROVE  /\ \A p \in 0 .. numProducers : Split(p) \in 0 .. NumItems
           /\ \A p, q \in 0 .. numProducers : p <= q => Split(p) <= Split(q)
           /\ \A i \in Items : \E p \in Producers : Split(p) < i /\ i <= Split(p + 1)
<1> DEFINE n == numProducers
           N == NumItems
<1>0. n \in Nat \ {0} /\ N \in Nat
    BY WorkerPoolAssumption
<1>1. ASSUME NEW p \in Nat
      PROVE  /\ Split(p) \in Nat /\ n * Split(p) <= p * N /\ p * N < n * Split(p) + n
  <2> DEFINE x == p * N
  <2>1. x \in Nat
      BY <1>0
  <2>2. Split(p) = x \div n
      BY DEF Split
  <2> HIDE DEF x, n
  <2> QED
      BY <1>0, <2>1, <2>2, Z3 DEF x
<1> HIDE DEF n, N
<1>2. ASSUME NEW p \in Nat, NEW q \in Nat, p <= q PROVE Split(p) <= Split(q)
  <2> DEFINE a == Split(p)
             b == Split(q)
  <2>1. a \in Nat /\ b \in Nat /\ n * a <= p * N /\ q * N < n * b + n
      BY <1>1
  <2> HIDE DEF a, b
  <2>2. p * N <= q * N
      BY <1>0, <1>2, Z3
  <2>3. n * a < n * (b + 1)
      BY <1>0, <1>2, <2>1, <2>2, Z3
  <2>4. a < b + 1
      BY <1>0, <2>1, <2>3, Z3
  <2> QED
      BY <2>1, <2>4 DEF a, b
<1>3. Split(n) = N
  <2> DEFINE a == Split(n)
  <2>1. a \in Nat /\ n * a <= n * N /\ n * N < n * a + n
      BY <1>0, <1>1
  <2> HIDE DEF a
  <2>2. n * N < n * (a + 1) /\ n * a < n * (N + 1)
      BY <1>0, <2>1, Z3
  <2>3. N < a + 1 /\ a < N + 1
      BY <1>0, <2>1, <2>2, Z3
  <2> QED
      BY <1>0, <2>1, <2>3 DEF a
<1>4. ASSUME NEW i \in 1 .. N PROVE \E p \in 0 .. n - 1 : Split(p) < i /\ i <= Split(p + 1)
  <2> DEFINE x == i * n - 1
             p == x \div N
  <2>0. N \in Nat \ {0}
      BY <1>0, <1>4
  <2>1. x \in Nat
      BY <1>0, <1>4, Z3
  <2>2. p \in Nat /\ N * p <= x /\ x < N * p + N
    <3> HIDE DEF x
    <3> QED
        BY <2>0, <2>1, Z3
  <2>3. p * N < i * n /\ i * n <= (p + 1) * N
    <3> HIDE DEF p
    <3> QED
        BY <2>0, <2>2, <1>0, <1>4, Z3
  <2> HIDE DEF p, x
  <2>4. p < n
    <3>1. i * n <= N * n
        BY <1>0, <1>4, Z3
    <3>2. p * N < n * N
        BY <1>0, <1>4, <2>2, <2>3, <3>1, Z3
    <3> QED
        BY <1>0, <2>0, <2>2, <3>2, Z3
  <2>5. Split(p) < i
    <3> DEFINE a == Split(p)
    <3>1. a \in Nat /\ n * a <= p * N
        BY <1>1, <2>2
    <3> HIDE DEF a
    <3>2. n * a < n * i
        BY <1>0, <1>4, <2>2, <2>3, <3>1, Z3
    <3>3. a < i
        BY <1>0, <1>4, <3>1, <3>2, Z3
    <3> QED
        BY <3>3 DEF a
  <2>6. i <= Split(p + 1)
    <3> DEFINE b == Split(p + 1)
    <3>1. p + 1 \in Nat
        BY <2>2
    <3>2. b \in Nat /\ (p + 1) * N < n * b + n
        BY <1>1, <3>1
    <3> HIDE DEF b
    <3>3. n * i < n * (b + 1)
        BY <1>0, <1>4, <2>2, <2>3, <3>2, Z3
    <3>4. i < b + 1
        BY <1>0, <1>4, <3>2, <3>3, Z3
    <3> QED
        BY <1>4, <3>2, <3>4 DEF b
  <2> QED
      BY <1>0, <2>2, <2>4, <2>5, <2>6
<1>5. ASSUME NEW p \in 0 .. n PROVE Split(p) \in 0 .. N
  <2>1. p \in Nat /\ p <= n
      BY <1>0
  <2>2. Split(p) \in Nat /\ Split(p) <= Split(n)
      BY <1>0, <1>1, <1>2, <2>1
  <2> QED
      BY <1>0, <1>3, <2>2
<1> QED
    BY <1>0, <1>2, <1>4, <1>5 DEF n, N, Items, Producers

-----------------------------------------------------------------------------
(* What the steps leave alone                                              *)

LEMMA Frame ==
    ASSUME UNCHANGED setting
    PROVE  /\ Producers' = Producers /\ stop' = stop /\ numProducers' = numProducers
           /\ Consumers' = Consumers /\ numConsumers' = numConsumers
           /\ \A p : Split(p)' = Split(p)
BY DEF setting, Producers, Consumers, Split

(* The items stay where they are. *)
LEMMA SamePlaces ==
    ASSUME UNCHANGED <<setting, queue, next, taken, acc>>,
           \A i \in Items : Once(i) /\ Somewhere(i) /\ Accumulated(i)
    PROVE  (\A i \in Items : Once(i) /\ Somewhere(i) /\ Accumulated(i))'
<1>1. ASSUME NEW i \in Items PROVE Once(i)' /\ Somewhere(i)' /\ Accumulated(i)'
  <2>1. Once(i) /\ Somewhere(i) /\ Accumulated(i)
      OBVIOUS
  <2>2. Once(i)'
      BY <2>1, Frame DEF Once, Owns, At
  <2>3. Somewhere(i)'
      BY <2>1, Frame DEF Somewhere, Owns, At
  <2>4. Accumulated(i)'
      BY <2>1, Frame DEF Accumulated
  <2> QED
      BY <2>2, <2>3, <2>4
<1> QED
    BY <1>1

LEMMA UnfinishedFinite ==
    ASSUME TypeOK
    PROVE  /\ IsFiniteSet(Unfinished) /\ Cardinality(Unfinished) \in Nat
           /\ numProducers \in Nat /\ IsFiniteSet(Producers) /\ Cardinality(Producers) = numProducers
<1>1. numProducers \in Nat
    BY WorkerPoolAssumption DEF TypeOK
<1>2. IsFiniteSet(Producers) /\ Cardinality(Producers) = numProducers
    BY <1>1, FS_Interval DEF Producers
<1>3. Unfinished \subseteq Producers
    BY DEF Unfinished
<1> QED
    BY <1>1, <1>2, <1>3, FS_Subset, FS_CardinalityType

-----------------------------------------------------------------------------
(* main                                                                    *)

LEMMA MainMoves ==
    ASSUME IndInv, UNCHANGED <<setting, queue, remaining, zeros, producer, next, consumer, acc, result, taken>>,
           \/ Configure \/ UsageError \/ InitFails \/ SpawnFails \/ SpawnsOver \/ StopAfterProducers \/ MainEnds
    PROVE  IndInv'
<1>1. TypeOK
    BY DEF IndInv
<1>2. /\ main' \in {"parsing", "spawning", "awaiting", "stopping", "canceling", "ok", "failed"}
      /\ main \in {"canceling", "failed"} => main' \in {"canceling", "failed"}
      /\ main' = "canceling" => stop = "closeByLast"
      /\ main' = "stopping" => AllProducersDone
      /\ main' = "ok" => \A c \in Consumers : consumer[c] = "done"
    BY DEF Configure, UsageError, InitFails, SpawnFails, SpawnsOver, StopAfterProducers, MainEnds, Over,
           NextConsumer, NextProducer
<1>c. closed' \in BOOLEAN /\ (numConsumers # 0 /\ closed' => closed)
  <2>1. CASE Configure
      BY <2>1 DEF Configure, NoReceiver
  <2>2. CASE ~Configure
      BY <1>1, <2>2 DEF UsageError, InitFails, SpawnFails, SpawnsOver, StopAfterProducers, MainEnds, TypeOK
  <2> QED
      BY <2>1, <2>2
<1>3. Unfinished' = Unfinished /\ Producers' = Producers /\ Consumers' = Consumers /\ numConsumers' = numConsumers
    BY Frame DEF Unfinished
<1>m. Canceled => Canceled'
    BY <1>2, <1>3 DEF Canceled
<1>4. TypeOK'
    BY <1>1, <1>2, <1>3, <1>c DEF TypeOK, setting
<1>5. (\A i \in Items : Once(i) /\ Somewhere(i) /\ Accumulated(i))'
    BY SamePlaces DEF IndInv
<1>6. Counted'
    BY <1>2, <1>3, <1>m, Frame DEF IndInv, Counted
<1>7. Finished'
    BY <1>3, <1>m, Frame DEF IndInv, Finished
<1>8. StoppedLate'
  <2>1. main' = "stopping" => Unfinished = {}
      BY <1>2 DEF AllProducersDone, Unfinished
  <2> QED
      BY <1>3, <1>c, <1>m, <2>1 DEF IndInv, StoppedLate, Canceled
<1>9. ZerosLast'
    BY <1>m DEF IndInv, ZerosLast
<1>10. Reported'
    BY <1>2, <1>3 DEF IndInv, Reported
<1> QED
    BY <1>4, <1>5, <1>6, <1>7, <1>8, <1>9, <1>10 DEF IndInv

(* closeByMain *)
LEMMA CloseMoves ==
    ASSUME IndInv, CloseAfterProducers
    PROVE  IndInv'
<1>1. /\ UNCHANGED <<setting, main, queue, remaining, zeros, producer, next, consumer, acc, result, taken>>
      /\ closed' = TRUE /\ Unfinished = {} /\ TypeOK
    BY DEF CloseAfterProducers, IndInv, AllProducersDone, Unfinished
<1>3. Unfinished' = Unfinished /\ Producers' = Producers /\ Consumers' = Consumers /\ numConsumers' = numConsumers
    BY <1>1, Frame DEF Unfinished
<1>4. TypeOK'
    BY <1>1, <1>3 DEF TypeOK, setting
<1>5. (\A i \in Items : Once(i) /\ Somewhere(i) /\ Accumulated(i))'
    BY <1>1, SamePlaces DEF IndInv
<1>6. Counted'
    BY <1>1, <1>3, Frame DEF IndInv, Counted, Canceled
<1>7. Finished'
    BY <1>1, <1>3, Frame DEF IndInv, Finished, Canceled
<1>8. StoppedLate'
    BY <1>1, <1>3 DEF IndInv, StoppedLate, Canceled
<1>9. ZerosLast'
    BY <1>1, Frame DEF IndInv, ZerosLast, Canceled
<1>10. Reported'
    BY <1>1, Frame DEF IndInv, Reported
<1> QED
    BY <1>4, <1>5, <1>6, <1>7, <1>8, <1>9, <1>10 DEF IndInv

-----------------------------------------------------------------------------
(* producer: a step that pushes nothing                                    *)

LEMMA ProducerMoves ==
    ASSUME IndInv, NEW p \in Producers,
           \/ SpawnProducer(p) \/ CreateProducerFails(p) \/ PushFails(p)
           \/ Finish(p) \/ CloseByLast(p)
    PROVE  IndInv'
<1>1. TypeOK /\ UNCHANGED <<setting, main, queue, zeros, next, consumer, acc, result, taken>>
    BY DEF IndInv, SpawnProducer, CreateProducerFails, PushFails, Finish, CloseByLast
<1>2. PICK s \in {"push", "null", "last", "done"} : producer' = [producer EXCEPT ![p] = s]
    BY DEF SpawnProducer, CreateProducerFails, PushFails, Finish, CloseByLast
<1>3. Producers' = Producers /\ (\A x : Split(x)' = Split(x)) /\ numProducers' = numProducers /\ stop' = stop
      /\ Consumers' = Consumers /\ numConsumers' = numConsumers
    BY <1>1, Frame
<1>4. producer'[p] = s /\ \A q \in Producers \ {p} : producer'[q] = producer[q]
    BY <1>1, <1>2 DEF TypeOK
<1>5. Unfinished' = IF s \in {"push", "null"} THEN Unfinished \union {p} ELSE Unfinished \ {p}
    BY <1>2, <1>3, <1>4 DEF Unfinished
<1>6. /\ SpawnProducer(p) \/ CreateProducerFails(p) => s \in {"push", "null"} /\ p \in Unfinished
                                                     /\ UNCHANGED <<remaining, closed>>
      /\ PushFails(p) => s = "done" /\ p \in Unfinished /\ (main = "canceling" \/ closed) /\ UNCHANGED <<remaining, closed>>
      /\ Finish(p) => /\ p \in Unfinished /\ remaining' = remaining - 1 /\ UNCHANGED closed
                      /\ s \in {"last", "done"} /\ (s = "last" => remaining = 1)
                      /\ next[p] >= Split(p + 1)
      /\ CloseByLast(p) => /\ producer[p] = "last" /\ s = "done" /\ UNCHANGED remaining /\ closed' = TRUE
  <2>1. CASE SpawnProducer(p)
      BY <1>1, <1>4, <2>1 DEF SpawnProducer, NextProducer, Unfinished, TypeOK, CreateProducerFails, PushFails, Finish, CloseByLast
  <2>2. CASE CreateProducerFails(p)
      BY <1>1, <1>4, <2>2 DEF SpawnProducer, NextProducer, Unfinished, TypeOK, CreateProducerFails, PushFails, Finish, CloseByLast
  <2>3. CASE PushFails(p)
      BY <1>1, <1>4, <2>3 DEF SpawnProducer, NextProducer, Unfinished, TypeOK, CreateProducerFails, PushFails, Finish, CloseByLast
  <2>4. CASE Finish(p)
      BY <1>1, <1>4, <2>4 DEF SpawnProducer, NextProducer, Unfinished, TypeOK, CreateProducerFails, PushFails, Finish, CloseByLast, HasToStop, IsLast
  <2>5. CASE CloseByLast(p)
      BY <1>1, <1>4, <2>5 DEF SpawnProducer, NextProducer, Unfinished, TypeOK, CreateProducerFails, PushFails, Finish, CloseByLast
  <2> QED
      BY <2>1, <2>2, <2>3, <2>4, <2>5
<1>7. /\ Unfinished' \subseteq Unfinished
      /\ p \in Unfinished /\ Unfinished' = Unfinished \ {p} =>
             Cardinality(Unfinished') = Cardinality(Unfinished) - 1 /\ Cardinality(Unfinished) > 0
  <2>1. IsFiniteSet(Unfinished) /\ Cardinality(Unfinished) \in Nat
      BY <1>1, UnfinishedFinite
  <2>2. p \in Unfinished => Cardinality(Unfinished) # 0
      BY <2>1, FS_EmptySet
  <2>3. p \in Unfinished => Cardinality(Unfinished \ {p}) = Cardinality(Unfinished) - 1
      BY <2>1, FS_RemoveElement
  <2> QED
      BY <1>5, <1>6, <2>1, <2>2, <2>3
<1>8. Cardinality(Unfinished) \in Nat /\ remaining \in 0 .. numProducers /\ numProducers \in Nat /\ Counted /\ StoppedLate
    BY <1>1, UnfinishedFinite DEF TypeOK, IndInv
<1>f. PushFails(p) => Canceled
    BY <1>6, <1>8 DEF StoppedLate, Canceled
<1>9. /\ Cardinality(Unfinished') <= remaining' /\ (~Canceled => Cardinality(Unfinished') = remaining')
      /\ remaining' \in 0 .. numProducers
  <2>1. CASE SpawnProducer(p) \/ CreateProducerFails(p)
    <3>1. Unfinished' = Unfinished
        BY <1>5, <1>6, <2>1
    <3> QED
        BY <1>6, <1>8, <2>1, <3>1 DEF Counted
  <2>2. CASE PushFails(p)
    <3>1. Unfinished' = Unfinished \ {p}
        BY <1>5, <1>6, <2>2
    <3> QED
        BY <1>6, <1>7, <1>8, <1>f, <2>2, <3>1 DEF Counted
  <2>3. CASE Finish(p)
    <3>1. Unfinished' = Unfinished \ {p}
        BY <1>5, <1>6, <2>3
    <3> QED
        BY <1>6, <1>7, <1>8, <2>3, <3>1 DEF Counted
  <2>4. CASE CloseByLast(p)
    <3>1. Unfinished' = Unfinished
        BY <1>5, <1>6, <1>8, <2>4 DEF StoppedLate
    <3> QED
        BY <1>6, <1>8, <2>4, <3>1 DEF Counted
  <2> QED
      BY <2>1, <2>2, <2>3, <2>4
<1>10. s = "last" => Unfinished' = {}
  <2> SUFFICES ASSUME s = "last" PROVE Unfinished' = {}
      OBVIOUS
  <2>1. Finish(p)
      BY <1>6
  <2>2. p \in Unfinished /\ Unfinished' = Unfinished \ {p} /\ remaining = 1 /\ IsFiniteSet(Unfinished')
      BY <1>1, <1>5, <1>6, <2>1, UnfinishedFinite, FS_RemoveElement
  <2>3. Cardinality(Unfinished') = 0
      BY <1>7, <1>8, <2>2 DEF Counted
  <2> QED
      BY <2>2, <2>3, FS_EmptySet
<1>11. closed' \in BOOLEAN /\ (closed' => closed \/ Unfinished = {})
  <2>1. closed' = closed \/ (closed' = TRUE /\ producer[p] = "last")
      BY <1>6
  <2>2. producer[p] = "last" => Unfinished = {}
      BY <1>8 DEF StoppedLate
  <2>3. closed \in BOOLEAN
      BY <1>1 DEF TypeOK
  <2>4. CASE closed' = closed
      BY <2>3, <2>4
  <2>5. CASE closed' = TRUE /\ producer[p] = "last"
      BY <2>2, <2>5
  <2> QED
      BY <2>1, <2>4, <2>5
<1>12. TypeOK'
  <2>1. producer' \in [Producers -> {"unborn", "null", "push", "last", "done"}]
      BY <1>1, <1>2 DEF TypeOK
  <2> QED
      BY <1>1, <1>3, <1>9, <1>11, <2>1 DEF TypeOK
<1>13. (\A i \in Items : Once(i) /\ Somewhere(i) /\ Accumulated(i))'
    BY <1>1, SamePlaces DEF IndInv
<1>14. Counted'
    BY <1>1, <1>3, <1>9 DEF IndInv, Counted, Canceled
<1>15. Finished'
  <2>1. ASSUME ~Canceled, NEW q \in Producers, producer'[q] \in {"last", "done"} PROVE next[q] >= Split(q + 1)
    <3>1. CASE q # p
        BY <1>4, <2>1, <3>1 DEF IndInv, Finished
    <3>2. CASE q = p
        BY <1>4, <1>6, <1>f, <2>1, <3>2 DEF IndInv, Finished
    <3> QED
        BY <3>1, <3>2
  <2> QED
      BY <1>1, <1>3, <2>1 DEF Finished, Canceled
<1>16. StoppedLate'
  <2>1. ASSUME NEW q \in Producers, producer'[q] = "last" PROVE Unfinished' = {}
    <3>1. CASE q # p
        BY <1>4, <1>7, <1>8, <2>1, <3>1 DEF StoppedLate
    <3>2. CASE q = p
        BY <1>4, <1>10, <2>1, <3>2
    <3> QED
        BY <3>1, <3>2
  <2>2. Unfinished = {} => Unfinished' = {}
      BY <1>7
  <2> QED
      BY <1>1, <1>3, <1>8, <1>11, <2>1, <2>2 DEF StoppedLate, Canceled
<1>17. ZerosLast'
    BY <1>1, Frame DEF IndInv, ZerosLast, Canceled
<1>18. Reported'
    BY <1>1, Frame DEF IndInv, Reported
<1> QED
    BY <1>12, <1>13, <1>14, <1>15, <1>16, <1>17, <1>18 DEF IndInv

-----------------------------------------------------------------------------
(* consumer: a step that takes nothing                                     *)

LEMMA ConsumerMoves ==
    ASSUME IndInv, NEW c \in Consumers,
           \/ SpawnConsumer(c) \/ CreateConsumerFails(c) \/ PopClosed(c) \/ PopCanceled(c) \/ Publish(c)
    PROVE  IndInv'
<1>1. TypeOK /\ UNCHANGED <<setting, main, queue, closed, remaining, zeros, producer, next, acc, taken>>
    BY DEF IndInv, SpawnConsumer, CreateConsumerFails, PopClosed, PopCanceled, Publish
<1>2. PICK s \in {"null", "pop", "publish", "done"} : consumer' = [consumer EXCEPT ![c] = s]
    BY DEF SpawnConsumer, CreateConsumerFails, PopClosed, PopCanceled, Publish
<1>3. Producers' = Producers /\ (\A x : Split(x)' = Split(x)) /\ numProducers' = numProducers /\ stop' = stop
      /\ Consumers' = Consumers /\ numConsumers' = numConsumers
    BY <1>1, Frame
<1>4. consumer'[c] = s /\ \A d \in Consumers \ {c} : consumer'[d] = consumer[d]
    BY <1>1, <1>2 DEF TypeOK
<1>5. Unfinished' = Unfinished
    BY <1>1, <1>3 DEF Unfinished
<1>6. /\ s \in {"publish", "done"} => Canceled \/ consumer[c] = "publish" \/ (closed /\ queue = <<>>)
      /\ s = "done" => result' = [result EXCEPT ![c] = acc[c]]
      /\ s # "done" => result' = result
      /\ consumer[c] # "done"
    BY <1>1, <1>4 DEF SpawnConsumer, NextConsumer, CreateConsumerFails, PopClosed, PopCanceled, Publish, Canceled, TypeOK
<1>7. TypeOK'
  <2>1. consumer' \in [Consumers -> {"unborn", "null", "pop", "publish", "done"}]
      BY <1>1, <1>2 DEF TypeOK
  <2>2. result' \in [Consumers -> SUBSET Items]
      BY <1>1, <1>6 DEF TypeOK
  <2> QED
      BY <1>1, <1>3, <2>1, <2>2 DEF TypeOK, setting
<1>8. (\A i \in Items : Once(i) /\ Somewhere(i) /\ Accumulated(i))'
    BY <1>1, SamePlaces DEF IndInv
<1>9. Counted'
    BY <1>1, <1>3, <1>5 DEF IndInv, Counted, Canceled
<1>10. Finished'
    BY <1>1, <1>3 DEF IndInv, Finished, Canceled
<1>11. StoppedLate'
  <2>1. ASSUME ~Canceled, NEW d \in Consumers, consumer'[d] \in {"publish", "done"}
        PROVE  Unfinished = {} /\ \A k \in 1 .. Len(queue) : queue[k] = 0
    <3>1. CASE d # c
        BY <1>4, <2>1, <3>1 DEF IndInv, StoppedLate
    <3>2. CASE d = c /\ consumer[c] = "publish"
        BY <2>1, <3>2 DEF IndInv, StoppedLate
    <3>3. CASE closed /\ queue = <<>>
      <4>1. Unfinished = {}
          BY <2>1, <3>3 DEF IndInv, StoppedLate
      <4> QED
          BY <3>3, <4>1
    <3> QED
        BY <1>4, <1>6, <2>1, <3>1, <3>2, <3>3
  <2> QED
      BY <1>1, <1>3, <1>5, <2>1 DEF IndInv, StoppedLate, Canceled
<1>12. ZerosLast'
    BY <1>1, Frame DEF IndInv, ZerosLast, Canceled
<1>13. Reported'
  <2>1. ASSUME NEW d \in Consumers, consumer'[d] = "done" PROVE result'[d] = acc[d]
    <3>1. CASE d # c
        BY <1>1, <1>4, <1>6, <2>1, <3>1 DEF IndInv, Reported, TypeOK
    <3>2. CASE d = c
        BY <1>1, <1>4, <1>6, <2>1, <3>2 DEF TypeOK
    <3> QED
        BY <3>1, <3>2
  <2>2. main # "ok"
      BY <1>6 DEF IndInv, Reported
  <2> QED
      BY <1>1, <1>3, <2>1, <2>2 DEF Reported
<1> QED
    BY <1>7, <1>8, <1>9, <1>10, <1>11, <1>12, <1>13 DEF IndInv

-----------------------------------------------------------------------------
(* The queue                                                               *)

LEMMA Appended ==
    ASSUME NEW S, NEW q \in Seq(S), NEW e \in S
    PROVE  /\ Append(q, e) \in Seq(S) /\ Len(Append(q, e)) = Len(q) + 1 /\ Len(q) \in Nat
           /\ \A k \in 1 .. Len(q) : Append(q, e)[k] = q[k]
           /\ Append(q, e)[Len(q) + 1] = e
OBVIOUS

LEMMA Shifted ==
    ASSUME NEW S, NEW q \in Seq(S), q # <<>>
    PROVE  /\ Tail(q) \in Seq(S) /\ Len(q) \in Nat \ {0} /\ Len(Tail(q)) = Len(q) - 1
           /\ Head(q) = q[1] /\ q[1] \in S
           /\ \A k \in 1 .. Len(q) - 1 : Tail(q)[k] = q[k + 1]
OBVIOUS

(* An item goes from its producer into the queue. *)
LEMMA PushMoves ==
    ASSUME IndInv, NEW p \in Producers, Push(p)
    PROVE  IndInv'
<1> DEFINE n == Len(queue)
           e == next[p] + 1
<1>1. /\ TypeOK /\ UNCHANGED <<setting, main, closed, remaining, zeros, producer, consumer, acc, result, taken>>
      /\ queue' = Append(queue, e) /\ next' = [next EXCEPT ![p] = e]
      /\ producer[p] = "push" /\ next[p] < Split(p + 1) /\ n < Capacity
    BY DEF IndInv, Push
<1>2. Producers' = Producers /\ (\A x : Split(x)' = Split(x)) /\ numProducers' = numProducers /\ stop' = stop
      /\ Consumers' = Consumers /\ numConsumers' = numConsumers
    BY <1>1, Frame
<1>3. Split(p + 1) \in 0 .. NumItems /\ next[p] \in 0 .. NumItems /\ e \in Items /\ NumItems \in Nat
  <2>1. numProducers \in Nat
      BY <1>1, WorkerPoolAssumption DEF TypeOK
  <2>2. numProducers # 0 /\ p + 1 \in 0 .. numProducers
      BY <2>1 DEF Producers
  <2>3. Split(p + 1) \in 0 .. NumItems
      BY <2>1, <2>2, SplitFacts
  <2> QED
      BY <1>1, <2>3, WorkerPoolAssumption DEF TypeOK, Items
<1>4. /\ queue' \in Seq(0 .. NumItems) /\ Len(queue') = n + 1 /\ n \in Nat
      /\ \A k \in 1 .. n : queue'[k] = queue[k]
      /\ queue'[n + 1] = e
  <2>1. queue \in Seq(0 .. NumItems) /\ e \in 0 .. NumItems
      BY <1>1, <1>3 DEF TypeOK, Items
  <2> HIDE DEF e
  <2> QED
      BY <1>1, <2>1, Appended
<1>5. /\ next'[p] = e /\ \A q \in Producers \ {p} : next'[q] = next[q]
      /\ \A q \in Producers : next[q] \in 0 .. NumItems
    BY <1>1 DEF TypeOK
<1>6. Unfinished' = Unfinished /\ p \in Unfinished
    BY <1>1, <1>2 DEF Unfinished
<1>7. TypeOK'
  <2>1. next' \in [Producers -> 0 .. NumItems]
      BY <1>1, <1>3 DEF TypeOK, Items
  <2>2. n + 1 <= Capacity
      BY <1>1, <1>4, WorkerPoolAssumption
  <2> QED
      BY <1>1, <1>2, <1>4, <2>1, <2>2 DEF TypeOK, setting
<1>8. ASSUME NEW i \in Items PROVE Once(i)' /\ Somewhere(i)' /\ Accumulated(i)'
  <2>0. Once(i) /\ Somewhere(i) /\ Accumulated(i) /\ i \in Nat
      BY DEF IndInv, Items
  <2>1. /\ \A q \in Producers \ {p} : Owns(q, i)' <=> Owns(q, i)
        /\ Owns(p, i)' <=> Owns(p, i) /\ i # e
        /\ Owns(p, e)
    <3>1. \A q \in Producers \ {p} : Owns(q, i)' <=> Owns(q, i)
        BY <1>2, <1>5 DEF Owns
    <3>2. Owns(p, i)' <=> Owns(p, i) /\ i # e
        BY <1>2, <1>3, <1>5, <2>0 DEF Owns
    <3>3. Owns(p, e)
        BY <1>1, <1>3 DEF Owns
    <3> QED
        BY <3>1, <3>2, <3>3
  <2>2. /\ \A k \in 1 .. Len(queue)' : At(k, i)' <=> (k \in 1 .. n /\ At(k, i)) \/ (k = n + 1 /\ i = e)
        /\ n + 1 \in 1 .. Len(queue)' /\ (\A k \in 1 .. n : k \in 1 .. Len(queue)' /\ k # n + 1)
    <3>1. Len(queue)' = n + 1 /\ n \in Nat
        BY <1>4
    <3>2. \A k \in 1 .. n + 1 : k \in 1 .. n \/ k = n + 1
        BY <3>1
    <3>3. n + 1 \in 1 .. n + 1 /\ (\A k \in 1 .. n : k \in 1 .. n + 1 /\ k # n + 1)
        BY <3>1
    <3>4. \A k \in 1 .. n + 1 : At(k, i)' <=> (k \in 1 .. n /\ At(k, i)) \/ (k = n + 1 /\ i = e)
        BY <1>4, <3>2, <3>3 DEF At
    <3> QED
        BY <3>1, <3>3, <3>4
  <2>3. taken'[i] = taken[i]
      BY <1>1
  <2>4. Accumulated(i)'
      BY <1>1, <2>0, Frame DEF Accumulated
  <2> HIDE DEF e, n
  <2>5. CASE i = e
    <3>1. /\ taken[i] = 0 /\ (\A k \in 1 .. n : ~At(k, i)) /\ \A q \in Producers : Owns(q, i) => q = p
        BY <2>0, <2>1, <2>5 DEF Once, n
    <3>2. \A q \in Producers : ~Owns(q, i)'
        BY <2>1, <2>5, <3>1
    <3>3. Once(i)'
        BY <1>2, <2>2, <2>3, <2>5, <3>1, <3>2 DEF Once
    <3>4. \E k \in 1 .. Len(queue)' : At(k, i)'
        BY <2>2, <2>5
    <3>5. Somewhere(i)'
        BY <3>4 DEF Somewhere
    <3> QED
        BY <2>4, <3>3, <3>5
  <2>6. CASE i # e
    <3>1. \A q \in Producers : Owns(q, i)' <=> Owns(q, i)
        BY <2>1, <2>6
    <3>3. \A k \in 1 .. Len(queue)' : At(k, i)' => k \in 1 .. n /\ At(k, i)
        BY <2>2, <2>6
    <3>5. Once(i)'
        BY <1>2, <2>0, <2>3, <3>1, <3>3 DEF Once, n
    <3>4. Somewhere(i)'
        BY <1>2, <2>0, <2>2, <2>3, <3>1 DEF Somewhere, n
    <3> QED
        BY <2>4, <3>4, <3>5
  <2> QED
      BY <2>5, <2>6
<1>9. Counted'
    BY <1>1, <1>2, <1>6 DEF IndInv, Counted, Canceled
<1>10. Finished'
  <2>1. ASSUME ~Canceled, NEW q \in Producers, producer[q] \in {"last", "done"} PROVE next'[q] >= Split(q + 1)
      BY <1>1, <1>5, <2>1 DEF IndInv, Finished
  <2> QED
      BY <1>1, <1>2, <2>1 DEF Finished, Canceled
<1>11. e # 0 /\ (~Canceled => /\ ~closed /\ \A k \in 1 .. n : queue[k] # 0
                              /\ \A c \in Consumers : consumer[c] \notin {"publish", "done"})
      /\ main # "stopping" /\ \A q \in Producers : producer[q] # "last"
    BY <1>3, <1>6 DEF IndInv, StoppedLate, Items
<1>12. ~Canceled => \A k \in 1 .. Len(queue)' : queue'[k] # 0
    BY <1>4, <1>11
<1>13. StoppedLate'
    BY <1>1, <1>2, <1>11, <1>12 DEF StoppedLate, Canceled
<1>14. ZerosLast'
    BY <1>1, <1>2, <1>12 DEF ZerosLast, Canceled
<1>15. Reported'
    BY <1>1, Frame DEF IndInv, Reported
<1> QED
    BY <1>7, <1>8, <1>9, <1>10, <1>13, <1>14, <1>15 DEF IndInv

(* A sentinel goes into the queue. *)
LEMMA PushZeroMoves ==
    ASSUME IndInv, PushZeroByMain \/ \E p \in Producers : PushZeroByLast(p)
    PROVE  IndInv'
<1> DEFINE n == Len(queue)
<1>1. /\ TypeOK /\ UNCHANGED <<setting, main, closed, remaining, next, consumer, acc, result, taken>>
      /\ queue' = Append(queue, 0) /\ zeros' = zeros - 1 /\ zeros > 0 /\ n < Capacity
    BY DEF IndInv, PushZeroByMain, PushZeroByLast
<1>2. Producers' = Producers /\ (\A x : Split(x)' = Split(x)) /\ numProducers' = numProducers /\ stop' = stop
      /\ Consumers' = Consumers /\ numConsumers' = numConsumers
    BY <1>1, Frame
<1>3. /\ queue' \in Seq(0 .. NumItems) /\ Len(queue') = n + 1 /\ n \in Nat
      /\ \A k \in 1 .. n : queue'[k] = queue[k]
      /\ queue'[n + 1] = 0
    BY <1>1, Appended, WorkerPoolAssumption DEF TypeOK
<1>4. /\ producer' \in [Producers -> {"unborn", "null", "push", "last", "done"}]
      /\ \A p \in Producers : producer'[p] # producer[p] => producer[p] = "last" /\ producer'[p] \in {"last", "done"}
      /\ Unfinished = {}
  <2>1. CASE PushZeroByMain
      BY <1>1, <2>1 DEF PushZeroByMain, TypeOK, IndInv, StoppedLate
  <2>2. CASE \E p \in Producers : PushZeroByLast(p)
    <3>1. PICK p \in Producers : PushZeroByLast(p)
        BY <2>2
    <3>2. PICK s \in {"last", "done"} : producer' = [producer EXCEPT ![p] = s]
        BY <3>1 DEF PushZeroByLast
    <3>3. producer[p] = "last" /\ Unfinished = {}
        BY <3>1 DEF PushZeroByLast, IndInv, StoppedLate
    <3> QED
        BY <1>1, <3>2, <3>3 DEF TypeOK
  <2> QED
      BY <2>1, <2>2
<1>5. Unfinished' = Unfinished
    BY <1>2, <1>4 DEF Unfinished
<1>6. TypeOK'
  <2>1. zeros' \in 0 .. numConsumers /\ n + 1 <= Capacity
      BY <1>1, <1>3, WorkerPoolAssumption DEF TypeOK
  <2> QED
      BY <1>1, <1>2, <1>3, <1>4, <2>1 DEF TypeOK, setting
<1>7. ASSUME NEW i \in Items PROVE Once(i)' /\ Somewhere(i)' /\ Accumulated(i)'
  <2>0. Once(i) /\ Somewhere(i) /\ Accumulated(i) /\ i # 0
      BY DEF IndInv, Items
  <2>1. \A q \in Producers : Owns(q, i)' <=> Owns(q, i)
      BY <1>1, <1>2 DEF Owns
  <2>2. \A k \in 1 .. n : k \in 1 .. Len(queue)' /\ (At(k, i)' <=> At(k, i))
      BY <1>3 DEF At
  <2>7. \A k \in 1 .. Len(queue)' : At(k, i)' => k \in 1 .. n /\ At(k, i)
    <3>1. \A k \in 1 .. Len(queue)' : k \in 1 .. n \/ k = n + 1
        BY <1>3
    <3> QED
        BY <1>3, <2>0, <3>1 DEF At
  <2>3. taken'[i] = taken[i]
      BY <1>1
  <2>4. Accumulated(i)'
      BY <1>1, <2>0, Frame DEF Accumulated
  <2> HIDE DEF n
  <2>5. Once(i)'
      BY <1>2, <2>0, <2>1, <2>3, <2>7 DEF Once, n
  <2>6. Somewhere(i)'
      BY <1>2, <2>0, <2>1, <2>2, <2>3 DEF Somewhere, n
  <2> QED
      BY <2>4, <2>5, <2>6
<1>8. Counted'
    BY <1>1, <1>2, <1>5 DEF IndInv, Counted, Canceled
<1>9. Finished'
    BY <1>1, <1>2, <1>4 DEF IndInv, Finished, Canceled
<1>10. StoppedLate'
  <2>1. ASSUME ~Canceled, NEW c \in Consumers, consumer[c] \in {"publish", "done"}
        PROVE  \A k \in 1 .. Len(queue)' : queue'[k] = 0
      BY <1>3, <2>1 DEF IndInv, StoppedLate
  <2> QED
      BY <1>1, <1>2, <1>4, <1>5, <2>1 DEF StoppedLate, Canceled
<1>11. ZerosLast'
    BY <1>1, <1>2, <1>3 DEF IndInv, ZerosLast, Canceled
<1>12. Reported'
    BY <1>1, Frame DEF IndInv, Reported
<1> QED
    BY <1>6, <1>7, <1>8, <1>9, <1>10, <1>11, <1>12 DEF IndInv

(* The head of the queue is taken: what that says of the rest of it. *)
LEMMA QueueShifts ==
    ASSUME IndInv, UNCHANGED <<setting, main, closed, remaining, producer, next>>,
           queue # <<>>, queue' = Tail(queue)
    PROVE  /\ Head(queue) = queue[1] /\ queue[1] \in 0 .. NumItems /\ 1 \in 1 .. Len(queue)
           /\ queue' \in Seq(0 .. NumItems) /\ Len(queue') <= Capacity
           /\ \A k \in 1 .. Len(queue') : k + 1 \in 1 .. Len(queue) /\ queue'[k] = queue[k + 1]
           /\ \A k \in 1 .. Len(queue) : k = 1 \/ \E l \in 1 .. Len(queue') : k = l + 1
           /\ Counted' /\ Finished' /\ ZerosLast' /\ Unfinished' = Unfinished
<1>1. queue \in Seq(0 .. NumItems) /\ Len(queue) <= Capacity /\ Capacity \in Nat
    BY WorkerPoolAssumption DEF IndInv, TypeOK
<1> DEFINE n == Len(queue)
<1>2. /\ queue' \in Seq(0 .. NumItems) /\ n \in Nat \ {0} /\ Len(queue') = n - 1
      /\ Head(queue) = queue[1] /\ queue[1] \in 0 .. NumItems
      /\ \A k \in 1 .. n - 1 : queue'[k] = queue[k + 1]
    BY <1>1, Shifted
<1> HIDE DEF n
<1>3. \A k \in 1 .. n - 1 : k + 1 \in 1 .. n
    BY <1>2
<1>4. ASSUME NEW k \in 1 .. n, k # 1 PROVE \E l \in 1 .. n - 1 : k = l + 1
  <2>1. k - 1 \in 1 .. n - 1 /\ k = (k - 1) + 1
      BY <1>2, <1>4
  <2> QED
      BY <2>1
<1>5. Unfinished' = Unfinished
    BY Frame DEF Unfinished
<1>6. Counted' /\ Finished'
    BY <1>5, Frame DEF IndInv, Counted, Finished, Canceled
<1>7. ZerosLast'
  <2> SUFFICES ASSUME ~Canceled, NEW k \in 1 .. n - 1, NEW l \in 1 .. n - 1, k < l, queue'[k] = 0
               PROVE  queue'[l] = 0
      BY <1>2, Frame DEF ZerosLast, Canceled
  <2>1. k + 1 \in 1 .. n /\ l + 1 \in 1 .. n /\ k + 1 < l + 1 /\ queue[k + 1] = 0
      BY <1>2, <1>3
  <2>2. queue[l + 1] = 0
      BY <2>1 DEF IndInv, ZerosLast, n
  <2> QED
      BY <1>2, <2>2
<1> QED
    BY <1>1, <1>2, <1>3, <1>4, <1>5, <1>6, <1>7 DEF n

(* An item goes from the queue to a consumer. *)
LEMMA PopMoves ==
    ASSUME IndInv, NEW c \in Consumers, Pop(c)
    PROVE  IndInv'
<1> DEFINE h == queue[1]
<1>1. /\ TypeOK /\ UNCHANGED <<setting, main, closed, remaining, zeros, producer, next, consumer, result>>
      /\ queue # <<>> /\ queue' = Tail(queue) /\ Head(queue) # 0 /\ consumer[c] = "pop"
    BY DEF IndInv, Pop
<1>2. /\ Head(queue) = h /\ h \in 0 .. NumItems /\ 1 \in 1 .. Len(queue)
      /\ queue' \in Seq(0 .. NumItems) /\ Len(queue') <= Capacity
      /\ \A k \in 1 .. Len(queue') : k + 1 \in 1 .. Len(queue) /\ queue'[k] = queue[k + 1]
      /\ \A k \in 1 .. Len(queue) : k = 1 \/ \E l \in 1 .. Len(queue') : k = l + 1
      /\ Counted' /\ Finished' /\ ZerosLast' /\ Unfinished' = Unfinished
    BY <1>1, QueueShifts
<1>3. Producers' = Producers /\ (\A x : Split(x)' = Split(x)) /\ numProducers' = numProducers /\ stop' = stop
      /\ Consumers' = Consumers /\ numConsumers' = numConsumers
    BY <1>1, Frame
<1>4. h \in Items
    BY <1>1, <1>2, WorkerPoolAssumption DEF Items
<1>5. /\ taken' = [taken EXCEPT ![h] = taken[h] + 1]
      /\ acc' = [acc EXCEPT ![c] = SymmetricDifference(acc[c], Work(h))]
    BY <1>2 DEF Pop
<1>6. /\ taken'[h] = taken[h] + 1 /\ \A i \in Items \ {h} : taken'[i] = taken[i]
      /\ taken' \in [Items -> Nat] /\ taken[h] \in Nat
    BY <1>1, <1>4, <1>5 DEF TypeOK
<1>7. /\ acc' \in [Consumers -> SUBSET Items]
      /\ \A d \in Consumers \ {c} : acc'[d] = acc[d]
      /\ \A i \in Items \ {h} : i \in acc'[c] <=> i \in acc[c]
      /\ h \notin acc[c] => (h \in acc'[c] <=> WorkIters # 0)
  <2> DEFINE a == SymmetricDifference(acc[c], Work(h))
  <2>1. acc[c] \in SUBSET Items /\ acc \in [Consumers -> SUBSET Items]
      BY <1>1 DEF TypeOK
  <2>2. /\ a \in SUBSET Items
        /\ \A i \in Items \ {h} : i \in a <=> i \in acc[c]
        /\ h \notin acc[c] => (h \in a <=> WorkIters # 0)
      BY <1>4, <2>1 DEF SymmetricDifference, Work
  <2> HIDE DEF a
  <2>3. acc' = [acc EXCEPT ![c] = a]
      BY <1>5 DEF a
  <2> QED
      BY <2>1, <2>2, <2>3
<1> HIDE DEF h
<1>8. TypeOK'
    BY <1>1, <1>2, <1>3, <1>6, <1>7 DEF TypeOK
<1>9. ASSUME NEW i \in Items PROVE Once(i)' /\ Somewhere(i)' /\ Accumulated(i)'
  <2>0. Once(i) /\ Somewhere(i) /\ Accumulated(i)
      BY DEF IndInv
  <2>1. \A q \in Producers : Owns(q, i)' <=> Owns(q, i)
      BY <1>1, <1>3 DEF Owns
  <2>2. CASE i = h
    <3>1. At(1, i)
        BY <2>2 DEF At, h
    <3>2. /\ taken[i] = 0 /\ (\A q \in Producers : ~Owns(q, i))
          /\ \A k \in 1 .. Len(queue) : At(k, i) => k = 1
        BY <1>2, <2>0, <3>1 DEF Once
    <3>3. \A k \in 1 .. Len(queue)' : ~At(k, i)'
      <4> SUFFICES ASSUME NEW k \in 1 .. Len(queue') PROVE queue'[k] # i
          BY DEF At
      <4>1. k + 1 # 1 /\ k + 1 \in 1 .. Len(queue) /\ queue'[k] = queue[k + 1]
          BY <1>2
      <4> QED
          BY <3>2, <4>1 DEF At
    <3>4. taken'[i] = 1
        BY <1>6, <2>2, <3>2
    <3>5. Once(i)' /\ Somewhere(i)'
        BY <1>3, <2>1, <3>2, <3>3, <3>4 DEF Once, Somewhere
    <3>6. Accumulated(i)'
      <4>1. \A d \in Consumers : i \notin acc[d]
          BY <2>0, <3>2 DEF Accumulated
      <4> QED
          BY <1>3, <1>7, <2>2, <3>4, <4>1 DEF Accumulated
    <3> QED
        BY <3>5, <3>6
  <2>3. CASE i # h
    <3>1. taken'[i] = taken[i] /\ \A d \in Consumers : i \in acc'[d] <=> i \in acc[d]
        BY <1>6, <1>7, <2>3
    <3>2. \A k \in 1 .. Len(queue)' : k + 1 \in 1 .. Len(queue) /\ (At(k, i)' <=> At(k + 1, i))
        BY <1>2 DEF At
    <3>3. \A k \in 1 .. Len(queue) : At(k, i) => \E l \in 1 .. Len(queue') : k = l + 1
        BY <1>2, <2>3 DEF At, h
    <3>4. Once(i)'
      <4>1. /\ taken'[i] \in {0, 1}
            /\ taken'[i] = 1 => \A q \in Producers : ~Owns(q, i)'
            /\ taken'[i] = 1 => \A k \in 1 .. Len(queue)' : ~At(k, i)'
          BY <2>0, <2>1, <3>1, <3>2 DEF Once
      <4>2. ASSUME NEW q \in Producers, Owns(q, i)'
            PROVE  /\ \A r \in Producers : Owns(r, i)' => r = q
                   /\ \A k \in 1 .. Len(queue)' : ~At(k, i)'
          BY <2>0, <2>1, <3>2, <4>2 DEF Once
      <4>3. ASSUME NEW k \in 1 .. Len(queue)', NEW l \in 1 .. Len(queue)', At(k, i)', At(l, i)'
            PROVE  k = l
        <5>1. k + 1 = l + 1
            BY <2>0, <3>2, <4>3 DEF Once
        <5>2. k \in Int /\ l \in Int
            OBVIOUS
        <5> QED
            BY <5>1, <5>2
      <4> QED
          BY <1>3, <4>1, <4>2, <4>3 DEF Once
    <3>5. Somewhere(i)'
      <4>1. (\E k \in 1 .. Len(queue) : At(k, i)) => \E k \in 1 .. Len(queue)' : At(k, i)'
          BY <3>2, <3>3
      <4> QED
          BY <1>3, <2>0, <2>1, <3>1, <4>1 DEF Somewhere
    <3>6. Accumulated(i)'
        BY <1>3, <2>0, <3>1 DEF Accumulated
    <3> QED
        BY <3>4, <3>5, <3>6
  <2> QED
      BY <2>2, <2>3
<1>10. StoppedLate'
    BY <1>1, <1>2, <1>3 DEF IndInv, StoppedLate, Canceled
<1>11. Reported'
    BY <1>1, <1>3, <1>7 DEF IndInv, Reported
<1> QED
    BY <1>2, <1>8, <1>9, <1>10, <1>11 DEF IndInv

(* A sentinel goes from the queue to a consumer: nothing else was left. *)
LEMMA PopZeroMoves ==
    ASSUME IndInv, NEW c \in Consumers, PopZero(c)
    PROVE  IndInv'
<1>1. /\ TypeOK /\ UNCHANGED <<setting, main, closed, remaining, zeros, producer, next, acc, result, taken>>
      /\ queue # <<>> /\ queue' = Tail(queue) /\ Head(queue) = 0 /\ consumer[c] = "pop"
      /\ consumer' = [consumer EXCEPT ![c] = "publish"]
    BY DEF IndInv, PopZero
<1>2. /\ Head(queue) = queue[1] /\ 1 \in 1 .. Len(queue)
      /\ queue' \in Seq(0 .. NumItems) /\ Len(queue') <= Capacity
      /\ \A k \in 1 .. Len(queue') : k + 1 \in 1 .. Len(queue) /\ queue'[k] = queue[k + 1]
      /\ \A k \in 1 .. Len(queue) : k = 1 \/ \E l \in 1 .. Len(queue') : k = l + 1
      /\ Counted' /\ Finished' /\ ZerosLast' /\ Unfinished' = Unfinished
    BY <1>1, QueueShifts
<1>3. Producers' = Producers /\ (\A x : Split(x)' = Split(x)) /\ numProducers' = numProducers /\ stop' = stop
      /\ Consumers' = Consumers /\ numConsumers' = numConsumers
    BY <1>1, Frame
<1>4. TypeOK'
  <2>1. consumer' \in [Consumers -> {"unborn", "null", "pop", "publish", "done"}]
      BY <1>1 DEF TypeOK
  <2> QED
      BY <1>1, <1>2, <1>3, <2>1 DEF TypeOK
<1>5. ASSUME NEW i \in Items PROVE Once(i)' /\ Somewhere(i)' /\ Accumulated(i)'
  <2>0. Once(i) /\ Somewhere(i) /\ Accumulated(i) /\ i # 0
      BY DEF IndInv, Items
  <2>1. \A q \in Producers : Owns(q, i)' <=> Owns(q, i)
      BY <1>1, <1>3 DEF Owns
  <2>2. \A k \in 1 .. Len(queue)' : k + 1 \in 1 .. Len(queue) /\ (At(k, i)' <=> At(k + 1, i))
      BY <1>2 DEF At
  <2>3. \A k \in 1 .. Len(queue) : At(k, i) => \E l \in 1 .. Len(queue') : k = l + 1
      BY <1>1, <1>2, <2>0 DEF At
  <2>4. Once(i)'
    <3>1. /\ taken'[i] \in {0, 1}
          /\ taken'[i] = 1 => \A q \in Producers : ~Owns(q, i)'
          /\ taken'[i] = 1 => \A k \in 1 .. Len(queue)' : ~At(k, i)'
        BY <1>1, <2>0, <2>1, <2>2 DEF Once
    <3>2. ASSUME NEW q \in Producers, Owns(q, i)'
          PROVE  /\ \A r \in Producers : Owns(r, i)' => r = q
                 /\ \A k \in 1 .. Len(queue)' : ~At(k, i)'
        BY <2>0, <2>1, <2>2, <3>2 DEF Once
    <3>3. ASSUME NEW k \in 1 .. Len(queue)', NEW l \in 1 .. Len(queue)', At(k, i)', At(l, i)'
          PROVE  k = l
      <4>1. k + 1 = l + 1
          BY <2>0, <2>2, <3>3 DEF Once
      <4>2. k \in Int /\ l \in Int
          OBVIOUS
      <4> QED
          BY <4>1, <4>2
    <3> QED
        BY <1>3, <3>1, <3>2, <3>3 DEF Once
  <2>5. Somewhere(i)'
    <3>1. (\E k \in 1 .. Len(queue) : At(k, i)) => \E k \in 1 .. Len(queue)' : At(k, i)'
        BY <2>2, <2>3
    <3> QED
        BY <1>1, <1>3, <2>0, <2>1, <3>1 DEF Somewhere
  <2>6. Accumulated(i)'
      BY <1>1, <2>0, Frame DEF Accumulated
  <2> QED
      BY <2>4, <2>5, <2>6
<1>6. ~Canceled => Unfinished = {} /\ \A k \in 1 .. Len(queue) : queue[k] = 0
  <2> SUFFICES ASSUME ~Canceled PROVE Unfinished = {} /\ \A k \in 1 .. Len(queue) : queue[k] = 0
      OBVIOUS
  <2>1. Unfinished = {}
      BY <1>1, <1>2 DEF IndInv, StoppedLate
  <2>2. \A k \in 1 .. Len(queue) : k = 1 \/ 1 < k
      OBVIOUS
  <2> QED
      BY <1>1, <1>2, <2>1, <2>2 DEF IndInv, ZerosLast
<1>7. StoppedLate'
    BY <1>1, <1>2, <1>3, <1>6 DEF IndInv, StoppedLate, Canceled
<1>8. Reported'
    BY <1>1, Frame DEF IndInv, Reported, TypeOK
<1> QED
    BY <1>2, <1>4, <1>5, <1>7, <1>8 DEF IndInv

-----------------------------------------------------------------------------

LEMMA InitInv == Init => IndInv
<1> SUFFICES ASSUME Init PROVE IndInv
    OBVIOUS
<1>1. /\ numProducers \in Nat /\ NumItems \in Nat /\ numConsumers \in Nat /\ Capacity \in Nat \ {0}
      /\ queue = <<>> /\ Len(queue) = 0 /\ 1 .. Len(queue) = {} /\ main = "parsing"
    BY WorkerPoolAssumption DEF Init
<1>2. \A p \in Producers : numProducers # 0 /\ p \in 0 .. numProducers /\ p + 1 \in 0 .. numProducers
    BY <1>1 DEF Producers
<1>3. \A p \in Producers : next[p] = Split(p) /\ Split(p) \in 0 .. NumItems
    BY <1>1, <1>2, SplitFacts DEF Init
<1>4. TypeOK
  <2>1. next \in [Producers -> 0 .. NumItems]
      BY <1>3 DEF Init
  <2>2. remaining \in 0 .. numProducers /\ zeros \in 0 .. numConsumers
      BY <1>1 DEF Init
  <2>3. queue \in Seq(0 .. NumItems) /\ Len(queue) <= Capacity
      BY <1>1
  <2> QED
      BY <2>1, <2>2, <2>3 DEF Init, TypeOK
<1>5. ASSUME NEW i \in Items PROVE Once(i) /\ Somewhere(i) /\ Accumulated(i)
  <2>1. taken[i] = 0 /\ \A c \in Consumers : acc[c] = {}
      BY DEF Init
  <2>2. ASSUME NEW p \in Producers, NEW q \in Producers, Owns(p, i), Owns(q, i) PROVE p = q
    <3>0. p \in Nat /\ q \in Nat /\ i \in Nat
        BY <1>1, <1>2 DEF Items
    <3>1. ASSUME NEW x \in Producers, NEW y \in Producers, x < y, Owns(x, i), Owns(y, i) PROVE FALSE
      <4>1. x + 1 <= y /\ x + 1 \in 0 .. numProducers /\ y \in 0 .. numProducers /\ numProducers \in Nat \ {0}
          BY <1>1, <1>2, <3>1
      <4>2. Split(x + 1) <= Split(y) /\ Split(x + 1) \in 0 .. NumItems /\ Split(y) \in 0 .. NumItems
          BY <4>1, SplitFacts
      <4>3. i <= Split(x + 1) /\ Split(y) < i
          BY <1>3, <3>1 DEF Owns
      <4> QED
          BY <3>0, <4>2, <4>3
    <3> QED
        BY <2>2, <3>0, <3>1
  <2>3. Once(i)
      BY <1>1, <2>1, <2>2 DEF Once
  <2>4. Somewhere(i)
    <3> SUFFICES ASSUME numProducers > 0 PROVE \E p \in Producers : Owns(p, i)
        BY DEF Somewhere
    <3>1. \E p \in Producers : Split(p) < i /\ i <= Split(p + 1)
        BY <1>1, SplitFacts
    <3> QED
        BY <1>3, <3>1 DEF Owns
  <2>5. Accumulated(i)
      BY <2>1, Frame DEF Accumulated
  <2> QED
      BY <2>3, <2>4, <2>5
<1>6. Counted
  <2>1. Unfinished = Producers
      BY DEF Init, Unfinished
  <2> QED
      BY <1>1, <1>4, <2>1, UnfinishedFinite DEF Init, Counted, Canceled
<1>7. Finished /\ StoppedLate /\ ZerosLast /\ Reported
    BY <1>1 DEF Init, Finished, StoppedLate, ZerosLast, Reported
<1> QED
    BY <1>4, <1>5, <1>6, <1>7 DEF IndInv

LEMMA StepInv == IndInv /\ [Next]_vars => IndInv'
<1> SUFFICES ASSUME IndInv, [Next]_vars PROVE IndInv'
    OBVIOUS
<1>1. CASE Configure \/ UsageError \/ InitFails \/ SpawnFails \/ SpawnsOver \/ StopAfterProducers \/ MainEnds
  <2>1. UNCHANGED <<setting, queue, remaining, zeros, producer, next, consumer, acc, result, taken>>
      BY <1>1 DEF Configure, UsageError, InitFails, SpawnFails, SpawnsOver, StopAfterProducers, MainEnds
  <2> QED
      BY <1>1, <2>1, MainMoves
<1>2. CASE CloseAfterProducers
    BY <1>2, CloseMoves
<1>3. CASE PushZeroByMain \/ \E p \in Producers : PushZeroByLast(p)
    BY <1>3, PushZeroMoves
<1>4. CASE \E p \in Producers : \/ SpawnProducer(p) \/ CreateProducerFails(p) \/ PushFails(p)
                               \/ Finish(p) \/ CloseByLast(p)
    BY <1>4, ProducerMoves
<1>5. CASE \E p \in Producers : Push(p)
    BY <1>5, PushMoves
<1>6. CASE \E c \in Consumers : \/ SpawnConsumer(c) \/ CreateConsumerFails(c)
                               \/ PopClosed(c) \/ PopCanceled(c) \/ Publish(c)
    BY <1>6, ConsumerMoves
<1>7. CASE \E c \in Consumers : Pop(c) \/ PopZero(c)
    BY <1>7, PopMoves, PopZeroMoves
<1>8. CASE UNCHANGED vars
  <2>1. Producers' = Producers /\ (\A x : Split(x)' = Split(x)) /\ numProducers' = numProducers /\ stop' = stop
        /\ Consumers' = Consumers /\ numConsumers' = numConsumers
      BY <1>8, Frame DEF vars
  <2>2. Unfinished' = Unfinished
      BY <1>8, <2>1 DEF vars, Unfinished
  <2>3. TypeOK'
      BY <1>8, <2>1 DEF vars, IndInv, TypeOK
  <2>4. (\A i \in Items : Once(i) /\ Somewhere(i) /\ Accumulated(i))'
      BY <1>8, SamePlaces DEF vars, IndInv
  <2>5. Counted' /\ Finished' /\ StoppedLate' /\ ZerosLast' /\ Reported'
      BY <1>8, <2>1, <2>2 DEF vars, IndInv, Counted, Finished, StoppedLate, ZerosLast, Reported, Canceled
  <2> QED
      BY <2>3, <2>4, <2>5 DEF IndInv
<1> QED
    BY <1>1, <1>2, <1>3, <1>4, <1>5, <1>6, <1>7, <1>8 DEF Next, Main, Failure, Producer, Consumer

(* The invariant of the pool. *)
THEOREM Invariance == Spec => []IndInv
BY InitInv, StepInv, PTL DEF Spec

(* Every item is with one producer, once in the queue or taken once: for   *)
(* every way the range can be split, in every program, even after a spawn  *)
(* has failed.                                                             *)
THEOREM Conservation == Spec => []ItemsConserved
<1>1. ASSUME IndInv, numProducers > 0, NEW i \in Items
      PROVE  Cardinality(Owners(i)) + Cardinality({k \in DOMAIN queue : queue[k] = i}) + taken[i] = 1
  <2> DEFINE A == Owners(i)
             B == {k \in DOMAIN queue : queue[k] = i}
  <2>0. Once(i) /\ Somewhere(i) /\ TypeOK
      BY <1>1 DEF IndInv
  <2>1. A = {p \in Producers : Owns(p, i)}
      BY DEF Owners, Owns
  <2>2. B = {k \in 1 .. Len(queue) : At(k, i)}
      BY <2>0 DEF At, TypeOK
  <2> HIDE DEF A, B
  <2>3. Cardinality({}) = 0 /\ \A x : Cardinality({x}) = 1
      BY FS_EmptySet, FS_Singleton
  <2>4. CASE taken[i] = 1
    <3>1. A = {} /\ B = {}
        BY <2>0, <2>1, <2>2, <2>4 DEF Once
    <3> QED
        BY <2>3, <2>4, <3>1 DEF A, B
  <2>5. CASE taken[i] = 0 /\ \E p \in Producers : Owns(p, i)
    <3>1. PICK p \in Producers : Owns(p, i)
        BY <2>5
    <3>2. A = {p} /\ B = {}
        BY <2>0, <2>1, <2>2, <3>1 DEF Once
    <3>3. Cardinality(A) = 1 /\ Cardinality(B) = 0
        BY <2>3, <3>2
    <3> QED
        BY <2>5, <3>3 DEF A, B
  <2>6. CASE taken[i] = 0 /\ \E k \in 1 .. Len(queue) : At(k, i)
    <3>1. PICK k \in 1 .. Len(queue) : At(k, i)
        BY <2>6
    <3>2. A = {} /\ B = {k}
        BY <2>0, <2>1, <2>2, <3>1 DEF Once
    <3>3. Cardinality(A) = 0 /\ Cardinality(B) = 1
        BY <2>3, <3>2
    <3> QED
        BY <2>6, <3>3 DEF A, B
  <2> QED
      BY <1>1, <2>0, <2>4, <2>5, <2>6 DEF Once, Somewhere
<1>2. IndInv => ItemsConserved
    BY <1>1 DEF ItemsConserved, IndInv
<1> QED
    BY <1>2, Invariance, PTL

(* Without a producer that has something to push and without an item in    *)
(* the queue all items have been taken.                                    *)
LEMMA Drained ==
    ASSUME IndInv, ~Canceled, numProducers > 0, NEW c \in Consumers, consumer[c] \in {"publish", "done"}, NEW i \in Items
    PROVE  taken[i] = 1
<1>1. Unfinished = {} /\ (\A k \in 1 .. Len(queue) : queue[k] = 0) /\ TypeOK /\ Somewhere(i) /\ Finished
    BY DEF IndInv, StoppedLate
<1>2. ASSUME NEW p \in Producers PROVE ~Owns(p, i)
  <2>1. producer[p] \in {"last", "done"}
      BY <1>1 DEF Unfinished, TypeOK
  <2>2. next[p] >= Split(p + 1)
      BY <1>1, <2>1 DEF Finished
  <2>3. numProducers \in Nat \ {0} /\ p + 1 \in 0 .. numProducers
      BY <1>1, WorkerPoolAssumption DEF TypeOK, Producers
  <2>4. Split(p + 1) \in 0 .. NumItems /\ next[p] \in 0 .. NumItems
      BY <1>1, <2>3, SplitFacts DEF TypeOK
  <2> QED
      BY <2>2, <2>4 DEF Owns, Items
<1>3. \A k \in 1 .. Len(queue) : ~At(k, i)
    BY <1>1 DEF At, Items
<1> QED
    BY <1>1, <1>2, <1>3 DEF Somewhere

(* Unless the pool was canceled a consumer leaves its loop when all items  *)
(* have been taken, whether it is stopped by a close or by a sentinel.     *)
THEOREM StopsDrained == Spec => []DrainedBeforeStop
<1>1. IndInv => DrainedBeforeStop
  <2> SUFFICES ASSUME IndInv, numProducers > 0, main \notin {"canceling", "failed"}, NEW c \in Consumers,
                      consumer[c] \in {"publish", "done"}, NEW i \in Items
               PROVE  taken[i] = 1
      BY DEF DrainedBeforeStop
  <2>1. ~Canceled
      BY DEF Canceled, Consumers
  <2> QED
      BY <2>1, Drained
<1> QED
    BY <1>1, Invariance, PTL

(* Without a producer there are only sentinels. *)
Unpushed ==
    numProducers = 0 => /\ \A k \in 1 .. Len(queue) : queue[k] = 0
                        /\ \A i \in Items : taken[i] = 0

LEMMA UnpushedStep == IndInv /\ Unpushed /\ [Next]_vars => Unpushed'
<1> SUFFICES ASSUME IndInv, Unpushed, [Next]_vars, numProducers' = 0 PROVE Unpushed'
    BY DEF Unpushed
<1>1. UNCHANGED setting
    BY DEF Next, Main, Failure, Producer, Consumer, vars, Configure, UsageError, InitFails, SpawnFails, SpawnsOver,
           CloseAfterProducers, StopAfterProducers, PushZeroByMain, MainEnds, SpawnConsumer, SpawnProducer,
           CreateConsumerFails, CreateProducerFails, Push, PushFails, Finish, CloseByLast, PushZeroByLast,
           Pop, PopZero, PopClosed, PopCanceled, Publish
<1>2. numProducers = 0 /\ Producers = {} /\ queue \in Seq(0 .. NumItems)
    BY <1>1 DEF setting, Producers, IndInv, TypeOK
<1>3. /\ \A k \in 1 .. Len(queue) : queue[k] = 0
      /\ \A i \in Items : taken[i] = 0
    BY <1>2 DEF Unpushed
<1>4. CASE PushZeroByMain
  <2>1. queue' = Append(queue, 0) /\ taken' = taken /\ 0 \in 0 .. NumItems
      BY <1>4, WorkerPoolAssumption DEF PushZeroByMain
  <2>2. /\ Len(queue') = Len(queue) + 1 /\ Len(queue) \in Nat
        /\ \A k \in 1 .. Len(queue) : queue'[k] = queue[k]
        /\ queue'[Len(queue) + 1] = 0
      BY <1>2, <2>1, Appended
  <2>3. \A k \in 1 .. Len(queue') : queue'[k] = 0
      BY <1>3, <2>2
  <2> QED
      BY <1>3, <2>1, <2>3 DEF Unpushed
<1>5. CASE \E c \in Consumers : Pop(c) \/ PopZero(c)
  <2>1. queue # <<>> /\ queue' = Tail(queue) /\ (Head(queue) = 0 => taken' = taken)
      BY <1>5 DEF Pop, PopZero
  <2>2. /\ Len(queue) \in Nat \ {0} /\ Len(queue') = Len(queue) - 1 /\ Head(queue) = queue[1]
        /\ \A k \in 1 .. Len(queue) - 1 : queue'[k] = queue[k + 1]
      BY <1>2, <2>1, Shifted
  <2>3. Head(queue) = 0 /\ \A k \in 1 .. Len(queue') : queue'[k] = 0
      BY <1>3, <2>2
  <2> QED
      BY <1>3, <2>1, <2>3 DEF Unpushed
<1>6. CASE UNCHANGED <<queue, taken>>
    BY <1>3, <1>6 DEF Unpushed
<1> QED
  <2>1. \/ PushZeroByMain \/ (\E c \in Consumers : Pop(c) \/ PopZero(c)) \/ UNCHANGED <<queue, taken>>
      BY <1>2 DEF Next, Main, Failure, Producer, Consumer, vars, Configure, UsageError, InitFails, SpawnFails, SpawnsOver,
           CloseAfterProducers, StopAfterProducers, MainEnds, SpawnConsumer, SpawnProducer,
           CreateConsumerFails, CreateProducerFails, PopClosed, PopCanceled, Publish
  <2> QED
      BY <1>4, <1>5, <1>6, <2>1

(* The checksum main reports is that of the items: whichever consumer took *)
(* which of them, in whatever order and however they were stopped.  With   *)
(* no producer or no consumer it is 0 in every program that gets there.    *)
THEOREM ChecksumOfItems == Spec => []ChecksumMatches
<1>0. Spec => []Unpushed
  <2>1. Init => Unpushed
      BY DEF Init, Unpushed
  <2> QED
      BY <2>1, UnpushedStep, Invariance, PTL DEF Spec
<1>1. ASSUME IndInv, main = "ok", numProducers > 0, numConsumers > 0, NEW i \in Items
      PROVE  i \in Checksum <=> WorkIters # 0
  <2>1. Reported /\ ~Canceled /\ Accumulated(i) /\ TypeOK
      BY <1>1, WorkerPoolAssumption DEF IndInv, Canceled, TypeOK
  <2>2. \A c \in Consumers : consumer[c] = "done" /\ result[c] = acc[c]
      BY <1>1, <2>1 DEF Reported
  <2>3. 0 \in Consumers
      BY <1>1, <2>1, WorkerPoolAssumption DEF Consumers, TypeOK
  <2>4. taken[i] = 1
      BY <1>1, <2>1, <2>2, <2>3, Drained
  <2>5. PICK c \in Consumers : (i \in acc[c] <=> WorkIters # 0) /\ \A d \in Consumers \ {c} : i \notin acc[d]
      BY <2>1, <2>4 DEF Accumulated
  <2> DEFINE C == {d \in Consumers : i \in result[d]}
  <2>6. C = IF WorkIters # 0 THEN {c} ELSE {}
      BY <2>2, <2>5
  <2>7. Cardinality({}) = 0 /\ Cardinality({c}) = 1
      BY FS_EmptySet, FS_Singleton
  <2>8. Cardinality(C) = IF WorkIters # 0 THEN 1 ELSE 0
      BY <2>6, <2>7
  <2>9. 1 % 2 = 1 /\ 0 % 2 = 0
      OBVIOUS
  <2> QED
      BY <2>8, <2>9 DEF Checksum
<1>2. ASSUME IndInv, Unpushed, main = "ok", ~(numProducers > 0 /\ numConsumers > 0), NEW i \in Items
      PROVE  i \notin Checksum
  <2>1. Reported /\ Accumulated(i) /\ numProducers \in Nat /\ numConsumers \in Nat
      BY <1>2, WorkerPoolAssumption DEF IndInv, TypeOK
  <2> DEFINE C == {d \in Consumers : i \in result[d]}
  <2>4. C = {}
    <3>1. numConsumers = 0 => Consumers = {}
        BY DEF Consumers
    <3>2. numProducers = 0 => \A d \in Consumers : i \notin result[d]
        BY <1>2, <2>1 DEF Unpushed, Reported, Accumulated
    <3> QED
        BY <1>2, <2>1, <3>1, <3>2
  <2>5. Cardinality(C) = 0 /\ 0 % 2 # 1
      BY <2>4, FS_EmptySet
  <2> QED
      BY <2>5 DEF Checksum
<1>3. ASSUME IndInv, Unpushed PROVE ChecksumMatches
  <2> SUFFICES ASSUME main = "ok"
               PROVE  Checksum = IF numProducers > 0 /\ numConsumers > 0 THEN UNION {Work(i) : i \in Items} ELSE {}
      BY DEF ChecksumMatches
  <2>1. Checksum \subseteq Items
      BY DEF Checksum
  <2>2. CASE numProducers > 0 /\ numConsumers > 0
    <3>1. Checksum = IF WorkIters # 0 THEN Items ELSE {}
        BY <1>1, <1>3, <2>1, <2>2
    <3>2. UNION {Work(i) : i \in Items} = IF WorkIters # 0 THEN Items ELSE {}
        BY DEF Work
    <3> QED
        BY <2>2, <3>1, <3>2
  <2>3. CASE ~(numProducers > 0 /\ numConsumers > 0)
    <3>1. Checksum = {}
        BY <1>2, <1>3, <2>1, <2>3
    <3> QED
        BY <2>3, <3>1
  <2> QED
      BY <2>2, <2>3
<1> QED
    BY <1>0, <1>3, Invariance, PTL
=============================================================================
