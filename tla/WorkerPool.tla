----------------------------- MODULE WorkerPool -----------------------------
(***************************************************************************)
(* The worker_pool benchmarks: producers push the items 1 .. NumItems into *)
(* one bounded queue, consumers race to drain it and fold what they get    *)
(* into an order-independent checksum.                                     *)
(*                                                                         *)
(* The programs differ in how the consumers learn that no item will come   *)
(* (stop, chosen in the initial state) and share the rest:                 *)
(*   "closeByLast"  the last producer to finish closes the queue:          *)
(*                  src/worker_pool*.zig, src/fanout_cpu.zig;              *)
(*   "closeByMain"  a goroutine closes the queue once all producers have   *)
(*                  returned, and main waits for the consumers alone: Go;  *)
(*   "closeByDrop"  the queue is closed when the last of its senders, or   *)
(*                  the last of its receivers, is dropped: tokio;          *)
(*   "zerosByLast"  the last producer pushes one 0 per consumer: Asio;     *)
(*   "zerosByMain"  main waits for the producers and pushes the zeros:     *)
(*                  PhotonLibOS.                                           *)
(* Only the Zig programs refuse --num-producers=0 and --num-consumers=0.   *)
(* In the others the consumers, or the producers, are then on their own.   *)
(*                                                                         *)
(* The queue is what Channel promises.  The hash of an item is an opaque   *)
(* value, so the xor of a collection of hashes is the set of the items     *)
(* that occur in it an odd number of times.                                *)
(***************************************************************************)
EXTENDS Integers, Sequences, FiniteSets

CONSTANTS
    NumItems,
    ProducerCounts,   \* values of --num-producers
    ConsumerCounts,   \* values of --num-consumers
    Capacity,         \* buffer_size (256)
    WorkIters,        \* --work
    MayFail           \* spawns and the start of the runtime may fail

ASSUME WorkerPoolAssumption ==
    /\ NumItems \in Nat /\ ProducerCounts \subseteq Nat /\ ConsumerCounts \subseteq Nat
    /\ Capacity \in Nat \ {0} /\ WorkIters \in Nat
    /\ MayFail \in BOOLEAN

VARIABLES
    stop,        \* the program: how the consumers are stopped
    numProducers, numConsumers,
    main,        \* "parsing", "spawning", "awaiting", "stopping", "canceling", "ok" or "failed"
    queue,       \* the items held, 0 being the stop sentinel
    closed,
    remaining,   \* the producers that have not finished
    zeros,       \* the sentinels still to be pushed
    producer,    \* where each producer is
    next,        \* the index a producer pushes next
    consumer,    \* where each consumer is
    acc,         \* what it has accumulated
    result,      \* what it has published
    taken        \* how often each item was taken, for the properties

setting == <<stop, numProducers, numConsumers>>
vars == <<setting, main, queue, closed, remaining, zeros, producer, next, consumer, acc, result, taken>>

Stops == {"closeByLast", "closeByMain", "closeByDrop", "zerosByLast", "zerosByMain"}

Items     == 1 .. NumItems
Producers == 0 .. numProducers - 1
Consumers == 0 .. numConsumers - 1

SymmetricDifference(S, T) == (S \ T) \union (T \ S)

(* work: zero iterations leave the accumulator at 0. *)
Work(item) == IF WorkIters = 0 THEN {} ELSE {item}

(* mutant: divides first, which loses the remainder *)
SplitTruncated(p) == p * (NumItems \div numProducers)

(* Where the share of producer p starts; the share of p - 1 ends there. *)
Split(p) == (p * NumItems) \div numProducers

TypeOK ==
    /\ stop \in Stops /\ numProducers \in ProducerCounts /\ numConsumers \in ConsumerCounts
    /\ main \in {"parsing", "spawning", "awaiting", "stopping", "canceling", "ok", "failed"}
    /\ queue \in Seq(0 .. NumItems) /\ Len(queue) <= Capacity
    /\ closed \in BOOLEAN
    /\ remaining \in 0 .. numProducers
    /\ zeros \in 0 .. numConsumers
    /\ producer \in [Producers -> {"unborn", "null", "push", "last", "done"}]
    /\ next \in [Producers -> 0 .. NumItems]
    /\ consumer \in [Consumers -> {"unborn", "null", "pop", "publish", "done"}]
    /\ acc \in [Consumers -> SUBSET Items]
    /\ result \in [Consumers -> SUBSET Items]
    /\ taken \in [Items -> Nat]

Init ==
    /\ stop \in Stops /\ numProducers \in ProducerCounts /\ numConsumers \in ConsumerCounts
    /\ main = "parsing"
    /\ queue = <<>>
    /\ closed = FALSE
    /\ remaining = numProducers
    /\ zeros = numConsumers
    /\ producer = [p \in Producers |-> "unborn"]
    /\ next = [p \in Producers |-> Split(p)]
    /\ consumer = [c \in Consumers |-> "unborn"]
    /\ acc = [c \in Consumers |-> {}]
    /\ result = [c \in Consumers |-> {}]
    /\ taken = [i \in Items |-> 0]

-----------------------------------------------------------------------------
(* main: the options, then consumers and producers, each in order          *)

(* num_producers == 0 or num_consumers == 0, which only the Zig programs check *)
RefusesZero == stop = "closeByLast" /\ (numProducers = 0 \/ numConsumers = 0)

(* tokio: drop(rx), before the first producer is spawned, drops the only   *)
(* receiver when no consumer has a clone of it.                            *)
NoReceiver == stop = "closeByDrop" /\ numConsumers = 0

Configure ==
    /\ main = "parsing"
    /\ main' = IF RefusesZero THEN "failed" ELSE "spawning"
    /\ closed' = NoReceiver
    /\ UNCHANGED <<setting, queue, remaining, zeros, producer, next, consumer, acc, result, taken>>

(* An unknown argument: usage, and return before anything is started. *)
UsageError ==
    /\ main = "parsing"
    /\ main' = "failed"
    /\ UNCHANGED <<setting, queue, closed, remaining, zeros, producer, next, consumer, acc, result, taken>>

(* "photon init failed", or `try backend.init` *)
InitFails ==
    /\ MayFail /\ stop \in {"closeByLast", "zerosByMain"}
    /\ main = "parsing"
    /\ main' = "failed"
    /\ UNCHANGED <<setting, queue, closed, remaining, zeros, producer, next, consumer, acc, result, taken>>

NextConsumer(c) ==
    /\ main = "spawning"
    /\ consumer[c] = "unborn" /\ \A d \in 0 .. c - 1 : consumer[d] # "unborn"

NextProducer(p) ==
    /\ main = "spawning"
    /\ \A c \in Consumers : consumer[c] # "unborn"
    /\ producer[p] = "unborn" /\ \A q \in 0 .. p - 1 : producer[q] # "unborn"

SpawnConsumer(c) ==
    /\ NextConsumer(c)
    /\ consumer' = [consumer EXCEPT ![c] = "pop"]
    /\ UNCHANGED <<setting, main, queue, closed, remaining, zeros, producer, next, acc, result, taken>>

SpawnProducer(p) ==
    /\ NextProducer(p)
    /\ producer' = [producer EXCEPT ![p] = "push"]
    /\ UNCHANGED <<setting, main, queue, closed, remaining, zeros, next, consumer, acc, result, taken>>

(* `try group.concurrent` fails; `defer group.cancel` cancels what runs. *)
SpawnFails ==
    /\ MayFail /\ stop = "closeByLast"
    /\ \/ \E c \in Consumers : NextConsumer(c)
       \/ \E p \in Producers : NextProducer(p)
    /\ main' = "canceling"
    /\ UNCHANGED <<setting, queue, closed, remaining, zeros, producer, next, consumer, acc, result, taken>>

(* PhotonLibOS: thread_create returns a null pointer, which nobody looks at. *)
CreateConsumerFails(c) ==
    /\ MayFail /\ stop = "zerosByMain"
    /\ NextConsumer(c)
    /\ consumer' = [consumer EXCEPT ![c] = "null"]
    /\ UNCHANGED <<setting, main, queue, closed, remaining, zeros, producer, next, acc, result, taken>>

CreateProducerFails(p) ==
    /\ MayFail /\ stop = "zerosByMain"
    /\ NextProducer(p)
    /\ producer' = [producer EXCEPT ![p] = "null"]
    /\ UNCHANGED <<setting, main, queue, closed, remaining, zeros, next, consumer, acc, result, taken>>

SpawnsOver ==
    /\ main = "spawning"
    /\ \A c \in Consumers : consumer[c] # "unborn"
    /\ \A p \in Producers : producer[p] # "unborn"
    /\ main' = "awaiting"
    /\ UNCHANGED <<setting, queue, closed, remaining, zeros, producer, next, consumer, acc, result, taken>>

AllProducersDone == \A p \in Producers : producer[p] = "done"

(* "closeByMain", and "closeByDrop" once main has dropped its own sender *)
CloseAfterProducers ==
    /\ stop \in {"closeByMain", "closeByDrop"}
    /\ main = "awaiting" /\ AllProducersDone /\ ~closed
    /\ closed' = TRUE
    /\ UNCHANGED <<setting, main, queue, remaining, zeros, producer, next, consumer, acc, result, taken>>

(* "zerosByMain": producers_done.wait, then q.push(0) per consumer *)
StopAfterProducers ==
    /\ stop = "zerosByMain"
    /\ main = "awaiting" /\ AllProducersDone
    /\ main' = "stopping"
    /\ UNCHANGED <<setting, queue, closed, remaining, zeros, producer, next, consumer, acc, result, taken>>

PushZeroByMain ==
    /\ main = "stopping"
    /\ zeros > 0 /\ Len(queue) < Capacity
    /\ queue' = Append(queue, 0)
    /\ zeros' = zeros - 1
    /\ UNCHANGED <<setting, main, closed, remaining, producer, next, consumer, acc, result, taken>>

(* The tasks that are waited for are over, or were never started. *)
Over == IF main = "canceling" THEN {"done", "unborn"} ELSE {"done"}

(* group.await, pool.join or consumers_done.wait; Go has only consumers.Wait. *)
MainEnds ==
    /\ \/ main = "awaiting" /\ stop # "zerosByMain"
       \/ main = "stopping" /\ zeros = 0
       \/ main = "canceling"
    /\ stop # "closeByMain" => \A p \in Producers : producer[p] \in Over
    /\ \A c \in Consumers : consumer[c] \in Over
    /\ main' = IF main = "canceling" THEN "failed" ELSE "ok"
    /\ UNCHANGED <<setting, queue, closed, remaining, zeros, producer, next, consumer, acc, result, taken>>

(* for (results) |r| checksum ^= r: what an odd number of the results hold *)
Checksum == {i \in Items : Cardinality({c \in Consumers : i \in result[c]}) % 2 = 1}

-----------------------------------------------------------------------------
(* producer                                                                *)

Push(p) ==
    /\ producer[p] = "push"
    /\ next[p] < Split(p + 1)
    /\ ~closed /\ Len(queue) < Capacity
    /\ queue' = Append(queue, next[p] + 1)
    /\ next' = [next EXCEPT ![p] = @ + 1]
    /\ UNCHANGED <<setting, main, closed, remaining, zeros, producer, consumer, acc, result, taken>>

(* mutant: every producer takes itself for the last *)
IsLastAlways == TRUE

(* fetchSub(1) == 1 *)
IsLast == remaining = 1

(* The loop is over; the last producer has to stop the consumers, which is *)
(* to push as many zeros as there are, or to close.                        *)
HasToStop ==
    /\ IsLast
    /\ stop = "closeByLast" \/ (stop = "zerosByLast" /\ zeros > 0)

Finish(p) ==
    /\ producer[p] = "push"
    /\ next[p] >= Split(p + 1)
    /\ remaining' = remaining - 1
    /\ producer' = [producer EXCEPT ![p] =
                       IF HasToStop THEN "last" ELSE "done"]
    /\ UNCHANGED <<setting, main, queue, closed, zeros, next, consumer, acc, result, taken>>

CloseByLast(p) ==
    /\ stop = "closeByLast"
    /\ producer[p] = "last"
    /\ closed' = TRUE
    /\ producer' = [producer EXCEPT ![p] = "done"]
    /\ UNCHANGED <<setting, main, queue, remaining, zeros, next, consumer, acc, result, taken>>

(* mutant: one sentinel for all consumers *)
PushOneZeroByLast(p) ==
    /\ stop = "zerosByLast"
    /\ producer[p] = "last"
    /\ zeros > 0 /\ Len(queue) < Capacity
    /\ queue' = Append(queue, 0)
    /\ zeros' = zeros - 1
    /\ producer' = [producer EXCEPT ![p] = "done"]
    /\ UNCHANGED <<setting, main, closed, remaining, next, consumer, acc, result, taken>>

PushZeroByLast(p) ==
    /\ stop = "zerosByLast"
    /\ producer[p] = "last"
    /\ zeros > 0 /\ Len(queue) < Capacity
    /\ queue' = Append(queue, 0)
    /\ zeros' = zeros - 1
    /\ producer' = [producer EXCEPT ![p] = IF zeros = 1 THEN "done" ELSE "last"]
    /\ UNCHANGED <<setting, main, closed, remaining, next, consumer, acc, result, taken>>

(* `putOne(...) catch return`, `send(i + 1).await.is_err()`: the task is   *)
(* canceled or the queue is closed, and remaining is not counted down.     *)
PushFails(p) ==
    /\ main = "canceling" \/ closed
    /\ producer[p] = "push" /\ next[p] < Split(p + 1)
    /\ producer' = [producer EXCEPT ![p] = "done"]
    /\ UNCHANGED <<setting, main, queue, closed, remaining, zeros, next, consumer, acc, result, taken>>

-----------------------------------------------------------------------------
(* consumer                                                                *)

Pop(c) ==
    /\ consumer[c] = "pop"
    /\ queue # <<>> /\ Head(queue) # 0
    /\ queue' = Tail(queue)
    /\ acc' = [acc EXCEPT ![c] = SymmetricDifference(@, Work(Head(queue)))]
    /\ taken' = [taken EXCEPT ![Head(queue)] = @ + 1]
    /\ UNCHANGED <<setting, main, closed, remaining, zeros, producer, next, consumer, result>>

PopZero(c) ==
    /\ consumer[c] = "pop"
    /\ queue # <<>> /\ Head(queue) = 0
    /\ queue' = Tail(queue)
    /\ consumer' = [consumer EXCEPT ![c] = "publish"]
    /\ UNCHANGED <<setting, main, closed, remaining, zeros, producer, next, acc, result, taken>>

(* error.Closed once the queue is drained *)
PopClosed(c) ==
    /\ consumer[c] = "pop"
    /\ closed /\ queue = <<>>
    /\ consumer' = [consumer EXCEPT ![c] = "publish"]
    /\ UNCHANGED <<setting, main, queue, closed, remaining, zeros, producer, next, acc, result, taken>>

(* `getOne(io) catch break` *)
PopCanceled(c) ==
    /\ main = "canceling"
    /\ consumer[c] = "pop"
    /\ consumer' = [consumer EXCEPT ![c] = "publish"]
    /\ UNCHANGED <<setting, main, queue, closed, remaining, zeros, producer, next, acc, result, taken>>

(* mutant: the accumulator is thrown away *)
PublishNothing(c) ==
    /\ consumer[c] = "publish"
    /\ consumer' = [consumer EXCEPT ![c] = "done"]
    /\ UNCHANGED <<setting, main, queue, closed, remaining, zeros, producer, next, acc, result, taken>>

Publish(c) ==
    /\ consumer[c] = "publish"
    /\ result' = [result EXCEPT ![c] = acc[c]]
    /\ consumer' = [consumer EXCEPT ![c] = "done"]
    /\ UNCHANGED <<setting, main, queue, closed, remaining, zeros, producer, next, acc, taken>>

-----------------------------------------------------------------------------

Main ==
    \/ Configure
    \/ \E c \in Consumers : SpawnConsumer(c)
    \/ \E p \in Producers : SpawnProducer(p)
    \/ SpawnsOver
    \/ CloseAfterProducers \/ StopAfterProducers \/ PushZeroByMain
    \/ MainEnds

(* main has returned, and the process is gone with all that still runs. *)
Ended == main \in {"ok", "failed"}

Producer(p) ==
    /\ ~Ended
    /\ Push(p) \/ PushFails(p) \/ Finish(p) \/ CloseByLast(p) \/ PushZeroByLast(p)

Consumer(c) == Pop(c) \/ PopZero(c) \/ PopClosed(c) \/ PopCanceled(c) \/ Publish(c)

Failure ==
    \/ UsageError \/ InitFails \/ SpawnFails
    \/ \E c \in Consumers : CreateConsumerFails(c)
    \/ \E p \in Producers : CreateProducerFails(p)

Next ==
    \/ Main \/ Failure
    \/ \E p \in Producers : Producer(p)
    \/ \E c \in Consumers : Consumer(c)

(* While tasks can run one of them is run, which is enough for a program   *)
(* of finitely many steps; nothing has to fail.                            *)
Spec ==
    /\ Init /\ [][Next]_vars
    /\ WF_vars(Main)
    /\ WF_vars(\E p \in Producers : Producer(p))
    /\ WF_vars(\E c \in Consumers : Consumer(c))

-----------------------------------------------------------------------------
(* Properties                                                              *)

(* The producers that have yet to push item i. *)
Owners(i) == {p \in Producers : next[p] < i /\ i <= Split(p + 1)}

(***************************************************************************)
(* No item is lost and none is seen twice, from the split of the range     *)
(* (src/worker_pool.zig:121-122) through the queue to the consumers: at    *)
(* any moment an item is with exactly one producer, or in the queue once,  *)
(* or was taken once.                                                      *)
(***************************************************************************)
ItemsConserved ==
    /\ TypeOK
    /\ numProducers > 0 => \A i \in Items :
          Cardinality(Owners(i)) + Cardinality({k \in DOMAIN queue : queue[k] = i}) + taken[i] = 1

(***************************************************************************)
(* "every item is drained before any consumer stops"                       *)
(* (cpp/worker_pool_asio.cpp:37-39), and with a close "the consumers drain *)
(* and exit" (src/worker_pool.zig:36): unless the pool was canceled, a     *)
(* consumer leaves its loop only when all items have been taken.  (Without *)
(* a producer there is nothing to drain, whatever --num-items says.)       *)
(***************************************************************************)
DrainedBeforeStop ==
    numProducers > 0 /\ main \notin {"canceling", "failed"} =>
        \A c \in Consumers :
            consumer[c] \in {"publish", "done"} => \A i \in Items : taken[i] = 1

(***************************************************************************)
(* "checksums must match across all runtimes and configurations"           *)
(* (README.md:282): what main reports depends on the items alone, not on   *)
(* who consumed which of them, in what order and by which program.  The    *)
(* configurations without a producer or without a consumer, which Zig      *)
(* refuses, are no exception to agreement among the programs that end:     *)
(* all of them report 0.                                                   *)
(***************************************************************************)
ChecksumMatches ==
    main = "ok" =>
        Checksum = IF numProducers > 0 /\ numConsumers > 0 THEN UNION {Work(i) : i \in Items} ELSE {}

(* thread_create has failed and its result is ignored                      *)
(* (cpp/worker_pool_photon.cpp:104-105).                                   *)
NullThread ==
    \/ \E c \in Consumers : consumer[c] = "null"
    \/ \E p \in Producers : producer[p] = "null"

(* No producer is the last, so nobody pushes the sentinels                 *)
(* (cpp/worker_pool_asio.cpp:40 with --num-producers=0).                   *)
NobodyStops == stop = "zerosByLast" /\ numProducers = 0 /\ numConsumers > 0

(* A producer that main waits for is at a full queue, and no consumer      *)
(* exists (worker_pool_asio.cpp:34 and worker_pool_photon.cpp:64 with      *)
(* --num-consumers=0 and more items than slots).                           *)
NobodyTakes ==
    /\ stop \in {"zerosByLast", "zerosByMain"} /\ numConsumers = 0
    /\ Len(queue) = Capacity
    /\ \E p \in Producers : producer[p] = "push" /\ next[p] < Split(p + 1)

Stuck == NullThread \/ NobodyStops \/ NobodyTakes

(***************************************************************************)
(* The program ends: the consumers are stopped in every interleaving of    *)
(* the producers (src/worker_pool.zig:31-47), a spawn that fails stops     *)
(* everybody that already runs (lines 113-125), and what may wait for ever *)
(* is Stuck: the two C++ programs, after a thread_create that failed or    *)
(* with a count of zero that src/worker_pool.zig:92 would have refused.    *)
(***************************************************************************)
Completes == <>(Ended \/ Stuck)
=============================================================================
