----------------------------- MODULE PhotonQueue -----------------------------
(***************************************************************************)
(* The two queues that the PhotonLibOS programs build from semaphores, as  *)
(* implementations of Channel.  kind, chosen in the initial state, is      *)
(*   "queue"  struct Queue of cpp/worker_pool_photon.cpp: a ring of CAP    *)
(*            slots, two counters under a mutex, semaphores items, space;  *)
(*   "slot"   struct Slot of cpp/queue_ping_pong_photon.cpp: one value, no *)
(*            mutex, semaphores full (here items) and empty (here space).  *)
(*                                                                         *)
(* A push is space.wait, the write, items.signal; a pop is items.wait, the *)
(* read, space.signal.  The permits say how many slots may be used, never  *)
(* which.  Line numbers refer to cpp/worker_pool_photon.cpp.               *)
(*                                                                         *)
(* Queue runs on one vcpu, where tasks switch only while they wait.  The   *)
(* model lets them switch anywhere, as the vcpus of a WorkPool do.         *)
(***************************************************************************)
EXTENDS Integers, Sequences, FiniteSets

CONSTANTS
    Pushers, Poppers,   \* the tasks that push (send) and those that pop (recv)
    Items,              \* the values
    Capacity,           \* CAP (256)
    CounterMod,         \* 2^64, where the counters of type size_t wrap
    Nobody, Undefined

(* 256 divides 2^64: a counter that wraps stays in step with the ring. *)
ASSUME PhotonQueueAssumption ==
    /\ Pushers \intersect Poppers = {} /\ Nobody \notin Pushers \union Poppers
    /\ IsFiniteSet(Pushers) /\ IsFiniteSet(Poppers)
    /\ Undefined \notin Items
    /\ Capacity \in Nat \ {0} /\ CounterMod \in Nat
    /\ CounterMod > Capacity /\ CounterMod % Capacity = 0

VARIABLES
    kind,
    buf,            \* the slots
    head, tail,     \* the counters of pops and pushes ("queue")
    mu,             \* the owner of the mutex ("queue")
    items, space,   \* the semaphores
    pc,             \* where each task is
    ticket,         \* the counter as a task has loaded it
    data            \* what a task pushes, or has popped

vars == <<kind, buf, head, tail, mu, items, space, pc, ticket, data>>

Tasks == Pushers \union Poppers

(* space{CAP} and empty{1} *)
Cap == IF kind = "queue" THEN Capacity ELSE 1

TypeOK ==
    /\ kind \in {"queue", "slot"}
    /\ buf \in [0 .. Cap - 1 -> Items \union {Undefined}]
    /\ head \in 0 .. CounterMod - 1 /\ tail \in 0 .. CounterMod - 1
    /\ mu \in Tasks \union {Nobody}
    /\ items \in 0 .. Cap /\ space \in 0 .. Cap
    /\ pc \in [Tasks -> {"idle", "wait", "lock", "access", "signal"}]
    /\ ticket \in [Tasks -> 0 .. CounterMod - 1]
    /\ data \in [Tasks -> Items \union {Undefined}]

Init ==
    /\ kind \in {"queue", "slot"}
    /\ buf = [i \in 0 .. Cap - 1 |-> Undefined]
    /\ head = 0 /\ tail = 0
    /\ mu = Nobody
    /\ items = 0 /\ space = Cap
    /\ pc = [t \in Tasks |-> "idle"]
    /\ ticket = [t \in Tasks |-> 0]
    /\ data = [t \in Tasks |-> Undefined]

-----------------------------------------------------------------------------

Goto(t, l) == pc' = [pc EXCEPT ![t] = l]

(* A caller calls push or pop. *)
Call(t) ==
    /\ pc[t] = "idle"
    /\ Goto(t, "wait")
    /\ IF t \in Pushers
         THEN \E v \in Items : data' = [data EXCEPT ![t] = v]
         ELSE UNCHANGED data
    /\ UNCHANGED <<kind, buf, head, tail, mu, items, space, ticket>>

(* Only Queue takes the mutex after the semaphore. *)
AfterWait == IF kind = "queue" THEN "lock" ELSE "access"

(* mutant: a permit is seen, not taken *)
SpaceSeen(t) ==
    /\ t \in Pushers /\ pc[t] = "wait"
    /\ space > 0
    /\ Goto(t, AfterWait)
    /\ UNCHANGED <<kind, buf, head, tail, mu, items, space, ticket, data>>

(* space.wait(1), empty.wait(1) *)
SpaceWait(t) ==
    /\ t \in Pushers /\ pc[t] = "wait"
    /\ space > 0
    /\ space' = space - 1
    /\ Goto(t, AfterWait)
    /\ UNCHANGED <<kind, buf, head, tail, mu, items, ticket, data>>

(* items.wait(1), full.wait(1) *)
ItemsWait(t) ==
    /\ t \in Poppers /\ pc[t] = "wait"
    /\ items > 0
    /\ items' = items - 1
    /\ Goto(t, AfterWait)
    /\ UNCHANGED <<kind, buf, head, tail, mu, space, ticket, data>>

(* mutant: no scoped_lock *)
LockAnyway(t) ==
    /\ pc[t] = "lock"
    /\ mu' = t
    /\ ticket' = [ticket EXCEPT ![t] = IF t \in Pushers THEN tail ELSE head]
    /\ Goto(t, "access")
    /\ UNCHANGED <<kind, buf, head, tail, items, space, data>>

(* scoped_lock l(mu), and the load half of tail++ and head++ *)
Lock(t) ==
    /\ pc[t] = "lock"
    /\ mu = Nobody
    /\ mu' = t
    /\ ticket' = [ticket EXCEPT ![t] = IF t \in Pushers THEN tail ELSE head]
    /\ Goto(t, "access")
    /\ UNCHANGED <<kind, buf, head, tail, items, space, data>>

(* mutant: the counters wrap out of step with the ring *)
SuccOdd(n) == (n + 1) % (CounterMod - 1)

Succ(n) == (n + 1) % CounterMod

(* The store half of the increment, and the unlock; Slot has neither. *)
Advance(t, counter) == IF kind = "queue" THEN Succ(ticket[t]) ELSE counter

(* buf[tail++ % CAP] = v, value = v *)
Write(t) ==
    /\ t \in Pushers /\ pc[t] = "access"
    /\ buf' = [buf EXCEPT ![ticket[t] % Cap] = data[t]]
    /\ tail' = Advance(t, tail)
    /\ mu' = Nobody
    /\ Goto(t, "signal")
    /\ UNCHANGED <<kind, head, items, space, ticket, data>>

(* v = buf[head++ % CAP], v = value *)
Read(t) ==
    /\ t \in Poppers /\ pc[t] = "access"
    /\ data' = [data EXCEPT ![t] = buf[ticket[t] % Cap]]
    /\ head' = Advance(t, head)
    /\ mu' = Nobody
    /\ Goto(t, "signal")
    /\ UNCHANGED <<kind, buf, tail, items, space, ticket>>

Returned(t) ==
    /\ Goto(t, "idle")
    /\ ticket' = [ticket EXCEPT ![t] = 0]
    /\ data' = [data EXCEPT ![t] = Undefined]

(* items.signal(1), full.signal(1), and push returns *)
ItemsSignal(t) ==
    /\ t \in Pushers /\ pc[t] = "signal"
    /\ items' = items + 1
    /\ Returned(t)
    /\ UNCHANGED <<kind, buf, head, tail, mu, space>>

(* mutant: the permit is not given back *)
SpaceSignalForgotten(t) ==
    /\ t \in Poppers /\ pc[t] = "signal"
    /\ Returned(t)
    /\ UNCHANGED <<kind, buf, head, tail, mu, items, space>>

(* space.signal(1), empty.signal(1), and pop returns *)
SpaceSignal(t) ==
    /\ t \in Poppers /\ pc[t] = "signal"
    /\ space' = space + 1
    /\ Returned(t)
    /\ UNCHANGED <<kind, buf, head, tail, mu, items>>

-----------------------------------------------------------------------------

Push(t) == SpaceWait(t) \/ Lock(t) \/ Write(t) \/ ItemsSignal(t)
Pop(t)  == ItemsWait(t) \/ Lock(t) \/ Read(t) \/ SpaceSignal(t)

Next ==
    \/ \E t \in Tasks : Call(t)
    \/ \E t \in Pushers : Push(t)
    \/ \E t \in Poppers : Pop(t)

(***************************************************************************)
(* A task that can run is run.  photon::mutex hands itself to the first    *)
(* waiter and photon::semaphore wakes waiters in order, so a task that     *)
(* keeps finding them free gets them in the end.  Nobody has to call.      *)
(***************************************************************************)
Spec ==
    /\ Init /\ [][Next]_vars
    /\ \A t \in Pushers : SF_vars(Push(t))
    /\ \A t \in Poppers : SF_vars(Pop(t))

-----------------------------------------------------------------------------
(* Properties                                                              *)

At(T, labels) == {t \in T : pc[t] \in labels}

(* What has been written and not yet read, whether announced or not. *)
Filled ==
    items + Cardinality(At(Pushers, {"signal"})) + Cardinality(At(Poppers, {"lock", "access"}))

(***************************************************************************)
(* No permit is lost or made up: each of the CAP slots is free (space),    *)
(* announced (items), or in the hands of one push or pop that is between   *)
(* its wait and its signal (lines 27-44).                                  *)
(***************************************************************************)
PermitsConserved ==
    /\ TypeOK
    /\ space + items + Cardinality(At(Tasks, {"lock", "access", "signal"})) = Cap

(***************************************************************************)
(* Two tasks never touch the memory of the queue at the same time.  In     *)
(* Queue the mutex sees to it, in Slot, whose two users are on different   *)
(* vcpus, only the semaphores (cpp/queue_ping_pong_photon.cpp:19-29).      *)
(***************************************************************************)
AccessExclusive == \A t, u \in At(Tasks, {"access"}) : t = u

(* The values held, oldest first. *)
Held == [i \in 1 .. Filled |-> buf[(head + i - 1) % Cap]]

Ret(t) == IF pc[t] = "signal" THEN "ok" ELSE "none"
Op(t)  == IF pc[t] = "idle" THEN "none" ELSE IF t \in Pushers THEN "send" ELSE "receive"

C == INSTANCE Channel WITH
        queue <- Held, closed <- FALSE,
        op <- [t \in Tasks |-> Op(t)], data <- data, ret <- [t \in Tasks |-> Ret(t)]

(***************************************************************************)
(* What PingPong and WorkerPool rely on: both queues are channels that     *)
(* deliver every value once and in order and hold at most CAP of them,     *)
(* whatever the order in which tasks come and go between their wait, their *)
(* access and their signal.  PermitsConserved has the bound of the slot.   *)
(***************************************************************************)
ImplementsChannel == C!Spec

(***************************************************************************)
(* Nobody sleeps next to a queue that could serve it: a pop that waits     *)
(* while values are held, and a push that waits while there is room, gets  *)
(* on, or others use up what it is waiting for.                            *)
(***************************************************************************)
NobodyStranded ==
    /\ \A t \in Poppers : (pc[t] = "wait" /\ Held # <<>>) ~> (pc[t] # "wait" \/ Held = <<>>)
    /\ \A t \in Pushers : (pc[t] = "wait" /\ Len(Held) < Cap) ~> (pc[t] # "wait" \/ Len(Held) = Cap)
=============================================================================
