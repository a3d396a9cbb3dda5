---------------------------- MODULE FutexChannel ----------------------------
(***************************************************************************)
(* The bounded channel of src/futex_channel.zig: a ring buffer and two     *)
(* intrusive lists of blocked waiters under one mutex, and one futex word  *)
(* per blocked waiter that is flipped 0 -> 1 to wake exactly that waiter.  *)
(*                                                                         *)
(* Steps.  A critical section touches nothing but state the mutex guards   *)
(* until it calls wake, so taking the mutex and running the section up to  *)
(* that call is one action.  The two halves of wake (the store to the      *)
(* futex word and futexWake), the unlock, and in park the load of the      *)
(* word, the entry to futexWait, the sleep and the second acquisition of   *)
(* the mutex are actions of their own: these are the steps that other      *)
(* tasks interleave with.                                                  *)
(*                                                                         *)
(* A Waiter lives on the stack of the task that blocks.  Its fields futex, *)
(* done and queued, and data (what data_ptr points at), are functions on   *)
(* the tasks; the frame is alive from the call until Return, which puts    *)
(* the fields back to the values they have when no frame exists.           *)
(***************************************************************************)
EXTENDS Naturals, Sequences, SequencesExt

CONSTANTS
    Tasks,      \* the tasks that share the channel
    Items,      \* the values they exchange
    Capacity,   \* buffer.len; zero makes the channel unbuffered
    Undefined,  \* the content of memory nobody has written
    NoTask      \* the owner of a free mutex, the target when nobody is woken

ASSUME FutexChannelAssumption ==
    /\ Capacity \in Nat
    /\ Undefined \notin Items
    /\ NoTask \notin Tasks

VARIABLES
    buffer,     \* the ring: what each slot holds, taken values included
    head,       \* the slot of the oldest value
    tail,       \* the slot the next value goes to
    count,      \* the number of values held
    closed,
    mutex,      \* the task that holds the mutex, or NoTask
    senders,    \* the waiters blocked in send, first blocked first
    receivers,  \* the waiters blocked in receive
    pc,         \* where a task is
    op,         \* the operation it executes
    ret,        \* what that will return, "none" until it is known
    data,       \* the value it sends, or the memory its receive fills
    futex,      \* its futex word: 0 parked, 1 woken
    done,       \* a peer completed its operation
    queued,     \* its waiter is linked in a list
    wakee       \* the waiter it is waking

ring    == <<buffer, head, tail, count>>
lists   == <<senders, receivers>>
waiter  == <<futex, done, queued>>
vars    == <<ring, closed, mutex, lists, pc, op, ret, data, waiter, wakee>>

Slots   == 0 .. Capacity - 1
Results == {"ok", "Closed", "Canceled"}

(* park: from the first load of the futex word to the last acquisition. *)
Parking == {"load", "wait", "asleep", "cancel", "sync"}
(* The points at which a task holds the mutex. *)
Holding == {"closing", "store", "wake", "unlock"}

PCs == {"idle", "lock", "returned"} \union Parking \union Holding

TypeOK ==
    /\ buffer \in [Slots -> Items \union {Undefined}]
    /\ head \in Nat /\ tail \in Nat /\ count \in 0 .. Capacity
    /\ Capacity > 0 => head \in Slots /\ tail \in Slots
    /\ closed \in BOOLEAN
    /\ mutex \in Tasks \union {NoTask}
    /\ senders \in Seq(Tasks) /\ receivers \in Seq(Tasks)
    /\ pc \in [Tasks -> PCs]
    /\ op \in [Tasks -> {"none", "send", "receive", "close"}]
    /\ ret \in [Tasks -> Results \union {"none"}]
    /\ data \in [Tasks -> Items \union {Undefined}]
    /\ futex \in [Tasks -> {0, 1}]
    /\ done \in [Tasks -> BOOLEAN]
    /\ queued \in [Tasks -> BOOLEAN]
    /\ wakee \in [Tasks -> Tasks \union {NoTask}]

Init ==
    /\ buffer = [i \in Slots |-> Undefined]
    /\ head = 0 /\ tail = 0 /\ count = 0
    /\ closed = FALSE
    /\ mutex = NoTask
    /\ senders = <<>> /\ receivers = <<>>
    /\ pc = [t \in Tasks |-> "idle"]
    /\ op = [t \in Tasks |-> "none"]
    /\ ret = [t \in Tasks |-> "none"]
    /\ data = [t \in Tasks |-> Undefined]
    /\ futex = [t \in Tasks |-> 0]
    /\ done = [t \in Tasks |-> FALSE]
    /\ queued = [t \in Tasks |-> FALSE]
    /\ wakee = [t \in Tasks |-> NoTask]

-----------------------------------------------------------------------------
(* Calls of the typed shell and their return.                              *)

Invoke(t, o, v) ==
    /\ pc[t] = "idle"
    /\ pc' = [pc EXCEPT ![t] = "lock"]
    /\ op' = [op EXCEPT ![t] = o]
    /\ data' = [data EXCEPT ![t] = v]
    /\ UNCHANGED <<ring, closed, mutex, lists, ret, waiter, wakee>>

(* send copies the item into its own frame. *)
InvokeSend(t, v) == Invoke(t, "send", v)

(* receive starts with an undefined result. *)
InvokeReceive(t) == Invoke(t, "receive", Undefined)

InvokeClose(t) == Invoke(t, "close", Undefined)

(* The frame, and the waiter in it, ceases to exist. *)
Return(t) ==
    /\ pc[t] = "returned"
    /\ pc' = [pc EXCEPT ![t] = "idle"]
    /\ op' = [op EXCEPT ![t] = "none"]
    /\ ret' = [ret EXCEPT ![t] = "none"]
    /\ data' = [data EXCEPT ![t] = Undefined]
    /\ futex' = [futex EXCEPT ![t] = 0]
    /\ done' = [done EXCEPT ![t] = FALSE]
    /\ queued' = [queued EXCEPT ![t] = FALSE]
    /\ UNCHANGED <<ring, closed, mutex, lists, wakee>>

(* Task t goes on to p; nothing else changes. *)
Move(t, p) ==
    /\ pc' = [pc EXCEPT ![t] = p]
    /\ UNCHANGED <<ring, closed, mutex, lists, op, ret, data, waiter, wakee>>

-----------------------------------------------------------------------------
(* The mutex.                                                              *)

Acquire(t) == mutex = NoTask /\ mutex' = t

(* Enters the critical section of operation o. *)
Enter(t, o) ==
    /\ pc[t] = "lock"
    /\ op[t] = o
    /\ Acquire(t)

(* `try self.mutex.lock(io)`: send and receive can be canceled while they  *)
(* wait for the mutex; close and park use lockUncancelable.                *)
LockCanceled(t) ==
    /\ pc[t] = "lock"
    /\ op[t] \in {"send", "receive"}
    /\ pc' = [pc EXCEPT ![t] = "returned"]
    /\ ret' = [ret EXCEPT ![t] = "Canceled"]
    /\ UNCHANGED <<ring, closed, mutex, lists, op, data, waiter, wakee>>

(* A task whose outcome is still open has just blocked and goes to park. *)
Unlock(t) ==
    /\ pc[t] = "unlock"
    /\ mutex' = NoTask
    /\ pc' = [pc EXCEPT ![t] = IF ret[t] = "none" THEN "load" ELSE "returned"]
    /\ UNCHANGED <<ring, closed, lists, op, ret, data, waiter, wakee>>

(* Leaves the critical section with outcome r, waking nobody. *)
Finish(t, r) ==
    /\ pc' = [pc EXCEPT ![t] = "unlock"]
    /\ ret' = [ret EXCEPT ![t] = r]
    /\ UNCHANGED <<op, waiter, wakee>>

-----------------------------------------------------------------------------
(* Waiters.                                                                *)

(* `var w: Waiter`: the caller links it in a list. *)
Block(t) ==
    /\ pc' = [pc EXCEPT ![t] = "unlock"]
    /\ futex' = [futex EXCEPT ![t] = 0]
    /\ done' = [done EXCEPT ![t] = FALSE]
    /\ queued' = [queued EXCEPT ![t] = TRUE]
    /\ UNCHANGED <<op, ret, wakee>>

(* Task t takes waiter w for itself, tells it the outcome and wakes it. *)
Claim(t, w, outcome) ==
    /\ done' = [done EXCEPT ![w] = outcome]
    /\ queued' = [queued EXCEPT ![w] = FALSE]
    /\ pc' = [pc EXCEPT ![t] = "store"]
    /\ wakee' = [wakee EXCEPT ![t] = w]
    /\ UNCHANGED <<op, futex>>

(* mutant: futexWake without the store *)
WakeStoreForgotten(t) ==
    /\ pc[t] = "store"
    /\ pc' = [pc EXCEPT ![t] = "wake"]
    /\ UNCHANGED <<ring, closed, mutex, lists, op, ret, data, waiter, wakee>>

(* wake, first half: the store to the futex word. *)
WakeStore(t) ==
    /\ pc[t] = "store"
    /\ futex' = [futex EXCEPT ![wakee[t]] = 1]
    /\ pc' = [pc EXCEPT ![t] = "wake"]
    /\ UNCHANGED <<ring, closed, mutex, lists, op, ret, data, done, queued, wakee>>

(* Where a task goes on after wake: close looks for the next waiter. *)
AfterWake(t) == IF op[t] = "close" THEN "closing" ELSE "unlock"

(* wake, second half: futexWake ends the sleep of the waiter, if it sleeps. *)
WakeFutex(t) ==
    /\ pc[t] = "wake"
    /\ pc' = [u \in Tasks |->
                 CASE u = t -> AfterWake(t)
                   [] u = wakee[t] /\ pc[u] = "asleep" -> "load"
                   [] OTHER -> pc[u]]
    /\ wakee' = [wakee EXCEPT ![t] = NoTask]
    /\ UNCHANGED <<ring, closed, mutex, lists, op, ret, data, waiter>>

-----------------------------------------------------------------------------
(* The ring buffer.                                                        *)

(* mutant: the index runs out of the buffer *)
SuccNoWrap(i) == i + 1

Succ(i) == (i + 1) % Capacity

Put(v) ==
    /\ buffer' = [buffer EXCEPT ![tail] = v]
    /\ tail' = Succ(tail)

-----------------------------------------------------------------------------
(* send                                                                    *)

(* mutant: returns error.Closed with the mutex held *)
SendClosedNoUnlock(t) ==
    /\ Enter(t, "send")
    /\ closed
    /\ pc' = [pc EXCEPT ![t] = "returned"]
    /\ ret' = [ret EXCEPT ![t] = "Closed"]
    /\ UNCHANGED <<ring, closed, lists, op, data, waiter, wakee>>

SendClosed(t) ==
    /\ Enter(t, "send")
    /\ closed
    /\ Finish(t, "Closed")
    /\ UNCHANGED <<ring, closed, lists, data>>

(* Direct handoff into the buffer of the receiver that waits longest. *)
SendHandoff(t) ==
    /\ Enter(t, "send")
    /\ ~closed
    /\ receivers # <<>>
    /\ receivers' = Tail(receivers)
    /\ data' = [data EXCEPT ![Head(receivers)] = data[t]]
    /\ Claim(t, Head(receivers), TRUE)
    /\ ret' = [ret EXCEPT ![t] = "ok"]
    /\ UNCHANGED <<ring, closed, senders>>

SendBuffer(t) ==
    /\ Enter(t, "send")
    /\ ~closed
    /\ receivers = <<>>
    /\ count < Capacity
    /\ Put(data[t])
    /\ count' = count + 1
    /\ Finish(t, "ok")
    /\ UNCHANGED <<head, closed, lists, data>>

SendBlock(t) ==
    /\ Enter(t, "send")
    /\ ~closed
    /\ receivers = <<>>
    /\ count >= Capacity
    /\ senders' = Append(senders, t)
    /\ Block(t)
    /\ UNCHANGED <<ring, closed, receivers, data>>

Send(t) == SendClosed(t) \/ SendHandoff(t) \/ SendBuffer(t) \/ SendBlock(t)

-----------------------------------------------------------------------------
(* receive                                                                 *)

(* Takes the oldest value; no sender is blocked. *)
ReceiveBuffered(t) ==
    /\ Enter(t, "receive")
    /\ count > 0
    /\ senders = <<>>
    /\ data' = [data EXCEPT ![t] = buffer[head]]
    /\ head' = Succ(head)
    /\ count' = count - 1
    /\ Finish(t, "ok")
    /\ UNCHANGED <<buffer, tail, closed, lists>>

(* Takes the oldest value and moves the value of the sender that waits     *)
(* longest into the ring.                                                  *)
ReceiveAndRefill(t) ==
    /\ Enter(t, "receive")
    /\ count > 0
    /\ senders # <<>>
    /\ senders' = Tail(senders)
    /\ data' = [data EXCEPT ![t] = buffer[head]]
    /\ head' = Succ(head)
    /\ Put(data[Head(senders)])
    /\ Claim(t, Head(senders), TRUE)
    /\ ret' = [ret EXCEPT ![t] = "ok"]
    /\ UNCHANGED <<count, closed, receivers>>

(* Takes the value from the frame of a blocked sender. *)
ReceiveFromSender(t) ==
    /\ Enter(t, "receive")
    /\ count = 0
    /\ senders # <<>>
    /\ senders' = Tail(senders)
    /\ data' = [data EXCEPT ![t] = data[Head(senders)]]
    /\ Claim(t, Head(senders), TRUE)
    /\ ret' = [ret EXCEPT ![t] = "ok"]
    /\ UNCHANGED <<ring, closed, receivers>>

ReceiveClosed(t) ==
    /\ Enter(t, "receive")
    /\ count = 0
    /\ senders = <<>>
    /\ closed
    /\ Finish(t, "Closed")
    /\ UNCHANGED <<ring, closed, lists, data>>

ReceiveBlock(t) ==
    /\ Enter(t, "receive")
    /\ count = 0
    /\ senders = <<>>
    /\ ~closed
    /\ receivers' = Append(receivers, t)
    /\ Block(t)
    /\ UNCHANGED <<ring, closed, senders, data>>

Receive(t) ==
    \/ ReceiveBuffered(t)
    \/ ReceiveAndRefill(t)
    \/ ReceiveFromSender(t)
    \/ ReceiveClosed(t)
    \/ ReceiveBlock(t)

-----------------------------------------------------------------------------
(* close                                                                   *)

CloseAgain(t) ==
    /\ Enter(t, "close")
    /\ closed
    /\ Finish(t, "ok")
    /\ UNCHANGED <<ring, closed, lists, data>>

CloseStart(t) ==
    /\ Enter(t, "close")
    /\ ~closed
    /\ closed' = TRUE
    /\ pc' = [pc EXCEPT ![t] = "closing"]
    /\ ret' = [ret EXCEPT ![t] = "ok"]
    /\ UNCHANGED <<ring, lists, op, data, waiter, wakee>>

(* The first loop wakes the receivers, the second the senders. *)
CloseReceiver(t) ==
    /\ pc[t] = "closing"
    /\ receivers # <<>>
    /\ receivers' = Tail(receivers)
    /\ Claim(t, Head(receivers), FALSE)
    /\ UNCHANGED <<ring, closed, mutex, senders, ret, data>>

CloseSender(t) ==
    /\ pc[t] = "closing"
    /\ receivers = <<>>
    /\ senders # <<>>
    /\ senders' = Tail(senders)
    /\ Claim(t, Head(senders), FALSE)
    /\ UNCHANGED <<ring, closed, mutex, receivers, ret, data>>

(* mutant: close drains the receivers only *)
CloseEndEarly(t) ==
    /\ pc[t] = "closing"
    /\ receivers = <<>>
    /\ Move(t, "unlock")

CloseEnd(t) ==
    /\ pc[t] = "closing"
    /\ receivers = <<>>
    /\ senders = <<>>
    /\ Move(t, "unlock")

Close(t) ==
    \/ CloseAgain(t)
    \/ CloseStart(t)
    \/ CloseReceiver(t)
    \/ CloseSender(t)
    \/ CloseEnd(t)

-----------------------------------------------------------------------------
(* park                                                                    *)

(* The condition of the while loop. *)
ParkLoad(t) ==
    /\ pc[t] = "load"
    /\ Move(t, IF futex[t] = 0 THEN "wait" ELSE "sync")

(* mutant: sleeps whatever the word holds by then *)
FutexWaitUnchecked(t) == pc[t] = "wait" /\ Move(t, "asleep")

(* futexWait compares the word with 0 and goes to sleep in one step. *)
FutexWait(t) ==
    /\ pc[t] = "wait"
    /\ Move(t, IF futex[t] = 0 THEN "asleep" ELSE "load")

(* futexWait may return though nobody called futexWake. *)
SpuriousWake(t) == pc[t] = "asleep" /\ Move(t, "load")

(* futexWait returns error.Canceled. *)
FutexCanceled(t) == pc[t] \in {"wait", "asleep"} /\ Move(t, "cancel")

(* What send and receive return once park has: `if (w.done) {} else error.Closed`. *)
Outcome(t) == IF done[t] THEN "ok" ELSE "Closed"

(* mutant: forgets queue.remove *)
StillLinked(q, r, t) == r = q

(* r is q without waiter t *)
Unlinked(q, r, t) == \E i \in DOMAIN q : q[i] = t /\ r = RemoveAt(q, i)

(* Not yet claimed by a peer: unlink and report the cancellation. *)
CancelUnlink(t) ==
    /\ pc[t] = "cancel"
    /\ Acquire(t)
    /\ queued[t]
    /\ \/ op[t] = "send" /\ Unlinked(senders, senders', t) /\ UNCHANGED receivers
       \/ op[t] = "receive" /\ Unlinked(receivers, receivers', t) /\ UNCHANGED senders
    /\ queued' = [queued EXCEPT ![t] = FALSE]
    /\ pc' = [pc EXCEPT ![t] = "unlock"]
    /\ ret' = [ret EXCEPT ![t] = "Canceled"]
    /\ UNCHANGED <<ring, closed, op, data, futex, done, wakee>>

(* mutant: reports the cancellation although a peer completed the operation *)
CancelWins(t) ==
    /\ pc[t] = "cancel"
    /\ Acquire(t)
    /\ ~queued[t]
    /\ Finish(t, "Canceled")
    /\ UNCHANGED <<ring, closed, lists, data>>

(* A peer claimed the waiter first: the cancellation lost the race. *)
CancelLost(t) ==
    /\ pc[t] = "cancel"
    /\ Acquire(t)
    /\ ~queued[t]
    /\ Finish(t, Outcome(t))
    /\ UNCHANGED <<ring, closed, lists, data>>

(* mutant: returns without taking the mutex *)
ParkNoSync(t) ==
    /\ pc[t] = "sync"
    /\ pc' = [pc EXCEPT ![t] = "returned"]
    /\ ret' = [ret EXCEPT ![t] = Outcome(t)]
    /\ UNCHANGED <<ring, closed, mutex, lists, op, data, waiter, wakee>>

(* Woken: take the mutex once more, so that the waker has left the word. *)
ParkSync(t) ==
    /\ pc[t] = "sync"
    /\ Acquire(t)
    /\ Finish(t, Outcome(t))
    /\ UNCHANGED <<ring, closed, lists, data>>

Park(t) == ParkLoad(t) \/ FutexWait(t) \/ CancelUnlink(t) \/ CancelLost(t) \/ ParkSync(t)

-----------------------------------------------------------------------------

(* The calls a task may make. *)
Call(t) ==
    \/ \E v \in Items : InvokeSend(t, v)
    \/ InvokeReceive(t)
    \/ InvokeClose(t)

(* What the std.Io runtime may do to a task, and need not. *)
Runtime(t) == LockCanceled(t) \/ SpuriousWake(t) \/ FutexCanceled(t)

(* The steps of the channel's own code. *)
Step(t) ==
    \/ Send(t) \/ Receive(t) \/ Close(t)
    \/ WakeStore(t) \/ WakeFutex(t) \/ Unlock(t)
    \/ Park(t)
    \/ Return(t)

Next == \E t \in Tasks : Call(t) \/ Runtime(t) \/ Step(t)

Spec == Init /\ [][Next]_vars
-----------------------------------------------------------------------------
(* Properties                                                              *)

(* Task t has a waiter that has not been resolved: from the moment it is   *)
(* linked until park has decided its outcome.                              *)
Waiting(t) ==
    /\ ret[t] = "none"
    /\ pc[t] \in Parking \union {"unlock"}

(* Task u is inside wake(t). *)
Waking(u, t) == pc[u] \in {"store", "wake"} /\ wakee[u] = t

(***************************************************************************)
(* Nobody sleeps through its own wake-up: a waiter asleep in futexWait is  *)
(* either still linked, so that a later peer or close will find it, or     *)
(* the task that claimed it has yet to finish wake (lines 65-74).          *)
(***************************************************************************)
NoLostWakeup ==
    \A t \in Tasks :
        pc[t] = "asleep" /\ ~queued[t] => \E u \in Tasks : Waking(u, t)

(***************************************************************************)
(* The lifetime note (lines 21-25): while wake touches a futex word, the   *)
(* waiter that owns the word is still inside park, so its frame is alive,  *)
(* and no list refers to it any more.                                      *)
(***************************************************************************)
WakeOnLiveFrame ==
    \A u \in Tasks :
        pc[u] \in {"store", "wake"} =>
            /\ wakee[u] \in Tasks \ {u}
            /\ pc[wakee[u]] \in Parking
            /\ ~queued[wakee[u]]

(***************************************************************************)
(* The waiter lists hold exactly the live waiters whose queued flag is     *)
(* set, each once and in the list of its operation; so popFirst and        *)
(* queue.remove (lines 80, 104, 141, 155, 184, 190) never meet the node of *)
(* a frame that is gone.                                                   *)
(***************************************************************************)
ListsHoldLiveWaiters ==
    /\ IsInjective(senders) /\ IsInjective(receivers)
    /\ Range(senders) = {t \in Tasks : queued[t] /\ op[t] = "send"}
    /\ Range(receivers) = {t \in Tasks : queued[t] /\ op[t] = "receive"}
    /\ \A t \in Tasks : queued[t] => Waiting(t) /\ pc[t] # "sync"

(***************************************************************************)
(* No operation waits for what the channel already has: a receiver is      *)
(* blocked only on an empty channel without blocked senders, a sender only *)
(* on a full one, and a closed channel keeps no waiter once close has let  *)
(* go of the mutex.                                                        *)
(***************************************************************************)
NoStrandedWaiter ==
    /\ receivers # <<>> => count = 0 /\ senders = <<>>
    /\ senders # <<>> => count = Capacity
    /\ closed /\ mutex = NoTask => senders = <<>> /\ receivers = <<>>

(* The refinement mapping: the values held are read off the ring, and the  *)
(* outcome of a waiter is settled when a peer claims it, long before the   *)
(* waiter runs again.                                                      *)
Held == [i \in 1 .. count |-> buffer[(head + i - 1) % Capacity]]

Settled == [t \in Tasks |-> IF Waiting(t) /\ ~queued[t] THEN Outcome(t) ELSE ret[t]]

Abstract == INSTANCE Channel WITH queue <- Held, ret <- Settled

(***************************************************************************)
(* FutexChannel implements Channel: whatever the interleaving of send,     *)
(* receive, close, park and cancellation (lines 72-196), values are        *)
(* delivered once and in order, and no outcome contradicts what happened.  *)
(***************************************************************************)
ImplementsChannel == Abstract!Spec
-----------------------------------------------------------------------------
(* The inductive invariant behind the safety properties                    *)

(* The mutex is held by the task that is inside a critical section. *)
MutexHeld == \A t \in Tasks : mutex = t <=> pc[t] \in Holding

(* What is known of a task from where it is. *)
ControlState ==
    \A t \in Tasks :
        /\ pc[t] \in {"closing", "store", "wake"} => ret[t] = "ok"
        /\ pc[t] = "closing" => op[t] = "close"
        /\ pc[t] \in Parking \union {"idle", "lock"} => ret[t] = "none"
        /\ pc[t] = "unlock" /\ ret[t] = "none" => queued[t]
        /\ Waiting(t) => op[t] \in {"send", "receive"}
        /\ pc[t] = "sync" => futex[t] = 1
        /\ queued[t] => futex[t] = 0

(* Whoever is inside wake has a live target, and its word is 1 exactly     *)
(* after the store.                                                        *)
WakeInProgress ==
    \A u \in Tasks :
        pc[u] \in {"store", "wake"} =>
            /\ wakee[u] \in Tasks \ {u}
            /\ pc[wakee[u]] \in Parking
            /\ ~queued[wakee[u]]
            /\ futex[wakee[u]] = IF pc[u] = "wake" THEN 1 ELSE 0

(* A claimed waiter has its word set, or the holder of the mutex is about  *)
(* to set it; a sleeper whose word is set is about to be woken.            *)
ClaimedIsWoken ==
    \A t \in Tasks :
        /\ pc[t] \in Parking /\ ~queued[t] /\ futex[t] = 0 =>
               mutex \in Tasks /\ pc[mutex] = "store" /\ wakee[mutex] = t
        /\ pc[t] = "asleep" /\ futex[t] = 1 =>
               mutex \in Tasks /\ pc[mutex] = "wake" /\ wakee[mutex] = t

(* NoStrandedWaiter, with the waiters close has yet to reach. *)
WaitersJustified ==
    /\ receivers # <<>> => count = 0 /\ senders = <<>>
    /\ senders # <<>> => count = Capacity
    /\ closed /\ (senders # <<>> \/ receivers # <<>>) =>
           mutex \in Tasks /\ op[mutex] = "close" /\ pc[mutex] \in {"closing", "store", "wake"}

(***************************************************************************)
(* The conjunction that every step of send, receive, close, wake and park  *)
(* preserves (lines 65-196).                                               *)
(***************************************************************************)
IndInv ==
    /\ TypeOK
    /\ MutexHeld
    /\ ControlState
    /\ ListsHoldLiveWaiters
    /\ WakeInProgress
    /\ ClaimedIsWoken
    /\ WaitersJustified

(* The values from head on end where the next one goes. *)
RingInOrder == Capacity > 0 => tail = (head + count) % Capacity

(* A task outside a call executes nothing, a call that is over has an      *)
(* outcome, and close has set closed before it claims anyone.              *)
CallsSettled ==
    \A t \in Tasks :
        /\ pc[t] = "idle" => op[t] = "none"
        /\ op[t] = "close" /\ pc[t] \in {"closing", "store", "wake"} => closed
        /\ pc[t] = "returned" => ret[t] # "none"

(***************************************************************************)
(* What the refinement of Channel rests on: the ring indices agree with    *)
(* count through every wrap (lines 115-121, 136-152), and every call that  *)
(* returns has been given an outcome.                                      *)
(***************************************************************************)
RefinementInv == IndInv /\ RingInOrder /\ CallsSettled
=============================================================================
