------------------------------ MODULE Channel ------------------------------
(***************************************************************************)
(* What a bounded channel promises its callers: every send, receive and    *)
(* close takes effect atomically at one moment between its call and its    *)
(* return, values leave in the order in which they entered, at most        *)
(* Capacity of them are held, a close turns every send that has not taken  *)
(* effect into error.Closed, lets the receivers drain what is held and     *)
(* only then answers error.Closed, and an operation reported as canceled   *)
(* has had no effect at all.                                               *)
(*                                                                         *)
(* FutexChannel (src/futex_channel.zig) is shown to implement this module. *)
(* A channel of capacity zero never holds a value: its sends and receives  *)
(* meet in Handoff.                                                        *)
(***************************************************************************)
EXTENDS Naturals, Sequences

CONSTANTS
    Tasks,      \* the tasks that share the channel
    Items,      \* the values they exchange
    Capacity,   \* the number of values the channel holds
    Undefined   \* the content of a receiver's result before a value arrives

VARIABLES
    queue,      \* the values held, oldest first
    closed,     \* close has taken effect
    op,         \* the operation a task has called: "none" when it has not
    data,       \* the value a task sends, or the result of its receive
    ret         \* the outcome of the call, "none" until it takes effect

vars == <<queue, closed, op, data, ret>>

Ops  == {"send", "receive", "close"}
Rets == {"ok", "Closed", "Canceled"}

TypeOK ==
    /\ queue \in Seq(Items) /\ Len(queue) <= Capacity
    /\ closed \in BOOLEAN
    /\ op \in [Tasks -> Ops \union {"none"}]
    /\ data \in [Tasks -> Items \union {Undefined}]
    /\ ret \in [Tasks -> Rets \union {"none"}]

Init ==
    /\ queue = <<>>
    /\ closed = FALSE
    /\ op = [t \in Tasks |-> "none"]
    /\ data = [t \in Tasks |-> Undefined]
    /\ ret = [t \in Tasks |-> "none"]

-----------------------------------------------------------------------------
(* A call is pending from its invocation until it takes effect.            *)

Pending(t, o) == op[t] = o /\ ret[t] = "none"

Call(t, o, v) ==
    /\ op[t] = "none"
    /\ o = "send" <=> v \in Items
    /\ op' = [op EXCEPT ![t] = o]
    /\ data' = [data EXCEPT ![t] = v]
    /\ UNCHANGED <<queue, closed, ret>>

(* The channel takes the value of a sender. *)
Accept(s) ==
    /\ Pending(s, "send")
    /\ ~closed
    /\ Len(queue) < Capacity
    /\ queue' = Append(queue, data[s])
    /\ ret' = [ret EXCEPT ![s] = "ok"]
    /\ UNCHANGED <<closed, op, data>>

(* A value passes from a sender to a receiver; nothing older is held. *)
Handoff(s, r) ==
    /\ Pending(s, "send") /\ Pending(r, "receive")
    /\ ~closed
    /\ queue = <<>>
    /\ data' = [data EXCEPT ![r] = data[s]]
    /\ ret' = [ret EXCEPT ![s] = "ok", ![r] = "ok"]
    /\ UNCHANGED <<queue, closed, op>>

(* A receiver takes the oldest value. *)
Take(r) ==
    /\ Pending(r, "receive")
    /\ queue # <<>>
    /\ queue' = Tail(queue)
    /\ data' = [data EXCEPT ![r] = Head(queue)]
    /\ ret' = [ret EXCEPT ![r] = "ok"]
    /\ UNCHANGED <<closed, op>>

(* A receiver takes the oldest value and a blocked sender fills the slot. *)
TakeAndAccept(r, s) ==
    /\ Pending(r, "receive") /\ Pending(s, "send")
    /\ ~closed
    /\ queue # <<>>
    /\ queue' = Append(Tail(queue), data[s])
    /\ data' = [data EXCEPT ![r] = Head(queue)]
    /\ ret' = [ret EXCEPT ![s] = "ok", ![r] = "ok"]
    /\ UNCHANGED <<closed, op>>

(* A closed channel refuses sends, and receives once it is drained. *)
Refuse(t) ==
    /\ closed
    /\ \/ Pending(t, "send")
       \/ Pending(t, "receive") /\ queue = <<>>
    /\ ret' = [ret EXCEPT ![t] = "Closed"]
    /\ UNCHANGED <<queue, closed, op, data>>

(* A pending send or receive is withdrawn without having had an effect. *)
Cancel(t) ==
    /\ Pending(t, "send") \/ Pending(t, "receive")
    /\ ret' = [ret EXCEPT ![t] = "Canceled"]
    /\ UNCHANGED <<queue, closed, op, data>>

Close(t) ==
    /\ Pending(t, "close")
    /\ closed' = TRUE
    /\ ret' = [ret EXCEPT ![t] = "ok"]
    /\ UNCHANGED <<queue, op, data>>

Return(t) ==
    /\ ret[t] # "none"
    /\ op' = [op EXCEPT ![t] = "none"]
    /\ data' = [data EXCEPT ![t] = Undefined]
    /\ ret' = [ret EXCEPT ![t] = "none"]
    /\ UNCHANGED <<queue, closed>>

Next ==
    \E t \in Tasks :
        \/ \E o \in Ops, v \in Items \union {Undefined} : Call(t, o, v)
        \/ Accept(t) \/ Take(t) \/ Refuse(t) \/ Cancel(t) \/ Close(t) \/ Return(t)
        \/ \E r \in Tasks : Handoff(t, r) \/ TakeAndAccept(r, t)

Spec == Init /\ [][Next]_vars
=============================================================================
