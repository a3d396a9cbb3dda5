------------------------- MODULE MCFutexChannelLive -------------------------
(***************************************************************************)
(* FutexChannel used by tasks that make MaxCalls calls between them.       *)
(*                                                                         *)
(* std.Io.Mutex lets a newcomer overtake a task that waits for it, so with *)
(* an endless stream of calls a task may be overtaken for ever and no      *)
(* operation need ever end.  With finitely many calls that excuse is gone: *)
(* the runtime only has to run every task that can run (weak fairness).    *)
(***************************************************************************)
EXTENDS FutexChannel

CONSTANT MaxCalls

VARIABLE calls    \* the calls that are left

liveVars == <<vars, calls>>

LiveInit == Init /\ calls = MaxCalls

LimitedCall(t) ==
    /\ calls > 0
    /\ calls' = calls - 1
    /\ Call(t)

LiveNext ==
    \E t \in Tasks :
        \/ LimitedCall(t)
        \/ (Runtime(t) \/ Step(t)) /\ UNCHANGED calls

LiveSpec ==
    /\ LiveInit
    /\ [][LiveNext]_liveVars
    /\ \A t \in Tasks : WF_liveVars(Step(t) /\ UNCHANGED calls)

(***************************************************************************)
(* Every call ends, or comes to stand in a waiter list with its futex word *)
(* at 0: no operation keeps the mutex, and a waiter that a peer has        *)
(* claimed does return (park, lines 72-93), canceled, woken spuriously or  *)
(* neither.                                                                *)
(***************************************************************************)
EveryCallSettles ==
    \A t \in Tasks : pc[t] # "idle" ~> pc[t] = "idle" \/ queued[t]

(***************************************************************************)
(* close (lines 179-196) leaves nobody behind: on a closed channel every   *)
(* blocked task, and every task that calls later, comes back.              *)
(***************************************************************************)
CloseReleasesEveryone == closed ~> \A t \in Tasks : pc[t] = "idle"
=============================================================================
