------------------------------ MODULE PingPong ------------------------------
(***************************************************************************)
(* The queue_ping_pong benchmarks: pairs of tasks A and B bounce a counter *)
(* over two channels of capacity one until it reaches the limit.           *)
(*                                                                         *)
(* The programs differ in how a pair ends (ending) and share the rest:     *)
(*   "close"    the task that reaches the limit closes its outgoing        *)
(*              channel: src/queue_ping_pong*.zig, Go, Asio;               *)
(*   "drop"     a returning task drops both its channel ends: tokio;       *)
(*   "release"  the task that reaches the limit sends one more message so  *)
(*              that its peer wakes up: PhotonLibOS.                       *)
(*                                                                         *)
(* The behaviours of all of them are behaviours of Spec: ending is chosen  *)
(* in the initial state and never changes.                                 *)
(*                                                                         *)
(* A channel is what Channel promises: a send waits for room, a receive    *)
(* for a value or the close, each takes effect at once.                    *)
(***************************************************************************)
EXTENDS Integers, Sequences

CONSTANTS
    Totals,          \* values of total, what all pairs bounce together (100 000)
    PairsOptions,    \* values given to --pairs
    MayFail          \* starting a pair, or a task of a pair, may fail

ASSUME PingPongAssumption ==
    /\ Totals \subseteq Nat
    /\ PairsOptions \subseteq Nat /\ PairsOptions # {}
    /\ MayFail \in BOOLEAN

VARIABLES
    total,     \* the messages all pairs bounce together
    pairs,     \* the value of --pairs
    ending,    \* the program: how a pair ends
    inline,    \* the backend: whether group.async may run the task inside the call
    main,      \* "spawning", "awaiting", "canceling", "ok" or "failed"
    stage,     \* how far each pair has come in starting and awaiting A and B
    pc,        \* where A and B of each pair are
    msg,       \* the counter a task is about to send
    chan,      \* the channel each task sends on: its content and whether it is closed
    received   \* the messages each pair has received, for the properties

setting == <<total, pairs, ending, inline>>
vars == <<setting, main, stage, pc, msg, chan, received>>

(* if (pairs == 0) pairs = 1; *)
NumPairs == IF pairs = 0 THEN 1 ELSE pairs

Pairs   == UNION {1 .. n : n \in PairsOptions \union {1}}
Players == {"A", "B"}
Peer(p) == IF p = "A" THEN "B" ELSE "A"

(* mutant: rounds up, as if the remainder were shared out *)
PerPairUp == IF total \div NumPairs < 1 THEN 1 ELSE (total + NumPairs - 1) \div NumPairs

(* @max(total / pairs, 1) *)
PerPair == IF total \div NumPairs < 1 THEN 1 ELSE total \div NumPairs

TypeOK ==
    /\ total \in Totals /\ pairs \in PairsOptions
    /\ ending \in {"close", "drop", "release"}
    /\ inline \in BOOLEAN
    /\ main \in {"spawning", "awaiting", "canceling", "ok", "failed"}
    /\ stage \in [Pairs -> {"unborn", "asyncA", "inlineA", "asyncB", "inlineB", "await",
                         "failing", "failed", "returned"}]
    /\ pc \in [Pairs -> [Players -> {"unborn", "send", "recv", "release", "done"}]]
    /\ msg \in [Pairs -> [Players -> 0 .. PerPair + 1]]
    /\ chan \in [Pairs -> [Players -> [buf : {<<>>} \union {<<v>> : v \in 0 .. PerPair + 1},
                                       closed : BOOLEAN]]]
    /\ received \in [Pairs -> 0 .. PerPair + 2]

(* Only std.Io, where a pair ends with a close, leaves the choice to group.async. *)
Init ==
    /\ total \in Totals /\ pairs \in PairsOptions
    /\ ending \in {"close", "drop", "release"}
    /\ inline \in BOOLEAN /\ (inline => ending = "close")
    /\ main = "spawning"
    /\ stage = [i \in Pairs |-> "unborn"]
    /\ pc = [i \in Pairs |-> [p \in Players |-> "unborn"]]
    /\ msg = [i \in Pairs |-> [p \in Players |-> 0]]
    /\ chan = [i \in Pairs |-> [p \in Players |-> [buf |-> <<>>, closed |-> FALSE]]]
    /\ received = [i \in Pairs |-> 0]

-----------------------------------------------------------------------------
(* main                                                                    *)

(* Pairs are started in order. *)
NextPair(i) ==
    /\ main = "spawning" /\ i \in 1 .. NumPairs
    /\ stage[i] = "unborn"
    /\ \A j \in 1 .. i - 1 : stage[j] # "unborn"

Concurrent(i) ==
    /\ NextPair(i)
    /\ stage' = [stage EXCEPT ![i] = "asyncA"]
    /\ main' = IF i = NumPairs THEN "awaiting" ELSE "spawning"
    /\ UNCHANGED <<setting, pc, msg, chan, received>>

(* `try group.concurrent` fails: `defer group.cancel` cancels the pairs that run. *)
ConcurrentFails(i) ==
    /\ MayFail /\ ending = "close"
    /\ NextPair(i)
    /\ main' = "canceling"
    /\ UNCHANGED <<setting, stage, pc, msg, chan, received>>

(***************************************************************************)
(* group.await, pool.join, done.wait(2 * pairs), or the wait inside        *)
(* group.cancel.  What group.wait makes of a pair that returned an error   *)
(* is zio's affair: main may report it or not.                             *)
(***************************************************************************)
MainEnds ==
    /\ main \in {"awaiting", "canceling"}
    /\ \A i \in Pairs : stage[i] \in {"unborn", "failed", "returned"}
    /\ \/ main = "awaiting" /\ main' = "ok"
       \/ main = "canceling" /\ main' = "failed"
       \/ main = "awaiting" /\ (\E i \in Pairs : stage[i] = "failed") /\ main' = "failed"
    /\ UNCHANGED <<setting, stage, pc, msg, chan, received>>

-----------------------------------------------------------------------------
(* pair                                                                    *)

AsyncStage(p)  == IF p = "A" THEN "asyncA" ELSE "asyncB"
InlineStage(p) == IF p = "A" THEN "inlineA" ELSE "inlineB"
AfterAsync(p)  == IF p = "A" THEN "asyncB" ELSE "await"

(* mutant: both tasks serve *)
AsyncBothServe(i, p) ==
    /\ stage[i] = AsyncStage(p)
    /\ \/ stage' = [stage EXCEPT ![i] = AfterAsync(p)]
       \/ inline /\ stage' = [stage EXCEPT ![i] = InlineStage(p)]
    /\ pc' = [pc EXCEPT ![i][p] = "send"]
    /\ UNCHANGED <<setting, main, msg, chan, received>>

(* group.async starts the task, or the backend runs it to its end first. *)
Async(i, p) ==
    /\ stage[i] = AsyncStage(p)
    /\ \/ stage' = [stage EXCEPT ![i] = AfterAsync(p)]
       \/ inline /\ stage' = [stage EXCEPT ![i] = InlineStage(p)]
    /\ pc' = [pc EXCEPT ![i][p] = IF p = "A" THEN "send" ELSE "recv"]
    /\ UNCHANGED <<setting, main, msg, chan, received>>

InlineEnds(i, p) ==
    /\ stage[i] = InlineStage(p)
    /\ pc[i][p] = "done"
    /\ stage' = [stage EXCEPT ![i] = AfterAsync(p)]
    /\ UNCHANGED <<setting, main, pc, msg, chan, received>>

(* `try group.spawn` of the zio program fails: `defer group.cancel` of pair. *)
SpawnFails(i, p) ==
    /\ MayFail /\ ending = "close" /\ ~inline
    /\ stage[i] = AsyncStage(p)
    /\ stage' = [stage EXCEPT ![i] = "failing"]
    /\ UNCHANGED <<setting, main, pc, msg, chan, received>>

(* group.await in pair, or its group.cancel *)
PairEnds(i) ==
    /\ \A p \in Players : pc[i][p] \in {"unborn", "done"}
    /\ \/ stage[i] = "await" /\ stage' = [stage EXCEPT ![i] = "returned"]
       \/ stage[i] = "failing" /\ stage' = [stage EXCEPT ![i] = "failed"]
    /\ UNCHANGED <<setting, main, pc, msg, chan, received>>

-----------------------------------------------------------------------------
(* taskA and taskB                                                         *)

Closing(c) == [c EXCEPT !.closed = TRUE]

Put(i, p) == chan' = [chan EXCEPT ![i][p].buf = <<msg[i][p]>>]

(* A send waits for room.  NoSendRefused below is why the `error.Closed`   *)
(* branch of the sends is left out.                                        *)
Send(i, p) ==
    /\ pc[i][p] = "send"
    /\ chan[i][p].buf = <<>>
    /\ Put(i, p)
    /\ pc' = [pc EXCEPT ![i][p] = "recv"]
    /\ UNCHANGED <<setting, main, stage, msg, received>>

(* mutant: closes, but does not leave the loop *)
EndByCloseGoesOn(i, p) ==
    /\ ending = "close"
    /\ chan' = [chan EXCEPT ![i][p] = Closing(@), ![i][Peer(p)].buf = <<>>]
    /\ pc' = [pc EXCEPT ![i][p] = "send"]
    /\ UNCHANGED msg

(* "close": the channel the task sends on. *)
EndByClose(i, p) ==
    /\ ending = "close"
    /\ chan' = [chan EXCEPT ![i][p] = Closing(@), ![i][Peer(p)].buf = <<>>]
    /\ pc' = [pc EXCEPT ![i][p] = "done"]
    /\ UNCHANGED msg

(* "drop": tx and rx go with the task. *)
EndByDrop(i, p) ==
    /\ ending = "drop"
    /\ chan' = [chan EXCEPT ![i][p] = Closing(@), ![i][Peer(p)] = [buf |-> <<>>, closed |-> TRUE]]
    /\ pc' = [pc EXCEPT ![i][p] = "done"]
    /\ UNCHANGED msg

(* mutant: returns without releasing the peer *)
EndByReturn(i, p, next) ==
    /\ ending = "release"
    /\ chan' = [chan EXCEPT ![i][Peer(p)].buf = <<>>]
    /\ pc' = [pc EXCEPT ![i][p] = "done"]
    /\ msg' = [msg EXCEPT ![i][p] = next]

(* "release": one more message. *)
EndByRelease(i, p, next) ==
    /\ ending = "release"
    /\ chan' = [chan EXCEPT ![i][Peer(p)].buf = <<>>]
    /\ pc' = [pc EXCEPT ![i][p] = "release"]
    /\ msg' = [msg EXCEPT ![i][p] = next]

Release(i, p) ==
    /\ pc[i][p] = "release"
    /\ chan[i][p].buf = <<>>
    /\ Put(i, p)
    /\ pc' = [pc EXCEPT ![i][p] = "done"]
    /\ UNCHANGED <<setting, main, stage, msg, received>>

Reached(next) == next >= PerPair

Receive(i, p) ==
    /\ pc[i][p] = "recv"
    /\ chan[i][Peer(p)].buf # <<>>
    /\ LET next == Head(chan[i][Peer(p)].buf) + 1
       IN  \/ Reached(next) /\ (EndByClose(i, p) \/ EndByDrop(i, p) \/ EndByRelease(i, p, next))
           \/ /\ ~Reached(next)
              /\ chan' = [chan EXCEPT ![i][Peer(p)].buf = <<>>]
              /\ msg' = [msg EXCEPT ![i][p] = next]
              /\ pc' = [pc EXCEPT ![i][p] = "send"]
    /\ received' = [received EXCEPT ![i] = @ + 1]
    /\ UNCHANGED <<setting, main, stage>>

(* error.Closed once the channel is drained *)
ReceiveClosed(i, p) ==
    /\ pc[i][p] = "recv"
    /\ chan[i][Peer(p)].buf = <<>>
    /\ chan[i][Peer(p)].closed
    /\ pc' = [pc EXCEPT ![i][p] = "done"]
    /\ chan' = [chan EXCEPT ![i][p].closed = @ \/ ending = "drop"]
    /\ UNCHANGED <<setting, main, stage, msg, received>>

(* error.Canceled at a send or a receive: the task returns and closes nothing. *)
Canceled(i, p) ==
    /\ main = "canceling" \/ stage[i] = "failing"
    /\ pc[i][p] \in {"send", "recv"}
    /\ pc' = [pc EXCEPT ![i][p] = "done"]
    /\ UNCHANGED <<setting, main, stage, msg, chan, received>>

-----------------------------------------------------------------------------

Main == MainEnds \/ \E i \in Pairs : Concurrent(i)

Pair(i) == PairEnds(i) \/ \E p \in Players : Async(i, p) \/ InlineEnds(i, p)

Task(i, p) ==
    \/ Send(i, p) \/ Receive(i, p) \/ ReceiveClosed(i, p)
    \/ Release(i, p)
    \/ Canceled(i, p)

Next ==
    \/ Main
    \/ \E i \in Pairs :
          \/ ConcurrentFails(i)
          \/ Pair(i)
          \/ \E p \in Players : Task(i, p) \/ SpawnFails(i, p)

(* Every task that can run is run; nobody has to make a spawn fail. *)
Spec ==
    /\ Init /\ [][Next]_vars
    /\ WF_vars(Main)
    /\ \A i \in Pairs : WF_vars(Pair(i)) /\ \A p \in Players : WF_vars(Task(i, p))

-----------------------------------------------------------------------------
(* Properties                                                              *)

(***************************************************************************)
(* A pair has a single counter: it is in one of the two channels or in the *)
(* hands of one of the two tasks, never in two places, so that no send of  *)
(* a pair ever waits for room and `received` counts round trips.           *)
(***************************************************************************)
Token(i) ==
    {p \in Players : chan[i][p].buf # <<>>} \X {"channel"}
        \union {p \in Players : pc[i][p] \in {"send", "release"}} \X {"task"}

OneMessageInFlight ==
    /\ TypeOK
    /\ \A i \in Pairs : \A x, y \in Token(i) : x = y

(***************************************************************************)
(* Nobody sends on a closed channel: in Go (go/queue_ping_pong/main.go:    *)
(* 15-22) that is a panic, elsewhere it would end the pair early.          *)
(***************************************************************************)
NoSendRefused ==
    \A i \in Pairs, p \in Players :
        pc[i][p] \in {"send", "release"} => ~chan[i][p].closed

(***************************************************************************)
(* "each pair bounces total/N" (src/queue_ping_pong.zig:5): when the       *)
(* program ends normally every pair has received exactly total / pairs     *)
(* messages, one at least; the release of cpp/queue_ping_pong_photon.cpp   *)
(* (lines 60 and 71) is one message more.  A pair that could not start     *)
(* both its tasks is excepted.                                             *)
(***************************************************************************)
BouncesItsShare ==
    main = "ok" =>
        \A i \in {j \in 1 .. NumPairs : stage[j] # "failed"} :
            LET bounced == received[i] - (IF ending = "release" THEN 1 ELSE 0)
            IN  /\ bounced >= 1
                /\ NumPairs * bounced <= total \/ bounced = 1
                /\ NumPairs * (bounced + 1) > total

(***************************************************************************)
(* "runs the two ping-pong tasks to completion" (src/queue_ping_pong.zig:  *)
(* 50): the program ends, whether or not all pairs could be started.       *)
(***************************************************************************)
Completes == <>(main \in {"ok", "failed"})

(***************************************************************************)
(* The same where both tasks of a pair run concurrently: std.Io backends   *)
(* whose group.async does so, zio, Go, tokio, Asio and PhotonLibOS.        *)
(***************************************************************************)
CompletesIfConcurrent == ~inline => Completes
=============================================================================
