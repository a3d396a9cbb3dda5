--------------------------- MODULE ConditionBench ---------------------------
(***************************************************************************)
(* The condition_bench programs: two players take turns through one mutex  *)
(* and one condition variable.  The players are tasks or, with --threads,  *)
(* plain threads, whose lock and wait cannot be canceled.                  *)
(*                                                                         *)
(* The mutex and the condition are the runtime's: wait gives up the mutex  *)
(* and starts to wait in one step, may come back without a signal, and has *)
(* the mutex again when it returns, also when it returns error.Canceled;   *)
(* signal ends the wait of one player if there is one and is forgotten     *)
(* otherwise.                                                              *)
(*                                                                         *)
(* No name is one of MutexBench: LockBenchProofs extends both.             *)
(***************************************************************************)
EXTENDS Naturals

CONSTANTS
    Rounds,         \* rounds (100 000)
    SpawnMayFail    \* group.concurrent, group.spawn and std.Thread.spawn may fail

ASSUME ConditionBenchAssumption == Rounds \in Nat /\ SpawnMayFail \in BOOLEAN

VARIABLES
    plain,    \* --threads was given (condition_bench_native.zig only)
    run,      \* "spawning", "awaiting", "canceling", "ok", "failed" or
              \* "abandoned" (failed with player 0 still running)
    mutex,    \* the player that holds the mutex, or 2
    turn,
    at,       \* where each player is
    played    \* the turns it has taken

playVars == <<plain, run, mutex, turn, at, played>>

Players == {0, 1}
Nobody  == 2

PlayTypeOK ==
    /\ plain \in BOOLEAN
    /\ run \in {"spawning", "awaiting", "canceling", "ok", "failed", "abandoned"}
    /\ mutex \in Players \union {Nobody}
    /\ turn \in Players
    /\ at \in [Players -> {"unborn", "lock", "test", "enter", "waiting", "relock", "unlock", "signal", "done"}]
    /\ played \in [Players -> 0 .. Rounds]

PlayInit ==
    /\ plain \in BOOLEAN
    /\ run = "spawning"
    /\ mutex = Nobody
    /\ turn = 0
    /\ at = [p \in Players |-> "unborn"]
    /\ played = [p \in Players |-> 0]

Goto(p, l) == at' = [at EXCEPT ![p] = l]

-----------------------------------------------------------------------------
(* run                                                                     *)

StartPlayer(p) ==
    /\ run = "spawning"
    /\ at[p] = "unborn" /\ (p = 1 => at[0] # "unborn")
    /\ Goto(p, "lock")
    /\ run' = IF p = 1 THEN "awaiting" ELSE "spawning"
    /\ UNCHANGED <<plain, mutex, turn, played>>

(* `try group.concurrent` fails; `defer group.cancel` cancels player 0. *)
StartFails ==
    /\ SpawnMayFail /\ ~plain
    /\ run = "spawning"
    /\ run' = "canceling"
    /\ UNCHANGED <<plain, mutex, turn, at, played>>

(***************************************************************************)
(* `try std.Thread.spawn` fails.  Nothing joins or cancels player 0: main  *)
(* returns while it plays with what was main's s, or waits for a turn that *)
(* nobody will give it, until the process is gone.                         *)
(***************************************************************************)
ThreadStartFails ==
    /\ SpawnMayFail /\ plain
    /\ run = "spawning"
    /\ run' = "abandoned"
    /\ UNCHANGED <<plain, mutex, turn, at, played>>

RunEnds ==
    /\ \/ run = "awaiting" /\ (\A p \in Players : at[p] = "done") /\ run' = "ok"
       \/ run = "canceling" /\ (\A p \in Players : at[p] \in {"done", "unborn"}) /\ run' = "failed"
    /\ UNCHANGED <<plain, mutex, turn, at, played>>

-----------------------------------------------------------------------------
(* player                                                                  *)

PlayerLocks(p) ==
    /\ at[p] = "lock" /\ played[p] < Rounds
    /\ mutex = Nobody
    /\ mutex' = p
    /\ Goto(p, "test")
    /\ UNCHANGED <<plain, run, turn, played>>

(* mutant: waits only once, `if` for `while` *)
TakeTurnAnyway(p) ==
    /\ at[p] = "test"
    /\ turn' = 1 - p
    /\ played' = [played EXCEPT ![p] = @ + 1]
    /\ Goto(p, "unlock")
    /\ UNCHANGED <<plain, run, mutex>>

(* The loop `while (s.turn != me)` is over; s.turn = 1 - me. *)
TakeTurn(p) ==
    /\ at[p] = "test"
    /\ turn = p
    /\ turn' = 1 - p
    /\ played' = [played EXCEPT ![p] = @ + 1]
    /\ Goto(p, "unlock")
    /\ UNCHANGED <<plain, run, mutex>>

NotMyTurn(p) ==
    /\ at[p] = "test"
    /\ turn # p
    /\ Goto(p, "enter")
    /\ UNCHANGED <<plain, run, mutex, turn, played>>

(* s.cond.wait: the mutex is free while the player waits. *)
Wait(p) ==
    /\ at[p] = "enter"
    /\ mutex' = Nobody
    /\ Goto(p, "waiting")
    /\ UNCHANGED <<plain, run, turn, played>>

SpuriousWake(p) ==
    /\ at[p] = "waiting"
    /\ Goto(p, "relock")
    /\ UNCHANGED <<plain, run, mutex, turn, played>>

Relock(p) ==
    /\ at[p] = "relock"
    /\ mutex = Nobody
    /\ mutex' = p
    /\ Goto(p, "test")
    /\ UNCHANGED <<plain, run, turn, played>>

PlayerUnlocks(p) ==
    /\ at[p] = "unlock"
    /\ mutex' = Nobody
    /\ Goto(p, "signal")
    /\ UNCHANGED <<plain, run, turn, played>>

(* mutant: forgets the signal *)
SignalNobody(p) ==
    /\ at[p] = "signal"
    /\ Goto(p, "lock")
    /\ UNCHANGED <<plain, run, mutex, turn, played>>

(* s.cond.signal, after the unlock *)
Signal(p) ==
    /\ at[p] = "signal"
    /\ at' = [at EXCEPT ![p] = "lock", ![1 - p] = IF @ = "waiting" THEN "relock" ELSE @]
    /\ UNCHANGED <<plain, run, mutex, turn, played>>

PlayerEnds(p) ==
    /\ at[p] = "lock" /\ played[p] = Rounds
    /\ Goto(p, "done")
    /\ UNCHANGED <<plain, run, mutex, turn, played>>

PlayerLockCanceled(p) ==
    /\ run = "canceling"
    /\ at[p] = "lock" /\ played[p] < Rounds
    /\ Goto(p, "done")
    /\ UNCHANGED <<plain, run, mutex, turn, played>>

(* `try s.cond.wait` fails: the player returns and keeps the mutex. *)
WaitCanceled(p) ==
    /\ run = "canceling"
    /\ at[p] = "waiting"
    /\ mutex = Nobody
    /\ mutex' = p
    /\ Goto(p, "done")
    /\ UNCHANGED <<plain, run, turn, played>>

-----------------------------------------------------------------------------

Run == RunEnds \/ \E p \in Players : StartPlayer(p)

Player(p) ==
    \/ PlayerLocks(p) \/ TakeTurn(p) \/ NotMyTurn(p) \/ Wait(p) \/ Relock(p) \/ PlayerUnlocks(p) \/ Signal(p) \/ PlayerEnds(p)
    \/ PlayerLockCanceled(p) \/ WaitCanceled(p)

PlayNext == Run \/ StartFails \/ ThreadStartFails \/ \E p \in Players : Player(p) \/ SpuriousWake(p)

(* Who can run is run.  A player that wants the mutex gets it in the end   *)
(* although the other may wake spuriously and test its turn for ever, and  *)
(* a cancellation is delivered to a player that keeps waiting.             *)
PlaySpec ==
    /\ PlayInit /\ [][PlayNext]_playVars
    /\ WF_playVars(Run)
    /\ \A p \in Players :
          /\ WF_playVars(Player(p))
          /\ SF_playVars(PlayerLocks(p) \/ Relock(p))
          /\ SF_playVars(PlayerLockCanceled(p) \/ WaitCanceled(p))

-----------------------------------------------------------------------------
(* Properties                                                              *)

(***************************************************************************)
(* "two tasks alternate turns" (src/condition_bench.zig:5): the turns      *)
(* taken differ by at most one and turn says whose is next.                *)
(***************************************************************************)
Alternate == played[0] = played[1] + turn

(***************************************************************************)
(* The signal comes after the unlock (lines 22-23), so it may find nobody  *)
(* waiting.  Still nobody sleeps when it is its turn: a player that waits  *)
(* then has an opponent that is about to signal.                           *)
(***************************************************************************)
SignalIsComing ==
    \A p \in Players : at[p] = "waiting" /\ turn = p => at[1 - p] \in {"unlock", "signal"}

(***************************************************************************)
(* The inductive invariant: a player between lock and unlock owns the      *)
(* mutex, and what it has found out about the turn stays true until it     *)
(* waits (lines 19-22).                                                    *)
(***************************************************************************)
PlayInv ==
    /\ PlayTypeOK
    /\ \A p \in Players :
          /\ at[p] \in {"test", "enter", "unlock"} => mutex = p
          /\ at[p] = "enter" => turn # p
          /\ at[p] \in {"test", "enter", "waiting", "relock"} => played[p] < Rounds
    /\ Alternate
    /\ SignalIsComing

(***************************************************************************)
(* Both players finish all their rounds or, when the second cannot be      *)
(* started, the first is canceled and over (src/condition_bench.zig:27-35, *)
(* src/condition_bench_native.zig:60-64), spurious wake-ups or not.  The   *)
(* exception are plain threads (src/condition_bench_native.zig:52-55):     *)
(* there main fails and leaves player 0 behind.                            *)
(***************************************************************************)
PlayersFinish ==
    \/ <>(run \in {"ok", "failed"} /\ \A p \in Players : at[p] \in {"done", "unborn"})
    \/ plain /\ <>(run = "abandoned")
=============================================================================
