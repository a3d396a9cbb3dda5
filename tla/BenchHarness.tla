---------------------------- MODULE BenchHarness ----------------------------
(***************************************************************************)
(* bench.py: run_matrix, tcp_run_matrix and http_run_matrix, one after the *)
(* other, and the server processes the last two start and stop.            *)
(*                                                                         *)
(* A matrix goes through rounds, engines and blocks.  A block is a group   *)
(* of scenarios that share one server (one group without a server for the  *)
(* programs of run_matrix).  Servers, load drivers and benchmarks run next *)
(* to the harness and fail on their own; the harness never looks at their  *)
(* exit status.  Ctrl-C may arrive at any time, also between Popen and the *)
(* try and in the finally clause.                                          *)
(*                                                                         *)
(* A server is identified by the round, engine and block it was started    *)
(* for, so that one the harness lost track of stays visible.               *)
(***************************************************************************)
EXTENDS Naturals, Sequences

CONSTANTS
    Rounds,        \* --rounds
    NumEngines,    \* rows of the longest table
    Scenarios,     \* the --mode of each scenario of each matrix, in order
    MayFail,       \* servers and drivers may fail
    MayHang        \* a driver or a benchmark may never end

Kinds == {"bench", "tcp", "http"}

(* No matrix is empty.  The cases of run_matrix and the scenarios of       *)
(* http_run_matrix are not grouped: they have one mode.                    *)
ASSUME HarnessAssumption ==
    /\ Rounds \in Nat /\ NumEngines \in Nat \ {0}
    /\ \A k \in Kinds : Scenarios[k] \in Seq(STRING) \ {<<>>}
    /\ \A k \in {"bench", "http"} : \A i, j \in 1 .. Len(Scenarios[k]) : Scenarios[k][i] = Scenarios[k][j]
    /\ MayFail \in BOOLEAN /\ MayHang \in BOOLEAN

VARIABLES
    runnables,    \* the matrices still to run, the current one first
    built,        \* the engines of the current matrix whose binary exists
    at,           \* the loop variables: round r, engine e, group g, scenario s
    phase,        \* what the harness is doing
    interrupted,  \* the phase in which Ctrl-C was pressed last, or "no"
    servers,      \* the state of each server process that is alive
    port,         \* the server that holds each port, or why nobody does
    against,      \* the server the driver is connected to
    sample,       \* {} or the last result kept: its cell and the server it was measured on
    tried         \* how often each cell of the current matrix has been run

vars == <<runnables, built, at, phase, interrupted, servers, port, against, sample, tried>>

Engines == 1 .. NumEngines

kind  == Head(runnables)
Modes == Scenarios[kind]

(* Stands where a server could be. *)
Nobody(why) == [kind |-> why, r |-> 0, e |-> 0, g |-> 0]
None == Nobody("none")
Free == Nobody("free")
Lingering == Nobody("lingering")

(* mutant: only the first scenario of a mode is kept *)
AddFirstOnly(modes, groups, sc) ==
    IF groups = <<>> \/ modes[groups[Len(groups)][1]] # modes[sc]
    THEN Append(groups, <<sc>>)
    ELSE groups

(* The body of the loop that fills by_mode: a scenario joins the last      *)
(* group if it has its mode.                                               *)
AddScenario(modes, groups, sc) ==
    IF groups = <<>> \/ modes[groups[Len(groups)][1]] # modes[sc]
    THEN Append(groups, <<sc>>)
    ELSE [groups EXCEPT ![Len(groups)] = Append(@, sc)]

(* by_mode after each scenario. *)
ByMode(modes) ==
    LET by_mode[n \in 0 .. Len(modes)] ==
            IF n = 0 THEN <<>> ELSE AddScenario(modes, by_mode[n - 1], n)
    IN  by_mode

(* Neighbours with the same mode share a server. *)
Groups == ByMode(Modes)[Len(Modes)]

Cells == Engines \X (1 .. Len(Modes))
Block == [kind |-> kind, r |-> at.r, e |-> at.e, g |-> at.g]
Cell  == <<at.e, Groups[at.g][at.s]>>

Blocks == [kind : Kinds, r : 1 .. Rounds, e : Engines, g : Nat]

Phases ==
    {"checking", "engine", "started", "settle", "drive", "running", "finally", "waiting",
     "pausing", "emit", "ended", "aborted", "hung"}

TypeOK ==
    /\ runnables \in {<<"bench", "tcp", "http">>, <<"tcp", "http">>, <<"http">>, <<"bench">>, <<"tcp">>}
    /\ built \subseteq Engines
    /\ at \in [r : 1 .. Rounds + 1, e : Engines, g : 1 .. Len(Groups), s : Nat]
    /\ at.s \in 1 .. Len(Groups[at.g])
    /\ phase \in Phases
    /\ interrupted \in Phases \union {"no"}
    /\ DOMAIN servers \subseteq Blocks
    /\ \A b \in DOMAIN servers : servers[b] \in {"starting", "listening", "terminated"}
    /\ port \in [{"tcp", "http"} -> Blocks \union {Free, Lingering}]
    /\ against \in Blocks \union {None}
    /\ \A x \in sample : x.cell \in Cells /\ x.server \in Blocks
    /\ tried \in [Cells -> 0 .. Rounds]

Origin == [r |-> 1, e |-> 1, g |-> 1, s |-> 1]

(* One matrix, or --bench all. *)
Init ==
    /\ runnables \in {<<"bench">>, <<"tcp">>, <<"http">>, <<"bench", "tcp", "http">>}
    /\ built \in SUBSET Engines
    /\ at = Origin
    /\ phase = "checking" /\ interrupted = "no"
    /\ servers = <<>>
    /\ port = [k \in {"tcp", "http"} |-> Free]
    /\ against = None /\ sample = {}
    /\ tried = [c \in Cells |-> 0]

-----------------------------------------------------------------------------
(* The loops                                                               *)

(* ensure_driver, or the look for wrk *)
Check ==
    /\ phase = "checking"
    /\ phase' = IF Rounds = 0 THEN "emit" ELSE "engine"
    /\ UNCHANGED <<runnables, built, at, interrupted, servers, port, against, sample, tried>>

CheckFails ==
    /\ phase = "checking" /\ kind # "bench" /\ MayFail
    /\ phase' = "aborted"
    /\ UNCHANGED <<runnables, built, at, interrupted, servers, port, against, sample, tried>>

(* The next engine, or the first one of the next round. *)
NextEngine ==
    IF at.e < NumEngines THEN [Origin EXCEPT !.r = at.r, !.e = at.e + 1]
                         ELSE [Origin EXCEPT !.r = at.r + 1]

Advance ==
    /\ at' = IF at.g < Len(Groups) THEN [at EXCEPT !.g = @ + 1, !.s = 1] ELSE NextEngine
    /\ phase' = IF at'.r > Rounds THEN "emit" ELSE "engine"

(* if not built[...]: continue *)
Skip ==
    /\ phase = "engine" /\ at.e \notin built
    /\ at' = NextEngine
    /\ phase' = IF at'.r > Rounds THEN "emit" ELSE "engine"
    /\ UNCHANGED <<runnables, built, interrupted, servers, port, against, sample, tried>>

(* The programs of run_matrix are run without a server. *)
Enter ==
    /\ phase = "engine" /\ at.e \in built /\ kind = "bench"
    /\ phase' = "drive"
    /\ UNCHANGED <<runnables, built, at, interrupted, servers, port, against, sample, tried>>

Popen ==
    /\ phase = "engine" /\ at.e \in built /\ kind # "bench"
    /\ servers' = [b \in DOMAIN servers \union {Block} |-> IF b = Block THEN "starting" ELSE servers[b]]
    /\ phase' = "started"
    /\ UNCHANGED <<runnables, built, at, interrupted, port, against, sample, tried>>

(* The server is running and the try is entered. *)
Try ==
    /\ phase = "started"
    /\ phase' = "settle"
    /\ UNCHANGED <<runnables, built, at, interrupted, servers, port, against, sample, tried>>

(* time.sleep(0.5), long enough for the bind or not *)
Settled ==
    /\ phase = "settle"
    /\ phase' = "drive"
    /\ UNCHANGED <<runnables, built, at, interrupted, servers, port, against, sample, tried>>

(* subprocess.run starts the driver, or the benchmark itself. *)
Drive ==
    /\ phase = "drive"
    /\ phase' = "running"
    /\ tried' = [tried EXCEPT ![Cell] = @ + 1]
    /\ against' = None
    /\ UNCHANGED <<runnables, built, at, interrupted, servers, port, sample>>

(* What follows the return of subprocess.run *)
AfterRun ==
    IF at.s < Len(Groups[at.g])
    THEN at' = [at EXCEPT !.s = @ + 1] /\ phase' = "drive"
    ELSE IF kind = "bench" THEN Advance
                           ELSE phase' = "finally" /\ UNCHANGED at

(* The driver has printed a result, for which it was connected; its server *)
(* may have died since.                                                    *)
Keep ==
    /\ phase = "running" /\ kind # "bench"
    /\ against # None
    /\ sample' = {[cell |-> Cell, r |-> at.r, server |-> against]}
    /\ AfterRun
    /\ UNCHANGED <<runnables, built, interrupted, servers, port, against, tried>>

(* Nothing to parse: the driver gave up, failed, or its server died. *)
Discard ==
    /\ phase = "running" /\ kind # "bench"
    /\ MayFail \/ against \notin DOMAIN servers
    /\ AfterRun
    /\ UNCHANGED <<runnables, built, interrupted, servers, port, against, sample, tried>>

(* run_one returns, with a duration or without. *)
RunOne ==
    /\ phase = "running" /\ kind = "bench"
    /\ AfterRun
    /\ UNCHANGED <<runnables, built, interrupted, servers, port, against, sample, tried>>

(* mutant: nothing is terminated *)
TerminateNobody ==
    /\ phase = "finally"
    /\ phase' = "waiting"
    /\ UNCHANGED <<runnables, built, at, interrupted, servers, port, against, sample, tried>>

(* proc.terminate(), without effect on a process that has ended *)
Terminate ==
    /\ phase = "finally"
    /\ servers' = [b \in DOMAIN servers |-> IF b = Block THEN "terminated" ELSE servers[b]]
    /\ phase' = "waiting"
    /\ UNCHANGED <<runnables, built, at, interrupted, port, against, sample, tried>>

(* mutant: does not wait *)
WaitNot ==
    /\ phase = "waiting"
    /\ phase' = "pausing"
    /\ UNCHANGED <<runnables, built, at, interrupted, servers, port, against, sample, tried>>

(* proc.wait() *)
Wait ==
    /\ phase = "waiting" /\ Block \notin DOMAIN servers
    /\ phase' = "pausing"
    /\ UNCHANGED <<runnables, built, at, interrupted, servers, port, against, sample, tried>>

(* time.sleep(0.3); then the loop goes on or the exception is raised again. *)
Pause ==
    /\ phase = "pausing"
    /\ IF interrupted # "no" THEN phase' = "aborted" /\ UNCHANGED at ELSE Advance
    /\ UNCHANGED <<runnables, built, interrupted, servers, port, against, sample, tried>>

(* The table is printed and the next matrix begins, with engines of its    *)
(* own.                                                                    *)
Emit ==
    /\ phase = "emit"
    /\ \/ /\ Len(runnables) = 1
          /\ phase' = "ended"
          /\ UNCHANGED <<runnables, built, at, tried>>
       \/ /\ Len(runnables) > 1
          /\ runnables' = Tail(runnables) /\ built' \in SUBSET Engines
          /\ at' = Origin /\ phase' = "checking"
          /\ tried' = [c \in Engines \X (1 .. Len(Scenarios[Head(Tail(runnables))])) |-> 0]
    /\ sample' = {}
    /\ UNCHANGED <<interrupted, servers, port, against>>

(* mutant: as if the code did not use finally *)
InterruptOut ==
    /\ phase \notin {"ended", "aborted"}
    /\ phase' = "aborted"
    /\ interrupted' = phase
    /\ UNCHANGED <<runnables, built, at, servers, port, against, sample, tried>>

(***************************************************************************)
(* KeyboardInterrupt, a second one included: inside the try it runs the    *)
(* finally clause, elsewhere it ends the harness.  subprocess.run kills    *)
(* its child.                                                              *)
(***************************************************************************)
Interrupt ==
    /\ phase \notin {"ended", "aborted"}
    /\ LET inTry == kind # "bench" /\ phase \in {"settle", "drive", "running", "hung"}
       IN  phase' = IF inTry THEN "finally" ELSE "aborted"
    /\ interrupted' = phase
    /\ UNCHANGED <<runnables, built, at, servers, port, against, sample, tried>>

-----------------------------------------------------------------------------
(* The processes                                                           *)

Without(b) == [x \in DOMAIN servers \ {b} |-> servers[x]]

Bind(b) ==
    /\ servers[b] = "starting" /\ port[b.kind] = Free
    /\ servers' = [servers EXCEPT ![b] = "listening"]
    /\ port' = [port EXCEPT ![b.kind] = b]
    /\ UNCHANGED <<runnables, built, at, phase, interrupted, against, sample, tried>>

(* The process ends: the port is taken, it was told to, or it fails.  A    *)
(* port that was in use stays unusable for a while.                        *)
ServerEnds(b) ==
    /\ \/ MayFail
       \/ servers[b] = "starting" /\ port[b.kind] # Free
       \/ servers[b] = "terminated"
    /\ servers' = Without(b)
    /\ port' = [port EXCEPT ![b.kind] = IF @ = b THEN Lingering ELSE @]
    /\ UNCHANGED <<runnables, built, at, phase, interrupted, against, sample, tried>>

PortFrees(k) ==
    /\ port[k] = Lingering
    /\ port' = [port EXCEPT ![k] = Free]
    /\ UNCHANGED <<runnables, built, at, phase, interrupted, servers, against, sample, tried>>

(* connectRetry reaches whoever listens. *)
DriverConnects ==
    /\ phase = "running" /\ kind # "bench" /\ against = None
    /\ port[kind] \in DOMAIN servers
    /\ against' = port[kind]
    /\ UNCHANGED <<runnables, built, at, phase, interrupted, servers, port, sample, tried>>

(* Neither call of subprocess.run has a timeout. *)
Hangs ==
    /\ MayHang /\ phase = "running"
    /\ phase' = "hung"
    /\ UNCHANGED <<runnables, built, at, interrupted, servers, port, against, sample, tried>>

-----------------------------------------------------------------------------

Harness ==
    \/ Check \/ Skip \/ Enter \/ Popen \/ Try \/ Settled \/ Drive
    \/ Keep \/ Discard \/ RunOne
    \/ Terminate \/ Wait \/ Pause \/ Emit

Server(b) == Bind(b) \/ ServerEnds(b)

Next ==
    \/ Harness \/ CheckFails \/ Interrupt
    \/ \E b \in DOMAIN servers : Server(b)
    \/ \E k \in {"tcp", "http"} : PortFrees(k)
    \/ DriverConnects \/ Hangs

(* The harness goes on and a process that has been terminated ends. *)
Spec ==
    /\ Init /\ [][Next]_vars
    /\ WF_vars(Harness)
    /\ WF_vars(\E b \in DOMAIN servers : servers[b] = "terminated" /\ ServerEnds(b))

-----------------------------------------------------------------------------
(* Properties                                                              *)

(***************************************************************************)
(* A throughput is entered in the row of the engine and the column of the  *)
(* scenario it was measured with (bench.py:385-387): the server the driver *)
(* talked to is the one started for this round, engine and mode, although  *)
(* all of them use the same port and nobody checks that the bind of a new  *)
(* server succeeded; and no other server is alive while a driver or a      *)
(* benchmark runs.                                                         *)
(***************************************************************************)
MeasuredAlone ==
    /\ phase \in {"started", "settle", "drive", "running"} => DOMAIN servers \subseteq {Block}
    /\ \A x \in sample :
          /\ x.server.kind = kind
          /\ x.server.r = x.r /\ x.server.e = x.cell[1]
          /\ Modes[x.cell[2]] = Modes[Groups[x.server.g][1]]

(***************************************************************************)
(* "Interleaved: every cell once per round" (bench.py:239): no cell is     *)
(* ahead of another by more than a run, engines that were not built are    *)
(* left out, and a table is printed only after all rounds.                 *)
(***************************************************************************)
Interleaved ==
    /\ TypeOK
    /\ \A c, d \in Cells : c[1] \in built /\ d[1] \in built => tried[c] <= tried[d] + 1
    /\ \A c \in Cells : c[1] \notin built => tried[c] = 0
    /\ phase \in {"emit", "ended"} => \A c \in Cells : c[1] \in built => tried[c] = Rounds

(***************************************************************************)
(* The harness leaves no server behind when it ends by itself.  When it is *)
(* interrupted or fails, the servers still alive have been told to end     *)
(* (the finally of bench.py:388-391), but for one: the server of the       *)
(* current block, if Ctrl-C arrived between its Popen and the try          *)
(* (bench.py:374-378) or in the finally clause before terminate            *)
(* (bench.py:388-389).  There the code leaves it running.                  *)
(***************************************************************************)
NoOrphan ==
    /\ phase = "ended" => servers = <<>>
    /\ phase = "aborted" =>
          \A b \in DOMAIN servers :
              \/ servers[b] = "terminated"
              \/ b = Block /\ interrupted \in {"started", "finally"}

(***************************************************************************)
(* The harness comes to an end, whatever the servers do, unless a driver   *)
(* or a benchmark never ends (there is no timeout, bench.py:226 and 381).  *)
(***************************************************************************)
Ends == <>(phase \in {"ended", "aborted", "hung"})
=============================================================================
