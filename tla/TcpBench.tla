------------------------------ MODULE TcpBench ------------------------------
(***************************************************************************)
(* The tcp benchmark: driver/tcp_driver.go opens Conns connections to a    *)
(* tcp_server and runs the timed work on all of them together.             *)
(*                                                                         *)
(* The content of a message is never looked at, so a byte stream is the    *)
(* number of bytes in it.  A connection is the kernel's buffer towards the *)
(* server (up), what the handler has read and not yet written back (hold), *)
(* and the kernel's buffer towards the driver (down).  A read or a write   *)
(* moves as much as the kernel happens to, at least one byte.              *)
(*                                                                         *)
(* The servers in the different languages serve alike and fail in three    *)
(* ways.  When accept fails,                                               *)
(*   the Zig servers cancel their handlers and wait for them;              *)
(*   Go, tokio and PhotonLibOS return from main, which ends all of them;   *)
(*   in Asio the accept coroutine ends with an exception that nobody sees, *)
(*   and ctx.run serves the open connections to their end.                 *)
(***************************************************************************)
EXTENDS Integers, FiniteSetsExt

CONSTANTS
    Conns,         \* the connections of the driver
    Msgs, Size,    \* echo: messages per connection and their size
    Pipelines,     \* echo: values of --pipeline, the messages kept in flight
    Bulk,          \* send, recv: what one connection transfers, mb / conns
    SockBuf,       \* the kernel's buffer for one direction
    BufSize,       \* the buffer of a handler
    MaxAttempts,   \* how often connectRetry dials (200)
    MayFail        \* the server may fail to bind, to accept or to spawn

ASSUME TcpBenchAssumption ==
    /\ {Size, SockBuf, BufSize, MaxAttempts} \subseteq Nat \ {0}
    /\ Pipelines \subseteq Nat \ {0}
    /\ {Msgs, Bulk} \subseteq Nat
    /\ MayFail \in BOOLEAN

VARIABLES
    mode,      \* --mode of the driver, chosen in the initial state
    pipeline,  \* --pipeline, likewise
    server,    \* "starting", "listening", "canceling", "draining" or "down"
    handler,   \* the server's end of each connection
    up, hold, down,
    main,      \* the driver: "connecting", "timing", "reported" or "failed"
    pc,        \* where the goroutine of each connection is
    attempt,   \* how often it has dialed in vain
    out, in    \* the bytes it has written and read

conn   == <<handler, up, hold, down>>
client == <<pc, attempt, out, in>>
vars   == <<mode, pipeline, server, conn, main, client>>

(* What a connection has to write, and to read, in all. *)
ToWrite == CASE mode = "echo" -> Msgs * Size [] mode = "send" -> Bulk [] mode = "recv" -> 0
ToRead  == CASE mode = "echo" -> Msgs * Size [] mode = "send" -> 0 [] mode = "recv" -> Bulk

TypeOK ==
    /\ mode \in {"echo", "send", "recv"} /\ pipeline \in Pipelines
    /\ server \in {"starting", "listening", "canceling", "draining", "down"}
    /\ handler \in [Conns -> {"none", "backlog", "open", "leaked", "closed"}]
    /\ up \in [Conns -> 0 .. SockBuf] /\ down \in [Conns -> 0 .. SockBuf]
    /\ hold \in [Conns -> 0 .. BufSize]
    /\ main \in {"connecting", "timing", "reported", "failed"}
    /\ pc \in [Conns -> {"connect", "ready", "write", "read", "done", "error"}]
    /\ attempt \in [Conns -> 0 .. MaxAttempts]
    /\ out \in [Conns -> 0 .. ToWrite] /\ in \in [Conns -> 0 .. ToRead]

Init ==
    /\ mode \in {"echo", "send", "recv"} /\ pipeline \in Pipelines
    /\ server = "starting"
    /\ handler = [c \in Conns |-> "none"]
    /\ up = [c \in Conns |-> 0] /\ hold = [c \in Conns |-> 0] /\ down = [c \in Conns |-> 0]
    /\ main = "connecting"
    /\ pc = [c \in Conns |-> "connect"]
    /\ attempt = [c \in Conns |-> 0]
    /\ out = [c \in Conns |-> 0] /\ in = [c \in Conns |-> 0]

-----------------------------------------------------------------------------
(* The server: main                                                        *)

(* The arguments are understood and the socket listens. *)
Listen ==
    /\ server = "starting"
    /\ server' = "listening"
    /\ UNCHANGED <<mode, pipeline, conn, main, client>>

(* An unknown mode or argument, a runtime that does not come up, a port    *)
(* that is taken: the server exits before it listens.                      *)
BindFails ==
    /\ MayFail
    /\ server = "starting"
    /\ server' = "down"
    /\ UNCHANGED <<mode, pipeline, conn, main, client>>

(* accept, and a task for the connection *)
Accept(c) ==
    /\ server = "listening"
    /\ handler[c] = "backlog"
    /\ handler' = [handler EXCEPT ![c] = "open"]
    /\ UNCHANGED <<mode, pipeline, server, up, hold, down, main, client>>

(* The handler fails before it has read anything: set_option throws, or    *)
(* there is no memory for its buffer.  The stream is closed.               *)
AcceptInVain(c) ==
    /\ MayFail
    /\ server = "listening"
    /\ handler[c] = "backlog"
    /\ handler' = [handler EXCEPT ![c] = "closed"]
    /\ UNCHANGED <<mode, pipeline, server, up, hold, down, main, client>>

(* PhotonLibOS: thread_create returns a null pointer.  Nobody looks at it, *)
(* and nobody reads, writes or closes the stream any more.                 *)
StreamLeaked(c) ==
    /\ MayFail
    /\ server = "listening"
    /\ handler[c] = "backlog"
    /\ handler' = [handler EXCEPT ![c] = "leaked"]
    /\ UNCHANGED <<mode, pipeline, server, up, hold, down, main, client>>

Leaked == \E c \in Conns : handler[c] = "leaked"

(* Zig: accept fails, main returns, and `defer group.cancel` runs. *)
AcceptFails ==
    /\ MayFail /\ ~Leaked
    /\ server = "listening"
    /\ server' = "canceling"
    /\ UNCHANGED <<mode, pipeline, conn, main, client>>

(* The end of a process resets every connection it had. *)
AllReset == [c \in Conns |-> IF handler[c] = "none" THEN "none" ELSE "closed"]

(* Go, tokio, PhotonLibOS: accept fails and main returns. *)
AcceptExits ==
    /\ MayFail
    /\ server = "listening"
    /\ server' = "down"
    /\ handler' = AllReset
    /\ UNCHANGED <<mode, pipeline, up, hold, down, main, client>>

(* Asio: the exception of async_accept ends the detached coroutine. *)
AcceptThrows ==
    /\ MayFail /\ ~Leaked
    /\ server = "listening"
    /\ server' = "draining"
    /\ UNCHANGED <<mode, pipeline, conn, main, client>>

(* Zig: the connection is accepted, but no task can be had for it. *)
SpawnFails(c) ==
    /\ MayFail /\ ~Leaked
    /\ server = "listening"
    /\ handler[c] = "backlog"
    /\ handler' = [handler EXCEPT ![c] = "closed"]
    /\ server' = "canceling"
    /\ UNCHANGED <<mode, pipeline, up, hold, down, main, client>>

(* group.cancel: whatever the handler is doing fails, and it closes the stream. *)
HandlerCanceled(c) ==
    /\ server = "canceling"
    /\ handler[c] = "open"
    /\ handler' = [handler EXCEPT ![c] = "closed"]
    /\ UNCHANGED <<mode, pipeline, server, up, hold, down, main, client>>

(* srv.deinit after group.cancel, or the end of ctx.run: the handlers are  *)
(* gone, and who was not accepted is reset.                                *)
ServerExits ==
    /\ server \in {"canceling", "draining"}
    /\ \A c \in Conns : handler[c] # "open"
    /\ server' = "down"
    /\ handler' = AllReset
    /\ UNCHANGED <<mode, pipeline, up, hold, down, main, client>>

-----------------------------------------------------------------------------
(* The server: handler                                                     *)

(* The driver has closed its end. *)
Closed(c) == pc[c] \in {"done", "error"}

(* The server is in the mode that goes with the driver's: sink for send,   *)
(* source for recv.  echo: one read, when all of the last is written.      *)
EchoRead(c) ==
    /\ mode = "echo"
    /\ handler[c] = "open" /\ hold[c] = 0
    /\ \E k \in 1 .. Min({up[c], BufSize}) :
          /\ up' = [up EXCEPT ![c] = @ - k]
          /\ hold' = [hold EXCEPT ![c] = k]
    /\ UNCHANGED <<mode, pipeline, server, handler, down, main, client>>

(* mutant: forgets what the kernel did not take at once *)
EchoWriteOnce(c) ==
    /\ mode = "echo"
    /\ handler[c] = "open" /\ hold[c] > 0 /\ ~Closed(c)
    /\ \E k \in 1 .. Min({hold[c], SockBuf - down[c]}) :
          /\ hold' = [hold EXCEPT ![c] = 0]
          /\ down' = [down EXCEPT ![c] = @ + k]
    /\ UNCHANGED <<mode, pipeline, server, handler, up, main, client>>

(* writeAll *)
EchoWrite(c) ==
    /\ mode = "echo"
    /\ handler[c] = "open" /\ hold[c] > 0 /\ ~Closed(c)
    /\ \E k \in 1 .. Min({hold[c], SockBuf - down[c]}) :
          /\ hold' = [hold EXCEPT ![c] = @ - k]
          /\ down' = [down EXCEPT ![c] = @ + k]
    /\ UNCHANGED <<mode, pipeline, server, handler, up, main, client>>

SinkRead(c) ==
    /\ mode = "send"
    /\ handler[c] = "open"
    /\ \E k \in 1 .. Min({up[c], BufSize}) : up' = [up EXCEPT ![c] = @ - k]
    /\ UNCHANGED <<mode, pipeline, server, handler, hold, down, main, client>>

SourceWrite(c) ==
    /\ mode = "recv"
    /\ handler[c] = "open" /\ ~Closed(c)
    /\ \E k \in 1 .. SockBuf - down[c] : down' = [down EXCEPT ![c] = @ + k]
    /\ UNCHANGED <<mode, pipeline, server, handler, up, hold, main, client>>

(* mutant: the end of the stream is not noticed *)
HandlerNeverEnds(c) == FALSE /\ UNCHANGED vars

(* A read meets the end of the stream, or a write the closed connection. *)
HandlerEnds(c) ==
    /\ handler[c] = "open" /\ Closed(c)
    /\ mode = "recv" \/ hold[c] > 0 \/ up[c] = 0
    /\ handler' = [handler EXCEPT ![c] = "closed"]
    /\ UNCHANGED <<mode, pipeline, server, up, hold, down, main, client>>

-----------------------------------------------------------------------------
(* The driver: connectRetry                                                *)

Connect(c) ==
    /\ pc[c] = "connect"
    /\ server \in {"listening", "canceling", "draining"}
    /\ handler' = [handler EXCEPT ![c] = "backlog"]
    /\ pc' = [pc EXCEPT ![c] = "ready"]
    /\ UNCHANGED <<mode, pipeline, server, up, hold, down, main, attempt, out, in>>

(* The server is not there: dial again, or give up after the last attempt. *)
ConnectRefused(c) ==
    /\ pc[c] = "connect"
    /\ server \in {"starting", "down"}
    /\ attempt' = [attempt EXCEPT ![c] = @ + 1]
    /\ pc' = [pc EXCEPT ![c] = IF attempt[c] + 1 = MaxAttempts THEN "error" ELSE "connect"]
    /\ UNCHANGED <<mode, pipeline, server, conn, main, out, in>>

-----------------------------------------------------------------------------
(* The driver: work                                                        *)

Inflight == Min({pipeline, Msgs})

Start(c) ==
    /\ pc[c] = "ready"
    /\ main = "timing"
    /\ pc' = [pc EXCEPT ![c] =
                 IF ToWrite > 0 THEN "write" ELSE IF ToRead > 0 THEN "read" ELSE "done"]
    /\ UNCHANGED <<mode, pipeline, server, conn, main, attempt, out, in>>

(* Where a goroutine that has written o bytes goes on. *)
AfterWrite(o) ==
    IF mode = "echo"
    THEN IF o >= Inflight * Size /\ o % Size = 0 THEN "read" ELSE "write"
    ELSE IF o = ToWrite THEN "done" ELSE "write"

(* The end of the c.Write that is under way: a message, or a chunk of Size *)
(* bytes of which the last may be shorter.                                 *)
WriteEnd(c) ==
    LET end == (out[c] \div Size + 1) * Size
    IN  IF mode = "echo" THEN end ELSE Min({end, ToWrite})

Write(c) ==
    /\ pc[c] = "write"
    /\ \E k \in 1 .. Min({WriteEnd(c) - out[c], SockBuf - up[c]}) :
          /\ up' = [up EXCEPT ![c] = @ + k]
          /\ out' = [out EXCEPT ![c] = @ + k]
          /\ pc' = [pc EXCEPT ![c] = AfterWrite(out[c] + k)]
    /\ UNCHANGED <<mode, pipeline, server, handler, hold, down, main, attempt, in>>

(* mutant: sends the next messages when all in flight have come back *)
AfterReadBatch(c, i) ==
    IF mode = "echo" /\ i = out[c] /\ out[c] < ToWrite
    THEN "write"
    ELSE IF i = ToRead THEN "done" ELSE "read"

(* Where a goroutine that has read i bytes goes on: in echo mode another   *)
(* message follows each that came back, while there are any.               *)
AfterRead(c, i) ==
    IF mode = "echo" /\ i % Size = 0 /\ out[c] < ToWrite
    THEN "write"
    ELSE IF i = ToRead THEN "done" ELSE "read"

(* The end of the io.ReadFull that is under way, or of a c.Read, which may *)
(* stop short and is followed by one of up to Size bytes again.            *)
ReadEnd(c) == IF mode = "echo" THEN (in[c] \div Size + 1) * Size ELSE Min({in[c] + Size, ToRead})

Read(c) ==
    /\ pc[c] = "read"
    /\ \E k \in 1 .. Min({ReadEnd(c) - in[c], down[c]}) :
          /\ down' = [down EXCEPT ![c] = @ - k]
          /\ in' = [in EXCEPT ![c] = @ + k]
          /\ pc' = [pc EXCEPT ![c] = AfterRead(c, in[c] + k)]
    /\ UNCHANGED <<mode, pipeline, server, handler, up, hold, main, attempt, out>>

(* mutant: `if err != nil { break }` of recv, without the check of left *)
ShortIsDone(c) ==
    /\ pc[c] \in {"write", "read"}
    /\ handler[c] = "closed"
    /\ pc' = [pc EXCEPT ![c] = "done"]
    /\ UNCHANGED <<mode, pipeline, server, conn, main, attempt, out, in>>

(* The server has closed the connection: whatever still arrives, the read  *)
(* or write that is under way may fail at any time.                        *)
WorkFails(c) ==
    /\ pc[c] \in {"write", "read"}
    /\ handler[c] = "closed"
    /\ pc' = [pc EXCEPT ![c] = "error"]
    /\ UNCHANGED <<mode, pipeline, server, conn, main, attempt, out, in>>

-----------------------------------------------------------------------------
(* The driver: main                                                        *)

(* mutant: one connection is enough to start *)
SomeConnected == \E c \in Conns : pc[c] # "connect"

(* mutant: a goroutine that gives up does not call connected.Done *)
NoneRefused == \A c \in Conns : pc[c] \notin {"connect", "error"}

(* connected.Wait: connectRetry has succeeded or failed everywhere. *)
AllConnected == \A c \in Conns : pc[c] # "connect"

CloseStart ==
    /\ main = "connecting"
    /\ AllConnected
    /\ main' = "timing"
    /\ UNCHANGED <<mode, pipeline, server, conn, client>>

(* done.Wait, and the exit status *)
Report ==
    /\ main = "timing"
    /\ \A c \in Conns : Closed(c)
    /\ main' = IF \E c \in Conns : pc[c] = "error" THEN "failed" ELSE "reported"
    /\ UNCHANGED <<mode, pipeline, server, conn, client>>

-----------------------------------------------------------------------------

Server == Listen \/ ServerExits \/ \E c \in Conns : Accept(c) \/ HandlerCanceled(c)

Handler(c) == EchoRead(c) \/ EchoWrite(c) \/ SinkRead(c) \/ SourceWrite(c) \/ HandlerEnds(c)

Client(c) ==
    \/ Connect(c) \/ ConnectRefused(c)
    \/ Start(c) \/ Write(c) \/ Read(c) \/ WorkFails(c)

Failure ==
    \/ BindFails \/ AcceptFails \/ AcceptExits \/ AcceptThrows
    \/ \E c \in Conns : SpawnFails(c) \/ AcceptInVain(c) \/ StreamLeaked(c)

Main == CloseStart \/ Report

Next == Server \/ Failure \/ Main \/ \E c \in Conns : Handler(c) \/ Client(c)

(* Both processes keep running what can run; nothing has to fail. *)
Spec ==
    /\ Init /\ [][Next]_vars
    /\ WF_vars(Server) /\ WF_vars(Main)
    /\ \A c \in Conns : WF_vars(Handler(c)) /\ WF_vars(Client(c))

-----------------------------------------------------------------------------
(* Properties                                                              *)

(***************************************************************************)
(* "connect everyone first, then start the timed work together"            *)
(* (driver/tcp_driver.go:39): while somebody is still connecting nobody    *)
(* has sent or received anything, and who could not connect is out.        *)
(***************************************************************************)
StartTogether ==
    (\E c \in Conns : pc[c] = "connect") =>
        \A c \in Conns : out[c] = 0 /\ in[c] = 0 /\ pc[c] \in {"connect", "ready", "error"}

(***************************************************************************)
(* echo: "write back whatever arrives" (src/tcp_server.zig:8).  Nothing    *)
(* is lost and nothing made up on the way: every byte the driver has       *)
(* written is in one of the three buffers (those of a connection that was  *)
(* cut off stay as they were) or has come back.                            *)
(***************************************************************************)
BytesConserved ==
    /\ TypeOK
    /\ mode = "echo" =>
          \A c \in Conns : out[c] = up[c] + hold[c] + down[c] + in[c]

(***************************************************************************)
(* "--pipeline P keeps P messages in flight" (driver/tcp_driver.go:8):     *)
(* whenever a goroutine waits for an answer, exactly P messages are        *)
(* unanswered, or all that remain when those are fewer.                    *)
(***************************************************************************)
PipelineKept ==
    mode = "echo" =>
        \A c \in Conns :
            pc[c] = "read" =>
                LET got == in[c] \div Size
                IN  out[c] = (got + Min({pipeline, Msgs - got})) * Size

(***************************************************************************)
(* A throughput is printed only for work that was done (lines 69-89):      *)
(* every connection has read all it had to and handed all it had to write  *)
(* to its kernel.  (In send mode the last of it may still be on its way.)  *)
(***************************************************************************)
ReportMeansDone ==
    main = "reported" => \A c \in Conns : out[c] = ToWrite /\ in[c] = ToRead

(* The messages in flight fit into the two socket buffers and the least    *)
(* that a handler can have read.                                           *)
Fits == Inflight * Size <= 2 * SockBuf + 1

(* Each side is in the middle of a write that the other would have to      *)
(* read: the driver fills its pipeline and the handler writes its answer   *)
(* without reading meanwhile (driver/tcp_driver.go:112-116,                *)
(* src/tcp_server.zig:32-38).                                              *)
BothWrite(c) ==
    /\ mode = "echo"
    /\ pc[c] = "write" /\ up[c] = SockBuf
    /\ handler[c] = "open" /\ hold[c] > 0 /\ down[c] = SockBuf

WritersBlocked == \E c \in Conns : ~Fits /\ BothWrite(c)

(***************************************************************************)
(* The driver ends (bench.py:381 waits for it without a timeout), whether  *)
(* the server works, fails in one of its three ways or never starts.  Two  *)
(* things can keep it waiting for ever: a connection for which             *)
(* cpp/tcp_server_photon.cpp:88 could not create a thread, and, when what  *)
(* is in flight does not fit into the buffers, two writers that wait for   *)
(* each other.                                                             *)
(***************************************************************************)
DriverEnds == <>(main \in {"reported", "failed"} \/ Leaked \/ WritersBlocked)

(***************************************************************************)
(* No handler outlives its connection (src/tcp_server.zig:21-55): in the   *)
(* end all of them have returned, or were never started, with the same two *)
(* exceptions.                                                             *)
(***************************************************************************)
HandlersEnd ==
    \/ <>[](\A c \in Conns : handler[c] \in {"none", "closed"})
    \/ <>(Leaked \/ WritersBlocked)
=============================================================================
