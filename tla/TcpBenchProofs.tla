--------------------------- MODULE TcpBenchProofs ---------------------------
(***************************************************************************)
(* The tcp benchmark for every number of connections, messages, message    *)
(* and buffer sizes: the timed work starts together, no byte is lost, the  *)
(* pipeline is kept full, and a throughput is reported for work that was   *)
(* done.                                                                   *)
(***************************************************************************)
EXTENDS TcpBench, TLAPS

(* n messages *)
Bytes(n) == n * Size

(* Nobody works before everybody has connected or given up. *)
Started ==
    /\ main = "connecting" => \A c \in Conns : pc[c] \in {"connect", "ready", "error"}
    /\ main # "connecting" => \A c \in Conns : pc[c] # "connect"
    /\ \A c \in Conns : main = "connecting" \/ pc[c] = "ready" => out[c] = 0 /\ in[c] = 0
    /\ \A c \in Conns : pc[c] = "connect" => attempt[c] < MaxAttempts
    /\ main = "reported" => \A c \in Conns : pc[c] = "done"

(* echo with P messages in flight, after i bytes read and o written: the   *)
(* first of them are being written, or one for the g-th message that came  *)
(* back, or message g + 1 is awaited with all written that may be.         *)
Filling(P, i, o) == i = 0 /\ o < Bytes(Min({P, Msgs}))

Refilling(P, i, o, g) ==
    /\ i = Bytes(g) /\ g + P <= Msgs
    /\ Bytes(g - 1 + P) <= o /\ o < Bytes(g + P)

Waiting(P, i, o, g) ==
    /\ Bytes(g) <= i /\ i < Bytes(g + 1)
    /\ o = Bytes(g + Min({P, Msgs - g}))

Writing(P, i, o) == Filling(P, i, o) \/ \E g \in 1 .. Msgs : Refilling(P, i, o, g)
Reading(P, i, o) == \E g \in 0 .. Msgs - 1 : Waiting(P, i, o, g)

Works(c) ==
    /\ pc[c] = "write" => out[c] < ToWrite
    /\ pc[c] = "read" => in[c] < ToRead
    /\ pc[c] = "done" => out[c] = ToWrite /\ in[c] = ToRead
    /\ mode = "echo" /\ pc[c] = "write" => Writing(pipeline, in[c], out[c])
    /\ mode = "echo" /\ pc[c] = "read" => Reading(pipeline, in[c], out[c])
    /\ mode # "echo" /\ pc[c] = "write" => in[c] = ToRead
    /\ mode # "echo" /\ pc[c] = "read" => out[c] = ToWrite

(* The conjunction that every step of server and driver preserves. *)
IndInv == BytesConserved /\ Started /\ \A c \in Conns : Works(c)

-----------------------------------------------------------------------------
(* Messages and bytes                                                      *)

LEMMA MinTwo ==
    ASSUME NEW a \in Int, NEW b \in Int
    PROVE  Min({a, b}) = IF a <= b THEN a ELSE b
<1> DEFINE m == IF a <= b THEN a ELSE b
<1>1. m \in {a, b} /\ \A n \in {a, b} : m <= n
    OBVIOUS
<1>2. \A x \in {a, b} : (\A n \in {a, b} : x <= n) => x = m
    OBVIOUS
<1> QED
    BY <1>1, <1>2 DEF Min

LEMMA BytesFacts ==
    /\ \A a \in Nat : Bytes(a) \in Nat /\ Bytes(a + 1) = Bytes(a) + Size
    /\ \A a, b \in Nat : a < b => Bytes(a) + Size <= Bytes(b)
    /\ \A a, b \in Nat : a <= b => Bytes(a) <= Bytes(b)
    /\ Bytes(0) = 0 /\ Size \in Nat \ {0}
<1>1. Size \in Nat \ {0}
    BY TcpBenchAssumption
<1>2. \A a \in Nat : Bytes(a) \in Nat
    BY <1>1, Z3 DEF Bytes
<1>3. \A a \in Nat : Bytes(a + 1) = Bytes(a) + Size
    BY <1>1, Z3 DEF Bytes
<1>4. ASSUME NEW a \in Nat, NEW b \in Nat, a <= b PROVE Bytes(a) <= Bytes(b)
    BY <1>1, <1>4, Z3 DEF Bytes
<1>5. ASSUME NEW a \in Nat, NEW b \in Nat, a < b PROVE Bytes(a) + Size <= Bytes(b)
  <2>1. Bytes(a + 1) <= Bytes(b)
      BY <1>4, <1>5
  <2> QED
      BY <1>3, <2>1
<1>6. Bytes(0) = 0
    BY <1>1 DEF Bytes
<1> QED
    BY <1>1, <1>2, <1>3, <1>4, <1>5, <1>6

(* The quotient and the remainder of a number of bytes. *)
LEMMA WholeMessages ==
    ASSUME NEW x \in Nat, NEW a \in Nat, Bytes(a) <= x, x < Bytes(a + 1)
    PROVE  /\ x \div Size = a /\ (x \div Size + 1) * Size = Bytes(a + 1)
           /\ x % Size = 0 <=> x = Bytes(a)
<1> DEFINE q == x \div Size
           r == x % Size
<1>1. Size \in Nat \ {0}
    BY BytesFacts
<1>2. q \in Nat /\ r \in Nat /\ r < Size /\ x = Size * q + r
    BY <1>1, Z3
<1> HIDE DEF q, r
<1>3. Size * a <= x /\ x < Size * a + Size
    BY <1>1, BytesFacts, Z3 DEF Bytes
<1>4. Size * q < Size * (a + 1) /\ Size * a < Size * (q + 1)
    BY <1>1, <1>2, <1>3, Z3
<1>5. q < a + 1 /\ a < q + 1
    BY <1>1, <1>2, <1>4, Z3
<1>6. q = a
    BY <1>2, <1>5
<1>7. r = 0 <=> x = Bytes(a)
  <2>1. x = Bytes(a) + r
      BY <1>1, <1>2, <1>6, Z3 DEF Bytes
  <2>2. Bytes(a) \in Nat
      BY BytesFacts
  <2> HIDE DEF r
  <2> QED
      BY <1>2, <2>1, <2>2
<1> QED
    BY <1>6, <1>7 DEF q, r, Bytes

(* Every number of bytes lies within a message. *)
LEMMA SomeMessage ==
    ASSUME NEW x \in Nat
    PROVE  \E a \in Nat : Bytes(a) <= x /\ x < Bytes(a + 1)
<1> DEFINE q == x \div Size
           r == x % Size
<1>1. Size \in Nat \ {0}
    BY BytesFacts
<1>2. q \in Nat /\ r \in Nat /\ r < Size /\ x = Size * q + r
    BY <1>1, Z3
<1> HIDE DEF q, r
<1>3. Bytes(q) = Size * q /\ Bytes(q + 1) = Size * q + Size
    BY <1>1, <1>2, Z3 DEF Bytes
<1>4. Size * q \in Nat
    BY <1>1, <1>2, Z3
<1> QED
    BY <1>1, <1>2, <1>3, <1>4

LEMMA Sizes ==
    /\ Msgs \in Nat /\ Bulk \in Nat /\ SockBuf \in Nat /\ BufSize \in Nat /\ MaxAttempts \in Nat \ {0}
BY TcpBenchAssumption

LEMMA Window ==
    ASSUME pipeline \in Pipelines
    PROVE  /\ pipeline \in Nat \ {0}
           /\ Inflight = (IF pipeline <= Msgs THEN pipeline ELSE Msgs)
<1>1. pipeline \in Nat \ {0} /\ Msgs \in Nat
    BY TcpBenchAssumption
<1>2. Inflight = (IF pipeline <= Msgs THEN pipeline ELSE Msgs)
    BY <1>1, MinTwo DEF Inflight
<1> QED
    BY <1>1, <1>2

LEMMA Amounts ==
    ASSUME mode \in {"echo", "send", "recv"}
    PROVE  /\ ToWrite \in Nat /\ ToRead \in Nat
           /\ mode = "echo" => ToWrite = Bytes(Msgs) /\ ToRead = Bytes(Msgs)
           /\ mode = "send" => ToWrite = Bulk /\ ToRead = 0
           /\ mode = "recv" => ToWrite = 0 /\ ToRead = Bulk
<1>1. Bytes(Msgs) \in Nat
    BY Sizes, BytesFacts
<1>2. mode = "echo" => ToWrite = Bytes(Msgs) /\ ToRead = Bytes(Msgs)
    BY DEF ToWrite, ToRead, Bytes
<1>3. mode = "send" => ToWrite = Bulk /\ ToRead = 0
    BY DEF ToWrite, ToRead
<1>4. mode = "recv" => ToWrite = 0 /\ ToRead = Bulk
    BY DEF ToWrite, ToRead
<1> QED
    BY <1>1, <1>2, <1>3, <1>4, Sizes

(* A write that stays within its message keeps to the plan. *)
LEMMA WritePlan ==
    ASSUME NEW P \in Nat \ {0}, NEW i \in Nat, NEW x \in Nat, NEW o \in Nat, x < o, o <= (x \div Size + 1) * Size, Writing(P, i, x)
    PROVE  /\ o <= Bytes(Msgs)
           /\ o >= Bytes(Min({P, Msgs})) /\ o % Size = 0 => i < Bytes(Msgs) /\ Reading(P, i, o)
           /\ ~(o >= Bytes(Min({P, Msgs})) /\ o % Size = 0) => o < Bytes(Msgs) /\ Writing(P, i, o)
<1> DEFINE F == Min({P, Msgs})
<1>0. F \in Nat /\ F <= Msgs /\ F <= P /\ Msgs \in Nat /\ P \in Nat \ {0} /\ Size \in Nat \ {0}
      /\ F = (IF P <= Msgs THEN P ELSE Msgs)
  <2>1. Msgs \in Nat /\ Size \in Nat \ {0}
      BY Sizes, BytesFacts
  <2>2. F = (IF P <= Msgs THEN P ELSE Msgs)
      BY <2>1, MinTwo
  <2> QED
      BY <2>1, <2>2
<1> HIDE DEF F
<1>1. /\ \A n \in Nat : Bytes(n) \in Nat
      /\ \A n, m \in Nat : n <= m => Bytes(n) <= Bytes(m)
    BY BytesFacts
<1>5. ASSUME NEW n \in Nat PROVE Bytes(n) \in Nat /\ Bytes(n + 1) = Bytes(n) + Size
    BY BytesFacts
<1>2. CASE Filling(P, i, x)
  <2>1. i = 0 /\ x < Bytes(F)
      BY <1>2 DEF Filling, F
  <2>2. PICK a \in Nat : Bytes(a) <= x /\ x < Bytes(a + 1)
      BY SomeMessage
  <2>3. o <= Bytes(a + 1)
      BY <2>2, WholeMessages
  <2>4. a + 1 <= F
    <3>1. F <= a => Bytes(F) <= Bytes(a)
        BY <1>0, <1>1
    <3>2. Bytes(F) \in Nat /\ Bytes(a) \in Nat
        BY <1>0, <1>1
    <3> QED
        BY <1>0, <2>1, <2>2, <3>1, <3>2
  <2>5. o <= Bytes(F) /\ Bytes(F) <= Bytes(Msgs) /\ Bytes(F) \in Nat /\ Bytes(Msgs) \in Nat
    <3>1. Bytes(a + 1) <= Bytes(F) /\ Bytes(a + 1) \in Nat /\ Bytes(F) \in Nat /\ Bytes(Msgs) \in Nat /\ Bytes(F) <= Bytes(Msgs)
        BY <1>0, <1>1, <2>4
    <3> QED
        BY <2>3, <3>1
  <2>6. CASE o = Bytes(F)
    <3>1. o % Size = 0
      <4>1. Bytes(F) <= o /\ o < Bytes(F + 1)
          BY <1>0, <1>5, <2>6
      <4> QED
          BY <1>0, <2>6, <4>1, WholeMessages
    <3>2. i < Bytes(Msgs)
        BY <2>1, <2>5
    <3>3. Waiting(P, i, o, 0)
      <4>1. Min({P, Msgs - 0}) = F
          BY <1>0, MinTwo
      <4>2. Bytes(0) = 0 /\ Bytes(0 + 1) = Bytes(0) + Size /\ 0 + F = F
          BY <1>0, BytesFacts
      <4>3. i \in Nat /\ Bytes(0) <= i /\ i < Bytes(0 + 1)
          BY <1>0, <2>1, <4>2
      <4> QED
          BY <2>6, <4>1, <4>2, <4>3 DEF Waiting
    <3>4. 0 \in 0 .. Msgs - 1
        BY <1>0, <2>4
    <3> QED
        BY <2>5, <2>6, <3>1, <3>2, <3>3, <3>4 DEF Reading, F
  <2>7. CASE o < Bytes(F)
    <3>1. Filling(P, i, o) /\ ~(o >= Bytes(F)) /\ o < Bytes(Msgs)
        BY <2>1, <2>5, <2>7 DEF Filling, F
    <3> QED
        BY <2>5, <3>1 DEF Writing, F
  <2> QED
      BY <2>5, <2>6, <2>7
<1>3. CASE \E g \in 1 .. Msgs : Refilling(P, i, x, g)
  <2>1. PICK g \in 1 .. Msgs : Refilling(P, i, x, g)
      BY <1>3
  <2> DEFINE a == g - 1 + P
  <2>2. /\ a \in Nat /\ a + 1 = g + P /\ a + 1 <= Msgs /\ F <= a /\ g < Msgs /\ g \in Nat
        /\ i = Bytes(g) /\ Bytes(a) <= x /\ x < Bytes(a + 1)
    <3>1. a \in Nat /\ a + 1 = g + P /\ F <= a /\ g \in Nat
        BY <1>0
    <3> QED
        BY <1>0, <2>1, <3>1 DEF Refilling
  <2> HIDE DEF a
  <2>3. o <= Bytes(a + 1)
      BY <2>2, WholeMessages
  <2>4. /\ Bytes(a) \in Nat /\ Bytes(a + 1) \in Nat /\ Bytes(a + 1) <= Bytes(Msgs) /\ Bytes(Msgs) \in Nat
        /\ Bytes(F) \in Nat /\ Bytes(F) <= Bytes(a)
      BY <1>0, <1>1, <2>2
  <2>5. o > Bytes(a) /\ o >= Bytes(F) /\ o <= Bytes(Msgs)
      BY <2>2, <2>3, <2>4
  <2>6. CASE o = Bytes(a + 1)
    <3>1. o % Size = 0
      <4>1. a + 1 \in Nat /\ Bytes(a + 1) <= o /\ o < Bytes((a + 1) + 1)
          BY <1>0, <1>5, <2>2, <2>6
      <4> QED
          BY <2>6, <4>1, WholeMessages
    <3>2. Bytes(g) \in Nat /\ Bytes(g + 1) = Bytes(g) + Size /\ Bytes(g + 1) <= Bytes(Msgs)
      <4>1. g + 1 \in Nat /\ g + 1 <= Msgs
          BY <1>0, <2>2
      <4> QED
          BY <1>0, <1>1, <1>5, <2>2, <4>1
    <3>3. i < Bytes(Msgs)
        BY <1>0, <2>2, <2>4, <3>2
    <3>4. Waiting(P, i, o, g)
      <4>1. Min({P, Msgs - g}) = P
          BY <1>0, <2>2, MinTwo
      <4> QED
          BY <1>0, <2>2, <2>6, <3>2, <4>1 DEF Waiting
    <3>5. g \in 0 .. Msgs - 1
        BY <1>0, <2>2
    <3> QED
        BY <2>5, <3>1, <3>3, <3>4, <3>5 DEF Reading, F
  <2>7. CASE o < Bytes(a + 1)
    <3>1. o % Size # 0
        BY <2>2, <2>4, <2>5, <2>7, WholeMessages
    <3>2. o < Bytes(Msgs)
        BY <2>4, <2>7
    <3>3. Refilling(P, i, o, g)
        BY <2>1, <2>2, <2>4, <2>5, <2>7 DEF Refilling, a
    <3> QED
        BY <2>5, <3>1, <3>2, <3>3 DEF Writing
  <2> QED
      BY <2>3, <2>4, <2>6, <2>7
<1> QED
    BY <1>2, <1>3 DEF Writing

(* A read that stays within its message keeps to the plan. *)
LEMMA ReadPlan ==
    ASSUME NEW P \in Nat \ {0}, NEW x \in Nat, NEW i \in Nat, NEW j \in Nat, i < j, j <= (i \div Size + 1) * Size, Reading(P, i, x)
    PROVE  /\ j <= Bytes(Msgs)
           /\ j % Size = 0 /\ x < Bytes(Msgs) => Writing(P, j, x)
           /\ ~(j % Size = 0 /\ x < Bytes(Msgs)) =>
                  IF j = Bytes(Msgs) THEN x = Bytes(Msgs) ELSE j < Bytes(Msgs) /\ Reading(P, j, x)
<1>0. Msgs \in Nat /\ P \in Nat \ {0} /\ Size \in Nat \ {0}
    BY Sizes, BytesFacts
<1>1. /\ \A n \in Nat : Bytes(n) \in Nat
      /\ \A n, m \in Nat : n <= m => Bytes(n) <= Bytes(m)
    BY BytesFacts
<1>11. ASSUME NEW n \in Nat PROVE Bytes(n) \in Nat /\ Bytes(n + 1) = Bytes(n) + Size
    BY BytesFacts
<1>2. PICK g \in 0 .. Msgs - 1 : Waiting(P, i, x, g)
    BY DEF Reading
<1> DEFINE w == g + Min({P, Msgs - g})
<1>3. Min({P, Msgs - g}) = (IF P <= Msgs - g THEN P ELSE Msgs - g)
    BY <1>0, MinTwo
<1>4. g \in Nat /\ g + 1 <= Msgs /\ w \in Nat /\ w <= Msgs /\ w = (IF P <= Msgs - g THEN g + P ELSE Msgs)
    BY <1>0, <1>3
<1>5. Bytes(g) <= i /\ i < Bytes(g + 1) /\ x = Bytes(w)
    BY <1>2 DEF Waiting
<1> HIDE DEF w
<1>6. /\ Bytes(g) \in Nat /\ Bytes(g + 1) \in Nat /\ Bytes(g + 1) <= Bytes(Msgs) /\ Bytes(Msgs) \in Nat
      /\ Bytes(w) \in Nat /\ Bytes(w) <= Bytes(Msgs)
    BY <1>0, <1>1, <1>4
<1>7. j <= Bytes(g + 1)
    BY <1>4, <1>5, WholeMessages
<1>8. j <= Bytes(Msgs)
    BY <1>6, <1>7
<1>9. CASE j < Bytes(g + 1)
  <2>1. Bytes(g) < j /\ j < Bytes(Msgs)
      BY <1>5, <1>6, <1>9
  <2>2. j % Size # 0
      BY <1>4, <1>6, <1>9, <2>1, WholeMessages
  <2>3. Waiting(P, j, x, g)
      BY <1>2, <1>6, <1>9, <2>1 DEF Waiting
  <2> QED
      BY <1>8, <1>6, <2>1, <2>2, <2>3 DEF Reading
<1>10. CASE j = Bytes(g + 1)
  <2> DEFINE h == g + 1
  <2>0. h \in Nat /\ h \in 1 .. Msgs /\ h - 1 = g
      BY <1>0, <1>4
  <2>1. j % Size = 0
    <3>1. Bytes(h) <= j /\ j < Bytes(h + 1)
        BY <1>0, <1>11, <1>10, <2>0
    <3> QED
        BY <1>10, <2>0, <3>1, WholeMessages
  <2>2. CASE x < Bytes(Msgs)
    <3>1. w < Msgs
        BY <1>0, <1>4, <1>5, <1>6, <2>2
    <3>2. w = g + P /\ w = h - 1 + P /\ h + P = w + 1 /\ h + P <= Msgs
        BY <1>0, <1>4, <3>1
    <3>3. Bytes(w) < Bytes(w + 1)
        BY <1>0, <1>11, <1>4
    <3>4. Refilling(P, j, x, h)
        BY <1>0, <1>5, <1>6, <1>10, <3>2, <3>3 DEF Refilling
    <3> QED
        BY <1>8, <2>0, <2>1, <2>2, <3>4 DEF Writing
  <2>3. CASE ~(x < Bytes(Msgs))
    <3>1. x = Bytes(Msgs)
        BY <1>5, <1>6, <2>3
    <3>2. CASE j # Bytes(Msgs)
      <4>1. j < Bytes(Msgs) /\ h # Msgs /\ h \in 0 .. Msgs - 1
          BY <1>0, <1>6, <1>8, <1>10, <2>0, <3>2
      <4>2. w = Msgs
        <5>1. w < Msgs => Bytes(w) + Size <= Bytes(Msgs)
            BY <1>0, <1>4, BytesFacts
        <5> QED
            BY <1>0, <1>4, <1>5, <1>6, <3>1, <5>1
      <4>3. Min({P, Msgs - h}) = Msgs - h
        <5>1. P >= Msgs - g /\ Msgs - h < P
            BY <1>0, <1>4, <4>2
        <5> QED
            BY <1>0, <2>0, <5>1, MinTwo
      <4>4. Bytes(h) <= j /\ j < Bytes(h + 1)
          BY <1>0, <1>11, <1>10, <2>0
      <4>5. h + (Msgs - h) = Msgs
          BY <1>0, <2>0
      <4>6. Waiting(P, j, x, h)
          BY <3>1, <4>3, <4>4, <4>5 DEF Waiting
      <4> QED
          BY <1>8, <2>3, <4>1, <4>6 DEF Reading
    <3> QED
        BY <1>8, <2>3, <3>1, <3>2
  <2> QED
      BY <2>2, <2>3
<1> QED
    BY <1>6, <1>7, <1>9, <1>10

-----------------------------------------------------------------------------
(* The server                                                              *)

LEMMA SameWork ==
    ASSUME UNCHANGED <<mode, pipeline, main, client>>, Started, \A c \in Conns : Works(c)
    PROVE  Started' /\ (\A c \in Conns : Works(c))'
<1>1. ToWrite' = ToWrite /\ ToRead' = ToRead
    BY DEF ToWrite, ToRead
<1>2. Started'
    BY DEF client, Started
<1>3. ASSUME NEW c \in Conns PROVE Works(c)'
    BY <1>1 DEF client, Works
<1> QED
    BY <1>2, <1>3

ServerStep ==
    \/ Listen \/ BindFails \/ AcceptFails \/ AcceptThrows \/ AcceptExits \/ ServerExits
    \/ \E c \in Conns : \/ Accept(c) \/ AcceptInVain(c) \/ StreamLeaked(c) \/ SpawnFails(c)
                         \/ HandlerCanceled(c) \/ HandlerEnds(c)

LEMMA ServerMoves ==
    ASSUME IndInv, ServerStep
    PROVE  IndInv'
<1>1. UNCHANGED <<mode, pipeline, main, client, up, hold, down>>
    BY DEF ServerStep, Listen, BindFails, AcceptFails, AcceptThrows, AcceptExits, ServerExits, Accept, AcceptInVain,
           StreamLeaked, SpawnFails, HandlerCanceled, HandlerEnds, conn
<1>2. /\ server' \in {"starting", "listening", "canceling", "draining", "down"}
      /\ handler' \in [Conns -> {"none", "backlog", "open", "leaked", "closed"}]
  <2>1. TypeOK
      BY DEF IndInv, BytesConserved
  <2>2. CASE handler' = handler
      BY <2>1, <2>2 DEF TypeOK, ServerStep, Listen, BindFails, AcceptFails, AcceptThrows, AcceptExits, ServerExits,
                        Accept, AcceptInVain, StreamLeaked, SpawnFails, HandlerCanceled, HandlerEnds
  <2>3. CASE handler' = AllReset /\ server' = "down"
      BY <2>1, <2>3 DEF TypeOK, AllReset
  <2>4. CASE \E c \in Conns, h \in {"open", "leaked", "closed"} :
                handler' = [handler EXCEPT ![c] = h] /\ server' \in {server, "canceling"}
      BY <2>1, <2>4 DEF TypeOK
  <2> QED
      BY <2>2, <2>3, <2>4 DEF ServerStep, Listen, BindFails, AcceptFails, AcceptThrows, AcceptExits, ServerExits,
                        Accept, AcceptInVain, StreamLeaked, SpawnFails, HandlerCanceled, HandlerEnds, conn
<1>3. ToWrite' = ToWrite /\ ToRead' = ToRead
    BY <1>1 DEF ToWrite, ToRead
<1>4. BytesConserved'
    BY <1>1, <1>2, <1>3 DEF IndInv, BytesConserved, TypeOK, client
<1> QED
    BY <1>1, <1>4, SameWork DEF IndInv

(* A handler moves bytes from one buffer to the next. *)
LEMMA HandlerMoves ==
    ASSUME IndInv, NEW c \in Conns, EchoRead(c) \/ EchoWrite(c) \/ SinkRead(c) \/ SourceWrite(c)
    PROVE  IndInv'
<1>1. TypeOK /\ UNCHANGED <<mode, pipeline, main, client, server, handler>>
    BY DEF IndInv, BytesConserved, EchoRead, EchoWrite, SinkRead, SourceWrite
<1>2. /\ SockBuf \in Nat /\ BufSize \in Nat
      /\ up[c] \in 0 .. SockBuf /\ hold[c] \in 0 .. BufSize /\ down[c] \in 0 .. SockBuf
      /\ out[c] \in Nat /\ in[c] \in Nat
    BY <1>1, Amounts, Sizes DEF TypeOK
<1>3. PICK u \in 0 .. SockBuf, h \in 0 .. BufSize, d \in 0 .. SockBuf :
          /\ up' = [up EXCEPT ![c] = u] /\ hold' = [hold EXCEPT ![c] = h] /\ down' = [down EXCEPT ![c] = d]
          /\ mode = "echo" => u + h + d = up[c] + hold[c] + down[c]
  <2>1. up = [up EXCEPT ![c] = up[c]] /\ hold = [hold EXCEPT ![c] = hold[c]] /\ down = [down EXCEPT ![c] = down[c]]
      BY <1>1 DEF TypeOK
  <2>2. CASE EchoRead(c)
    <3>1. PICK k \in 1 .. Min({up[c], BufSize}) :
              up' = [up EXCEPT ![c] = @ - k] /\ hold' = [hold EXCEPT ![c] = k] /\ down' = down /\ hold[c] = 0
        BY <2>2 DEF EchoRead
    <3>4. Min({up[c], BufSize}) = IF up[c] <= BufSize THEN up[c] ELSE BufSize
        BY <1>2, MinTwo
    <3>2. k \in Nat /\ k <= up[c] /\ k <= BufSize
        BY <1>2, <3>1, <3>4
    <3>3. up[c] - k \in 0 .. SockBuf /\ k \in 0 .. BufSize /\ (up[c] - k) + k + down[c] = up[c] + hold[c] + down[c]
        BY <1>2, <3>1, <3>2
    <3> QED
        BY <1>2, <2>1, <3>1, <3>3
  <2>3. CASE EchoWrite(c)
    <3>1. PICK k \in 1 .. Min({hold[c], SockBuf - down[c]}) :
              hold' = [hold EXCEPT ![c] = @ - k] /\ down' = [down EXCEPT ![c] = @ + k] /\ up' = up
        BY <2>3 DEF EchoWrite
    <3>2. k \in Nat /\ k <= hold[c] /\ k <= SockBuf - down[c]
      <4>1. hold[c] \in Int /\ SockBuf - down[c] \in Int
          BY <1>2
      <4>2. Min({hold[c], SockBuf - down[c]}) = IF hold[c] <= SockBuf - down[c] THEN hold[c] ELSE SockBuf - down[c]
          BY <4>1, MinTwo
      <4> QED
          BY <4>1, <4>2
    <3>3. /\ hold[c] - k \in 0 .. BufSize /\ down[c] + k \in 0 .. SockBuf
          /\ up[c] + (hold[c] - k) + (down[c] + k) = up[c] + hold[c] + down[c]
        BY <1>2, <3>1, <3>2
    <3> QED
        BY <1>2, <2>1, <3>1, <3>3
  <2>4. CASE SinkRead(c)
    <3>1. PICK k \in 1 .. Min({up[c], BufSize}) :
              up' = [up EXCEPT ![c] = @ - k] /\ hold' = hold /\ down' = down /\ mode # "echo"
        BY <2>4 DEF SinkRead
    <3>4. Min({up[c], BufSize}) = IF up[c] <= BufSize THEN up[c] ELSE BufSize
        BY <1>2, MinTwo
    <3>2. k \in Nat /\ k <= up[c]
        BY <1>2, <3>1, <3>4
    <3>3. up[c] - k \in 0 .. SockBuf
        BY <1>2, <3>2
    <3> QED
        BY <1>2, <2>1, <3>1, <3>3
  <2>5. CASE SourceWrite(c)
    <3>1. PICK k \in 1 .. SockBuf - down[c] :
              down' = [down EXCEPT ![c] = @ + k] /\ hold' = hold /\ up' = up /\ mode # "echo"
        BY <2>5 DEF SourceWrite
    <3>2. down[c] + k \in 0 .. SockBuf
        BY <1>2
    <3> QED
        BY <1>2, <2>1, <3>1, <3>2
  <2> QED
      BY <2>2, <2>3, <2>4, <2>5
<1>4. ToWrite' = ToWrite /\ ToRead' = ToRead
    BY <1>1 DEF ToWrite, ToRead
<1>5. TypeOK'
    BY <1>1, <1>3, <1>4 DEF TypeOK, client
<1>6. ASSUME mode = "echo", NEW b \in Conns PROVE out[b] = up'[b] + hold'[b] + down'[b] + in[b]
  <2>1. out[b] = up[b] + hold[b] + down[b] + in[b]
      BY <1>6 DEF IndInv, BytesConserved
  <2>2. CASE b # c
      BY <1>1, <1>3, <2>1, <2>2 DEF TypeOK
  <2>3. CASE b = c
    <3>1. up'[b] = u /\ hold'[b] = h /\ down'[b] = d
        BY <1>1, <1>3, <2>3 DEF TypeOK
    <3> QED
        BY <1>2, <1>3, <1>6, <2>1, <2>3, <3>1
  <2> QED
      BY <2>2, <2>3
<1>7. BytesConserved'
    BY <1>1, <1>5, <1>6 DEF BytesConserved, client
<1> QED
    BY <1>1, <1>7, SameWork DEF IndInv

-----------------------------------------------------------------------------
(* The driver                                                              *)

(* A connection that a step does not touch. *)
LEMMA OtherWork ==
    ASSUME NEW b \in Conns, Works(b), mode' = mode, pipeline' = pipeline, pc'[b] = pc[b], out'[b] = out[b], in'[b] = in[b]
    PROVE  Works(b)'
<1>1. ToWrite' = ToWrite /\ ToRead' = ToRead
    BY DEF ToWrite, ToRead
<1> QED
    BY <1>1 DEF Works

LEMMA DriverTypes ==
    ASSUME IndInv, NEW c \in Conns
    PROVE  /\ TypeOK /\ ToWrite \in Nat /\ ToRead \in Nat /\ Works(c) /\ Started
           /\ out[c] \in 0 .. ToWrite /\ in[c] \in 0 .. ToRead /\ out[c] \in Nat /\ in[c] \in Nat
           /\ up[c] \in 0 .. SockBuf /\ down[c] \in 0 .. SockBuf /\ hold[c] \in 0 .. BufSize
           /\ mode \in {"echo", "send", "recv"}
<1>1. TypeOK /\ mode \in {"echo", "send", "recv"} /\ Works(c) /\ Started
    BY DEF IndInv, BytesConserved, TypeOK
<1>2. ToWrite \in Nat /\ ToRead \in Nat
    BY <1>1, Amounts
<1> QED
    BY <1>1, <1>2 DEF TypeOK

(* Steps of a goroutine that transfer nothing. *)
LEMMA ClientMoves ==
    ASSUME IndInv, NEW c \in Conns, Connect(c) \/ ConnectRefused(c) \/ Start(c) \/ WorkFails(c)
    PROVE  IndInv'
<1>1. /\ TypeOK /\ ToWrite \in Nat /\ ToRead \in Nat /\ Works(c) /\ Started
      /\ UNCHANGED <<mode, pipeline, server, up, hold, down, main, out, in>>
    BY DriverTypes DEF Connect, ConnectRefused, Start, WorkFails, conn
<1>2. ToWrite' = ToWrite /\ ToRead' = ToRead
    BY <1>1 DEF ToWrite, ToRead
<1>3. PICK s \in {"connect", "ready", "write", "read", "done", "error"} :
          /\ pc' = [pc EXCEPT ![c] = s]
          /\ s = "connect" => pc[c] = "connect" /\ attempt' = [attempt EXCEPT ![c] = @ + 1] /\ attempt[c] + 1 # MaxAttempts
          /\ s = "ready" => pc[c] = "connect"
          /\ s \in {"write", "read", "done"} => /\ pc[c] = "ready" /\ main = "timing"
                                               /\ s = IF ToWrite > 0 THEN "write" ELSE IF ToRead > 0 THEN "read" ELSE "done"
          /\ pc[c] # "done"
  <2>1. CASE Connect(c)
      BY <2>1 DEF Connect
  <2>2. CASE ConnectRefused(c)
      BY <2>2 DEF ConnectRefused
  <2>3. CASE Start(c)
      BY <2>3 DEF Start
  <2>4. CASE WorkFails(c)
      BY <2>4 DEF WorkFails
  <2> QED
      BY <2>1, <2>2, <2>3, <2>4
<1>4. pc'[c] = s /\ \A b \in Conns \ {c} : pc'[b] = pc[b]
    BY <1>1, <1>3 DEF TypeOK
<1>5. /\ attempt' \in [Conns -> 0 .. MaxAttempts]
      /\ \A b \in Conns \ {c} : attempt'[b] = attempt[b]
      /\ s = "connect" => attempt'[c] < MaxAttempts
  <2>1. MaxAttempts \in Nat /\ attempt \in [Conns -> 0 .. MaxAttempts]
      BY <1>1, Sizes DEF TypeOK
  <2>2. CASE ConnectRefused(c)
    <3>1. attempt' = [attempt EXCEPT ![c] = @ + 1] /\ attempt[c] < MaxAttempts
        BY <1>1, <2>2 DEF ConnectRefused, Started
    <3> QED
        BY <1>3, <2>1, <3>1
  <2>3. CASE ~ConnectRefused(c)
    <3>1. attempt' = attempt /\ \E t : pc' = [pc EXCEPT ![c] = t] /\ t # "connect"
        BY <2>3 DEF Connect, Start, WorkFails
    <3>2. s # "connect"
        BY <1>1, <1>4, <3>1 DEF TypeOK
    <3> QED
        BY <2>1, <3>1, <3>2
  <2> QED
      BY <2>2, <2>3
<1>6. handler' \in [Conns -> {"none", "backlog", "open", "leaked", "closed"}]
    BY <1>1 DEF TypeOK, Connect, ConnectRefused, Start, WorkFails, conn
<1>7. TypeOK'
  <2>1. pc' \in [Conns -> {"connect", "ready", "write", "read", "done", "error"}]
      BY <1>1, <1>3 DEF TypeOK
  <2> QED
      BY <1>1, <1>2, <1>5, <1>6, <2>1 DEF TypeOK
<1>8. BytesConserved'
    BY <1>1, <1>7 DEF IndInv, BytesConserved
<1>9. Started'
    BY <1>1, <1>3, <1>4, <1>5 DEF Started
<1>10. ASSUME NEW b \in Conns PROVE Works(b)'
  <2>1. CASE b # c
    <3>1. Works(b)
        BY DEF IndInv
    <3> QED
        BY <1>1, <1>4, <2>1, <3>1, OtherWork
  <2>2. CASE b = c /\ s \notin {"write", "read", "done"}
      BY <1>4, <2>2 DEF Works
  <2>3. CASE b = c /\ s \in {"write", "read", "done"}
    <3>1. out[c] = 0 /\ in[c] = 0
        BY <1>1, <1>3, <2>3 DEF Started
    <3>2. /\ mode \in {"echo", "send", "recv"}
          /\ mode = "echo" => ToWrite = Bytes(Msgs) /\ ToRead = Bytes(Msgs)
          /\ mode = "send" => ToWrite = Bulk /\ ToRead = 0
          /\ mode = "recv" => ToWrite = 0 /\ ToRead = Bulk
        BY <1>1, Amounts DEF TypeOK
    <3>3. /\ s = "write" => ToWrite > 0
          /\ s = "read" => ToWrite = 0 /\ ToRead > 0
          /\ s = "done" => ToWrite = 0 /\ ToRead = 0
        BY <1>1, <1>3, <2>3
    <3>4. mode = "echo" /\ s = "write" => Writing(pipeline, in[c], out[c])
      <4> SUFFICES ASSUME mode = "echo", s = "write" PROVE 0 < Bytes(Inflight)
          BY <3>1 DEF Writing, Filling, Inflight
      <4>1. Msgs # 0 /\ Msgs \in Nat /\ Inflight \in Nat \ {0}
        <5>1. Msgs \in Nat /\ Msgs # 0
            BY <3>2, <3>3, BytesFacts, Sizes
        <5>2. pipeline \in Nat \ {0} /\ Inflight = (IF pipeline <= Msgs THEN pipeline ELSE Msgs)
            BY <1>1, Window DEF TypeOK
        <5> QED
            BY <5>1, <5>2
      <4>2. Bytes(0) + Size <= Bytes(Inflight)
          BY <4>1, BytesFacts
      <4>3. Bytes(0) = 0 /\ Size \in Nat \ {0}
          BY BytesFacts
      <4>4. Bytes(Inflight) \in Nat
          BY <4>1, BytesFacts
      <4> QED
          BY <4>2, <4>3, <4>4
    <3>5. ~(mode = "echo" /\ s = "read")
        BY <1>1, <3>2, <3>3
    <3>6. mode # "echo" /\ s = "write" => ToRead = 0
        BY <1>1, <3>2, <3>3
    <3> QED
        BY <1>1, <1>2, <1>4, <2>3, <3>1, <3>3, <3>4, <3>5, <3>6 DEF Works
  <2> QED
      BY <2>1, <2>2, <2>3
<1> QED
    BY <1>8, <1>9, <1>10 DEF IndInv

LEMMA WriteMoves ==
    ASSUME IndInv, NEW c \in Conns, Write(c)
    PROVE  IndInv'
<1>1. /\ TypeOK /\ ToWrite \in Nat /\ ToRead \in Nat /\ Works(c) /\ Started
      /\ out[c] \in 0 .. ToWrite /\ in[c] \in 0 .. ToRead /\ out[c] \in Nat /\ in[c] \in Nat
      /\ up[c] \in 0 .. SockBuf /\ down[c] \in 0 .. SockBuf /\ hold[c] \in 0 .. BufSize
      /\ SockBuf \in Nat /\ BufSize \in Nat
      /\ UNCHANGED <<mode, pipeline, server, handler, hold, down, main, attempt, in>>
      /\ pc[c] = "write" /\ out[c] < ToWrite
  <2>1. UNCHANGED <<mode, pipeline, server, handler, hold, down, main, attempt, in>> /\ pc[c] = "write"
      BY DEF Write
  <2> QED
      BY <2>1, DriverTypes, Sizes DEF Works
<1>2. ToWrite' = ToWrite /\ ToRead' = ToRead
    BY <1>1 DEF ToWrite, ToRead
<1>3. /\ mode \in {"echo", "send", "recv"}
      /\ mode = "echo" => ToWrite = Bytes(Msgs) /\ ToRead = Bytes(Msgs)
      /\ mode = "send" => ToWrite = Bulk /\ ToRead = 0
      /\ mode = "recv" => ToWrite = 0 /\ ToRead = Bulk
    BY <1>1, Amounts DEF TypeOK
<1>4. PICK k \in 1 .. Min({WriteEnd(c) - out[c], SockBuf - up[c]}) :
          /\ up' = [up EXCEPT ![c] = @ + k]
          /\ out' = [out EXCEPT ![c] = @ + k]
          /\ pc' = [pc EXCEPT ![c] = AfterWrite(out[c] + k)]
    BY DEF Write
<1> DEFINE o == out[c] + k
           u == up[c] + k
           end == (out[c] \div Size + 1) * Size
           s == AfterWrite(o)
<1>5. end \in Nat
  <2>1. Size \in Nat \ {0}
      BY BytesFacts
  <2>2. out[c] \div Size \in Nat
      BY <1>1, <2>1, Z3
  <2> QED
      BY <2>1, <2>2, Z3
<1>6. WriteEnd(c) \in Nat /\ WriteEnd(c) <= end /\ (mode # "echo" => WriteEnd(c) <= ToWrite)
  <2> HIDE DEF end
  <2>1. WriteEnd(c) = IF mode = "echo" THEN end ELSE Min({end, ToWrite})
      BY DEF WriteEnd, end
  <2>2. Min({end, ToWrite}) = IF end <= ToWrite THEN end ELSE ToWrite
      BY <1>1, <1>5, MinTwo
  <2> QED
      BY <1>1, <1>5, <2>1, <2>2
<1>7. /\ k \in Nat \ {0} /\ o \in Nat /\ out[c] < o /\ o <= end /\ (mode # "echo" => o <= ToWrite)
      /\ u \in 0 .. SockBuf
  <2> DEFINE a == WriteEnd(c) - out[c]
             b == SockBuf - up[c]
  <2> HIDE DEF end
  <2>1. a \in Int /\ b \in Int /\ k \in 1 .. Min({a, b})
      BY <1>1, <1>4, <1>6
  <2>2. Min({a, b}) = IF a <= b THEN a ELSE b
    <3> HIDE DEF a, b
    <3> QED
        BY <2>1, MinTwo
  <2>3. k \in Nat \ {0} /\ k <= a /\ k <= b
    <3> HIDE DEF a, b
    <3> QED
        BY <2>1, <2>2
  <2> QED
      BY <1>1, <1>5, <1>6, <2>3
<1>8. mode # "recv"
    BY <1>1, <1>3
<1>9. /\ o <= ToWrite
      /\ s \in {"write", "read", "done"}
      /\ s = "write" => o < ToWrite
      /\ s = "read" => in[c] < ToRead /\ mode = "echo"
      /\ s = "done" => o = ToWrite /\ in[c] = ToRead
      /\ mode = "echo" /\ s = "write" => Writing(pipeline, in[c], o)
      /\ mode = "echo" /\ s = "read" => Reading(pipeline, in[c], o)
      /\ mode # "echo" => in[c] = ToRead
  <2>1. CASE mode = "echo"
    <3>1. Writing(pipeline, in[c], out[c])
        BY <1>1, <2>1 DEF Works
    <3> HIDE DEF o
    <3>2. /\ o <= Bytes(Msgs)
          /\ o >= Bytes(Inflight) /\ o % Size = 0 => in[c] < Bytes(Msgs) /\ Reading(pipeline, in[c], o)
          /\ ~(o >= Bytes(Inflight) /\ o % Size = 0) => o < Bytes(Msgs) /\ Writing(pipeline, in[c], o)
        BY <1>1, <1>7, <3>1, Window, WritePlan DEF Inflight, TypeOK
    <3>3. s = IF o >= Bytes(Inflight) /\ o % Size = 0 THEN "read" ELSE "write"
        BY <2>1 DEF AfterWrite, Bytes
    <3> HIDE DEF s
    <3> QED
        BY <1>3, <2>1, <3>2, <3>3
  <2>2. CASE mode # "echo"
    <3>1. s = IF o = ToWrite THEN "done" ELSE "write"
        BY <2>2 DEF AfterWrite
    <3>2. in[c] = ToRead
        BY <1>1, <2>2 DEF Works
    <3> HIDE DEF o, s
    <3> QED
        BY <1>1, <1>7, <2>2, <3>1, <3>2
  <2> QED
      BY <2>1, <2>2
<1>10. /\ out' = [out EXCEPT ![c] = o] /\ pc' = [pc EXCEPT ![c] = s] /\ up' = [up EXCEPT ![c] = u]
    BY <1>4
<1>11. u = up[c] + k /\ o = out[c] + k
    OBVIOUS
<1> HIDE DEF o, u, s, end
<1>12. /\ out'[c] = o /\ pc'[c] = s /\ up'[c] = u
       /\ \A b \in Conns \ {c} : out'[b] = out[b] /\ pc'[b] = pc[b] /\ up'[b] = up[b]
    BY <1>1, <1>10 DEF TypeOK
<1>13. TypeOK'
  <2>1. /\ out' \in [Conns -> 0 .. ToWrite] /\ up' \in [Conns -> 0 .. SockBuf]
        /\ pc' \in [Conns -> {"connect", "ready", "write", "read", "done", "error"}]
      BY <1>1, <1>7, <1>9, <1>10 DEF TypeOK
  <2> QED
      BY <1>1, <1>2, <2>1 DEF TypeOK
<1>14. ASSUME mode = "echo", NEW b \in Conns PROVE out'[b] = up'[b] + hold[b] + down[b] + in[b]
  <2>1. out[b] = up[b] + hold[b] + down[b] + in[b]
      BY <1>14 DEF IndInv, BytesConserved
  <2>2. CASE b # c
      BY <1>12, <2>1, <2>2
  <2>3. CASE b = c
      BY <1>1, <1>7, <1>11, <1>12, <2>1, <2>3
  <2> QED
      BY <2>2, <2>3
<1>15. BytesConserved'
    BY <1>1, <1>13, <1>14 DEF BytesConserved
<1>16. main # "connecting" /\ main # "reported"
    BY <1>1 DEF Started
<1>17. Started'
    BY <1>1, <1>9, <1>12, <1>16 DEF Started
<1>18. ASSUME NEW b \in Conns PROVE Works(b)'
  <2>1. CASE b # c
    <3>1. Works(b)
        BY DEF IndInv
    <3> QED
        BY <1>1, <1>12, <2>1, <3>1, OtherWork
  <2>2. CASE b = c
      BY <1>1, <1>2, <1>9, <1>12, <2>2 DEF Works
  <2> QED
      BY <2>1, <2>2
<1> QED
    BY <1>15, <1>17, <1>18 DEF IndInv

LEMMA ReadMoves ==
    ASSUME IndInv, NEW c \in Conns, Read(c)
    PROVE  IndInv'
<1>1. /\ TypeOK /\ ToWrite \in Nat /\ ToRead \in Nat /\ Works(c) /\ Started
      /\ out[c] \in 0 .. ToWrite /\ in[c] \in 0 .. ToRead /\ out[c] \in Nat /\ in[c] \in Nat
      /\ up[c] \in 0 .. SockBuf /\ down[c] \in 0 .. SockBuf /\ hold[c] \in 0 .. BufSize
      /\ SockBuf \in Nat /\ BufSize \in Nat
      /\ UNCHANGED <<mode, pipeline, server, handler, up, hold, main, attempt, out>>
      /\ pc[c] = "read" /\ in[c] < ToRead
  <2>1. UNCHANGED <<mode, pipeline, server, handler, up, hold, main, attempt, out>> /\ pc[c] = "read"
      BY DEF Read
  <2> QED
      BY <2>1, DriverTypes, Sizes DEF Works
<1>2. ToWrite' = ToWrite /\ ToRead' = ToRead
    BY <1>1 DEF ToWrite, ToRead
<1>3. mode = "echo" => ToWrite = Bytes(Msgs) /\ ToRead = Bytes(Msgs)
    BY <1>1, Amounts DEF TypeOK
<1>4. PICK k \in 1 .. Min({ReadEnd(c) - in[c], down[c]}) :
          /\ down' = [down EXCEPT ![c] = @ - k]
          /\ in' = [in EXCEPT ![c] = @ + k]
          /\ pc' = [pc EXCEPT ![c] = AfterRead(c, in[c] + k)]
    BY DEF Read
<1> DEFINE i == in[c] + k
           d == down[c] - k
           end == (in[c] \div Size + 1) * Size
           s == AfterRead(c, i)
<1>5. end \in Nat /\ Size \in Nat
  <2>1. Size \in Nat \ {0}
      BY BytesFacts
  <2>2. in[c] \div Size \in Nat
      BY <1>1, <2>1, Z3
  <2> QED
      BY <2>1, <2>2, Z3
<1>6. ReadEnd(c) \in Nat /\ (mode = "echo" => ReadEnd(c) = end) /\ (mode # "echo" => ReadEnd(c) <= ToRead)
  <2> DEFINE e == in[c] + Size
  <2>0. e \in Nat
      BY <1>1, <1>5
  <2> HIDE DEF end, e
  <2>1. ReadEnd(c) = IF mode = "echo" THEN end ELSE Min({e, ToRead})
      BY DEF ReadEnd, end, e
  <2>2. Min({e, ToRead}) = IF e <= ToRead THEN e ELSE ToRead
      BY <1>1, <2>0, MinTwo
  <2> QED
      BY <1>1, <1>5, <2>0, <2>1, <2>2
<1>7. /\ k \in Nat \ {0} /\ i \in Nat /\ in[c] < i /\ (mode = "echo" => i <= end) /\ (mode # "echo" => i <= ToRead)
      /\ d \in 0 .. SockBuf
  <2> DEFINE a == ReadEnd(c) - in[c]
             b == down[c]
  <2> HIDE DEF end
  <2>1. a \in Int /\ b \in Int /\ k \in 1 .. Min({a, b})
      BY <1>1, <1>4, <1>6
  <2>2. Min({a, b}) = IF a <= b THEN a ELSE b
    <3> HIDE DEF a, b
    <3> QED
        BY <2>1, MinTwo
  <2>3. k \in Nat \ {0} /\ k <= a /\ k <= b
    <3> HIDE DEF a, b
    <3> QED
        BY <2>1, <2>2
  <2> QED
      BY <1>1, <1>5, <1>6, <2>3
<1>9. /\ i <= ToRead
      /\ s \in {"write", "read", "done"}
      /\ s = "write" => out[c] < ToWrite /\ mode = "echo"
      /\ s = "read" => i < ToRead
      /\ s = "done" => i = ToRead /\ out[c] = ToWrite
      /\ mode = "echo" /\ s = "write" => Writing(pipeline, i, out[c])
      /\ mode = "echo" /\ s = "read" => Reading(pipeline, i, out[c])
      /\ mode # "echo" => out[c] = ToWrite
  <2>1. CASE mode = "echo"
    <3>1. Reading(pipeline, in[c], out[c])
        BY <1>1, <2>1 DEF Works
    <3> HIDE DEF i
    <3>2. /\ i <= Bytes(Msgs)
          /\ i % Size = 0 /\ out[c] < Bytes(Msgs) => Writing(pipeline, i, out[c])
          /\ ~(i % Size = 0 /\ out[c] < Bytes(Msgs)) =>
                 IF i = Bytes(Msgs) THEN out[c] = Bytes(Msgs) ELSE i < Bytes(Msgs) /\ Reading(pipeline, i, out[c])
        BY <1>1, <1>7, <2>1, <3>1, Window, ReadPlan DEF TypeOK
    <3>3. s = IF i % Size = 0 /\ out[c] < Bytes(Msgs) THEN "write" ELSE IF i = Bytes(Msgs) THEN "done" ELSE "read"
        BY <1>3, <2>1 DEF AfterRead
    <3> HIDE DEF s
    <3> QED
        BY <1>3, <2>1, <3>2, <3>3
  <2>2. CASE mode # "echo"
    <3>1. s = IF i = ToRead THEN "done" ELSE "read"
        BY <2>2 DEF AfterRead
    <3>2. out[c] = ToWrite
        BY <1>1, <2>2 DEF Works
    <3> HIDE DEF i, s
    <3> QED
        BY <1>1, <1>7, <2>2, <3>1, <3>2
  <2> QED
      BY <2>1, <2>2
<1>10. /\ in' = [in EXCEPT ![c] = i] /\ pc' = [pc EXCEPT ![c] = s] /\ down' = [down EXCEPT ![c] = d]
    BY <1>4
<1>11. d = down[c] - k /\ i = in[c] + k
    OBVIOUS
<1> HIDE DEF i, d, s, end
<1>12. /\ in'[c] = i /\ pc'[c] = s /\ down'[c] = d
       /\ \A b \in Conns \ {c} : in'[b] = in[b] /\ pc'[b] = pc[b] /\ down'[b] = down[b]
    BY <1>1, <1>10 DEF TypeOK
<1>13. TypeOK'
  <2>1. /\ in' \in [Conns -> 0 .. ToRead] /\ down' \in [Conns -> 0 .. SockBuf]
        /\ pc' \in [Conns -> {"connect", "ready", "write", "read", "done", "error"}]
      BY <1>1, <1>7, <1>9, <1>10 DEF TypeOK
  <2> QED
      BY <1>1, <1>2, <2>1 DEF TypeOK
<1>14. ASSUME mode = "echo", NEW b \in Conns PROVE out[b] = up[b] + hold[b] + down'[b] + in'[b]
  <2>1. out[b] = up[b] + hold[b] + down[b] + in[b]
      BY <1>14 DEF IndInv, BytesConserved
  <2>2. CASE b # c
      BY <1>12, <2>1, <2>2
  <2>3. CASE b = c
      BY <1>1, <1>7, <1>11, <1>12, <2>1, <2>3
  <2> QED
      BY <2>2, <2>3
<1>15. BytesConserved'
    BY <1>1, <1>13, <1>14 DEF BytesConserved
<1>16. main # "connecting" /\ main # "reported"
    BY <1>1 DEF Started
<1>17. Started'
    BY <1>1, <1>9, <1>12, <1>16 DEF Started
<1>18. ASSUME NEW b \in Conns PROVE Works(b)'
  <2>1. CASE b # c
    <3>1. Works(b)
        BY DEF IndInv
    <3> QED
        BY <1>1, <1>12, <2>1, <3>1, OtherWork
  <2>2. CASE b = c
      BY <1>1, <1>2, <1>9, <1>12, <2>2 DEF Works
  <2> QED
      BY <2>1, <2>2
<1> QED
    BY <1>15, <1>17, <1>18 DEF IndInv

LEMMA MainMoves ==
    ASSUME IndInv, CloseStart \/ Report
    PROVE  IndInv'
<1>1. UNCHANGED <<mode, pipeline, server, conn, client>> /\ TypeOK /\ Started
    BY DEF CloseStart, Report, IndInv, BytesConserved
<1>2. ToWrite' = ToWrite /\ ToRead' = ToRead
    BY <1>1 DEF ToWrite, ToRead
<1>3. /\ main' \in {"timing", "reported", "failed"}
      /\ main = "connecting" => \A c \in Conns : pc[c] # "connect"
      /\ main' = "reported" => \A c \in Conns : pc[c] = "done"
  <2>1. CASE CloseStart
      BY <2>1 DEF CloseStart, AllConnected
  <2>2. CASE Report
      BY <1>1, <2>2 DEF Report, Closed
  <2> QED
      BY <2>1, <2>2
<1>4. BytesConserved'
    BY <1>1, <1>2, <1>3 DEF IndInv, BytesConserved, TypeOK, conn, client
<1>5. Started'
    BY <1>1, <1>3 DEF Started, client
<1>6. ASSUME NEW b \in Conns PROVE Works(b)'
  <2>1. Works(b)
      BY DEF IndInv
  <2> QED
      BY <1>1, <2>1, OtherWork DEF client
<1> QED
    BY <1>4, <1>5, <1>6 DEF IndInv

-----------------------------------------------------------------------------

LEMMA InitInv == Init => IndInv
<1> SUFFICES ASSUME Init PROVE IndInv
    OBVIOUS
<1>1. ToWrite \in Nat /\ ToRead \in Nat
    BY Amounts DEF Init
<1>2. SockBuf \in Nat /\ BufSize \in Nat /\ MaxAttempts \in Nat \ {0}
    BY Sizes
<1>3. 0 \in 0 .. ToWrite /\ 0 \in 0 .. ToRead /\ 0 \in 0 .. SockBuf /\ 0 \in 0 .. BufSize /\ 0 \in 0 .. MaxAttempts
    BY <1>1, <1>2
<1>4. TypeOK
    BY <1>3 DEF Init, TypeOK
<1>5. BytesConserved
    BY <1>4 DEF Init, BytesConserved
<1>6. Started
    BY <1>2 DEF Init, Started
<1>7. \A c \in Conns : Works(c)
    BY DEF Init, Works
<1> QED
    BY <1>5, <1>6, <1>7 DEF IndInv

LEMMA StepInv == IndInv /\ [Next]_vars => IndInv'
<1> SUFFICES ASSUME IndInv, [Next]_vars PROVE IndInv'
    OBVIOUS
<1>1. CASE ServerStep
    BY <1>1, ServerMoves
<1>2. CASE \E c \in Conns : EchoRead(c) \/ EchoWrite(c) \/ SinkRead(c) \/ SourceWrite(c)
    BY <1>2, HandlerMoves
<1>3. CASE \E c \in Conns : Connect(c) \/ ConnectRefused(c) \/ Start(c) \/ WorkFails(c)
    BY <1>3, ClientMoves
<1>4. CASE \E c \in Conns : Write(c) \/ Read(c)
    BY <1>4, WriteMoves, ReadMoves
<1>5. CASE CloseStart \/ Report
    BY <1>5, MainMoves
<1>6. CASE UNCHANGED vars
  <2>1. UNCHANGED <<mode, pipeline, main, client>> /\ ToWrite' = ToWrite /\ ToRead' = ToRead
      BY <1>6 DEF vars, ToWrite, ToRead
  <2>2. BytesConserved'
      BY <1>6, <2>1 DEF vars, conn, client, IndInv, BytesConserved, TypeOK
  <2> QED
      BY <2>1, <2>2, SameWork DEF IndInv
<1> QED
    BY <1>1, <1>2, <1>3, <1>4, <1>5, <1>6 DEF Next, Server, Failure, Main, Handler, Client, ServerStep

(* The invariant of driver and server. *)
THEOREM Invariance == Spec => []IndInv
BY InitInv, StepInv, PTL DEF Spec

(* No goroutine of the driver sends or receives before every connection is *)
(* made or given up, for any number of connections.                        *)
THEOREM TimedTogether == Spec => []StartTogether
<1>1. IndInv => StartTogether
    BY DEF IndInv, Started, StartTogether
<1> QED
    BY <1>1, Invariance, PTL

(* The echo servers lose no byte and make none up, whatever the sizes of   *)
(* messages and buffers and however reads and writes are cut.              *)
THEOREM NoByteLost == Spec => []BytesConserved
<1>1. IndInv => BytesConserved
    BY DEF IndInv
<1> QED
    BY <1>1, Invariance, PTL

(* The driver waits with exactly pipeline messages in flight, or all that  *)
(* remain, for any pipeline and any number of messages.                    *)
THEOREM PipelineFull == Spec => []PipelineKept
<1>1. ASSUME IndInv, mode = "echo", NEW c \in Conns, pc[c] = "read"
      PROVE  LET got == in[c] \div Size
             IN  out[c] = (got + Min({pipeline, Msgs - got})) * Size
  <2>1. PICK g \in 0 .. Msgs - 1 : Waiting(pipeline, in[c], out[c], g)
      BY <1>1 DEF IndInv, Works, Reading
  <2>2. in[c] \in Nat /\ g \in Nat
      BY <1>1, DriverTypes, Sizes
  <2>3. in[c] \div Size = g
      BY <2>1, <2>2, WholeMessages DEF Waiting
  <2> QED
      BY <2>1, <2>3 DEF Waiting, Bytes
<1>2. IndInv => PipelineKept
    BY <1>1 DEF PipelineKept
<1> QED
    BY <1>2, Invariance, PTL

(* A throughput is reported when every connection has transferred all it   *)
(* had to, in all three modes.                                             *)
THEOREM ReportedWorkDone == Spec => []ReportMeansDone
<1>1. IndInv => ReportMeansDone
    BY DEF IndInv, Started, Works, ReportMeansDone
<1> QED
    BY <1>1, Invariance, PTL

(***************************************************************************)
(* When what is in flight fits into the buffers, driver and handler never  *)
(* wait for each other to read: the deadlock of two writers that the echo  *)
(* pipeline invites (driver/tcp_driver.go:112-116,                         *)
(* src/tcp_server.zig:32-38) needs more bytes than that.                   *)
(***************************************************************************)
THEOREM FittingNeverBlocks == Spec => [](Fits => \A c \in Conns : ~BothWrite(c))
<1>1. ASSUME IndInv, Fits, NEW c \in Conns, BothWrite(c) PROVE FALSE
  <2> DEFINE F == Inflight
             n == pipeline
  <2>1. /\ mode = "echo" /\ pc[c] = "write" /\ up[c] = SockBuf /\ hold[c] > 0 /\ down[c] = SockBuf
      BY <1>1 DEF BothWrite
  <2>2. /\ TypeOK /\ Works(c) /\ out[c] \in Nat /\ in[c] \in Nat /\ hold[c] \in 0 .. BufSize
        /\ SockBuf \in Nat /\ BufSize \in Nat /\ Msgs \in Nat
      BY <1>1, DriverTypes, Sizes
  <2>3. n \in Nat \ {0} /\ F = (IF n <= Msgs THEN n ELSE Msgs) /\ F \in Nat
      BY <2>2, Window DEF TypeOK
  <2>4. out[c] = SockBuf + hold[c] + SockBuf + in[c]
      BY <1>1, <2>1 DEF IndInv, BytesConserved
  <2>5. Bytes(F) <= 2 * SockBuf + 1
      BY <1>1 DEF Fits, Bytes
  <2>6. Writing(n, in[c], out[c])
      BY <2>1, <2>2 DEF Works
  <2>7. Bytes(F) \in Nat
      BY <2>3, BytesFacts
  <2>8. out[c] < in[c] + Bytes(F)
    <3>1. CASE Filling(n, in[c], out[c])
        BY <2>2, <2>7, <3>1 DEF Filling, Inflight
    <3>2. CASE \E g \in 1 .. Msgs : Refilling(n, in[c], out[c], g)
      <4>1. PICK g \in 1 .. Msgs : Refilling(n, in[c], out[c], g)
          BY <3>2
      <4>2. in[c] = Bytes(g) /\ g + n <= Msgs /\ out[c] < Bytes(g + n) /\ g \in Nat
          BY <4>1, <2>2 DEF Refilling
      <4>3. F = n
          BY <2>2, <2>3, <4>2
      <4>4. Bytes(g + n) = Bytes(g) + Bytes(n)
        <5>1. Size \in Nat
            BY BytesFacts
        <5> HIDE DEF n
        <5> QED
            BY <2>3, <4>2, <5>1, Z3 DEF Bytes
      <4> QED
          BY <4>2, <4>3, <4>4
    <3> QED
        BY <2>6, <3>1, <3>2 DEF Writing
  <2> HIDE DEF F, n
  <2> QED
      BY <2>1, <2>2, <2>4, <2>5, <2>7, <2>8
<1>2. IndInv => (Fits => \A c \in Conns : ~BothWrite(c))
    BY <1>1
<1> QED
    BY <1>2, Invariance, PTL
=============================================================================
