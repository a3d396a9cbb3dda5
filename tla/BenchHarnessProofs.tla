------------------------- MODULE BenchHarnessProofs -------------------------
(***************************************************************************)
(* The harness measures each cell on its own server and in turn, for every *)
(* number of rounds and engines and every table of scenarios, whatever the *)
(* servers and drivers do and whenever Ctrl-C comes.                       *)
(***************************************************************************)
EXTENDS BenchHarness, FiniteSetTheorems, WellFoundedInduction, TLAPS

(* The scenario the loops are at. *)
Here == Groups[at.g][at.s]

(* Where the loops are in each phase. *)
LoopInv ==
    /\ phase = "checking" => at = Origin
    /\ phase \in {"emit", "ended"} => at.r = Rounds + 1
    /\ at.r = Rounds + 1 => at = [Origin EXCEPT !.r = Rounds + 1]
                            /\ phase \in {"checking", "emit", "ended", "aborted"}
    /\ phase = "engine" => at.s = 1
    /\ phase \in {"started", "settle", "drive", "running"} => at.e \in built
    /\ phase \in {"started", "settle", "finally", "waiting", "pausing"} => kind # "bench"
    /\ interrupted # "no" => phase \in {"finally", "waiting", "pausing", "aborted"}
    /\ phase \in {"finally", "waiting", "pausing"} /\ interrupted = "no" => at.s = Len(Groups[at.g])

(* At most one server is alive, the one of the current block, and none     *)
(* between the wait of one block and the Popen of the next.  The driver    *)
(* has been connected to no other.                                         *)
ServerInv ==
    /\ servers = [b \in DOMAIN servers |-> servers[b]]
    /\ DOMAIN servers \subseteq {Block}
    /\ kind = "bench" => DOMAIN servers = {}
    /\ phase \in {"checking", "engine", "pausing", "emit", "ended"} => DOMAIN servers = {}
    /\ phase = "waiting" \/ (phase = "aborted" /\ interrupted \notin {"started", "finally"}) =>
          \A b \in DOMAIN servers : servers[b] = "terminated"
    /\ phase = "running" => against \in {None, Block}

(* d scenarios of the current engine have been run in the current round:   *)
(* those before Here, and Here itself once its program has been started.   *)
Ahead(c, d) == c[1] < at.e \/ (c[1] = at.e /\ c[2] <= d)

TriedInv ==
    \E d \in {Here - 1, Here} :
        /\ phase \in {"checking", "engine", "started", "settle", "drive", "emit", "ended"} => d = Here - 1
        /\ phase \in {"running", "hung"} => d = Here
        /\ phase \in {"finally", "waiting", "pausing"} /\ interrupted = "no" => d = Here
        /\ at.r = Rounds + 1 => d = 0
        /\ \A c \in Cells :
              tried[c] = IF c[1] \notin built THEN 0
                         ELSE IF Ahead(c, d) THEN at.r ELSE at.r - 1

(* A result belongs to the cell, the round and the server it is kept for. *)
Measured(x) ==
    /\ x.cell \in Cells /\ x.server \in Blocks
    /\ x.server.kind = kind
    /\ x.server.r = x.r /\ x.server.e = x.cell[1]
    /\ Modes[x.cell[2]] = Modes[Groups[x.server.g][1]]

SampleInv == \A x \in sample : Measured(x)

(* The conjunction that every step of the harness and of the processes     *)
(* preserves.                                                              *)
IndInv == TypeOK /\ LoopInv /\ ServerInv /\ SampleInv /\ TriedInv

-----------------------------------------------------------------------------
(* Grouping                                                                *)

(* A set of numbers has a least one: what induction is done with here. *)
LEMMA LeastNumber ==
    ASSUME NEW T \in SUBSET Nat, T # {}
    PROVE  \E m \in T : \A n \in T : m <= n
<1> DEFINE F == {0 .. n : n \in T}
           R == StrictSubsetOrdering(Nat)
           S == FiniteSubsetsOf(Nat)
<1>1. IsWellFoundedOn(R, S)
    BY FS_StrictSubsetOrderingWellFounded
<1>2. F \subseteq S /\ F # {}
  <2>1. ASSUME NEW n \in T PROVE 0 .. n \in S
      BY FS_Interval DEF FiniteSubsetsOf
  <2> QED
      BY <2>1
<1> HIDE DEF R, S, F
<1>3. PICK x \in F : \A y \in F : ~(<<y, x>> \in R)
    BY <1>1, <1>2, WFMin
<1>4. PICK m \in T : x = 0 .. m
    BY <1>3 DEF F
<1>5. ASSUME NEW n \in T, n < m PROVE FALSE
  <2>1. 0 .. n \in F /\ ~(<<0 .. n, 0 .. m>> \in R)
      BY <1>3, <1>4 DEF F
  <2>2. 0 .. n \subseteq 0 .. m /\ 0 .. n # 0 .. m /\ 0 .. m \subseteq Nat
      BY <1>5
  <2> QED
      BY <2>1, <2>2 DEF R, StrictSubsetOrdering
<1> QED
    BY <1>4, <1>5

(* by_mode is what its loop computes, round by round (bench.py:361-364). *)
LEMMA ByModeLoop ==
    ASSUME NEW modes, Len(modes) \in Nat
    PROVE  ByMode(modes) = [n \in 0 .. Len(modes) |->
                               IF n = 0 THEN <<>> ELSE AddScenario(modes, ByMode(modes)[n - 1], n)]
<1> DEFINE N == Len(modes)
           Grown(f, n) == f = [m \in 0 .. n |-> IF m = 0 THEN <<>> ELSE AddScenario(modes, f[m - 1], m)]
           T == {n \in 0 .. N : ~ \E f : Grown(f, n)}
<1> HIDE DEF N
<1>0. N \in Nat
    BY DEF N
<1>1. \E f : Grown(f, N)
  <2> SUFFICES ASSUME T # {} PROVE FALSE
      BY <1>0
  <2>1. T \in SUBSET Nat
      BY <1>0
  <2>2. PICK n \in T : \A k \in T : n <= k
    <3> HIDE DEF T
    <3> QED
      BY <2>1, LeastNumber
  <2>3. n \in 0 .. N /\ n \in Nat /\ ~ \E f : Grown(f, n)
      BY <2>1, <2>2
  <2>4. n # 0
    <3> DEFINE f == [m \in 0 .. 0 |-> <<>>]
    <3>1. Grown(f, 0)
        OBVIOUS
    <3> QED
        BY <3>1, <2>3
  <2>5. n - 1 \in 0 .. N /\ n - 1 \notin T
    <3>1. n - 1 \in 0 .. N /\ ~(n <= n - 1)
        BY <2>3, <2>4, <1>0
    <3> HIDE DEF T
    <3> QED
        BY <3>1, <2>2
  <2>6. PICK f : Grown(f, n - 1)
      BY <2>5
  <2> DEFINE g == [m \in 0 .. n |-> IF m = n THEN AddScenario(modes, f[n - 1], n) ELSE f[m]]
             h == [m \in 0 .. n |-> IF m = 0 THEN <<>> ELSE AddScenario(modes, g[m - 1], m)]
  <2>7. ASSUME NEW m \in 0 .. n PROVE g[m] = h[m]
    <3>1. CASE m = 0
        BY <3>1, <2>3, <2>4, <2>6
    <3>2. CASE m # 0
      <4>1. m - 1 \in 0 .. n - 1 /\ g[m - 1] = f[m - 1]
          BY <3>2, <2>3, <2>4
      <4> QED
          BY <4>1, <3>2, <2>3, <2>6
    <3> QED
        BY <3>1, <3>2
  <2>8. g = h
      BY <2>7
  <2> QED
      BY <2>8, <2>3
<1> QED
    BY <1>1 DEF ByMode, N

(* What the two updates of by_mode do to a list. *)
LEMMA AppendFacts ==
    ASSUME NEW S, NEW q \in Seq(S), NEW e \in S
    PROVE  /\ Append(q, e) \in Seq(S) /\ Len(Append(q, e)) = Len(q) + 1
           /\ Append(q, e)[Len(q) + 1] = e
           /\ \A i \in 1 .. Len(q) : Append(q, e)[i] = q[i]
OBVIOUS

LEMMA ExceptFacts ==
    ASSUME NEW S, NEW q \in Seq(S), NEW j \in 1 .. Len(q), NEW e \in S
    PROVE  /\ [q EXCEPT ![j] = e] \in Seq(S) /\ Len([q EXCEPT ![j] = e]) = Len(q)
           /\ \A i \in 1 .. Len(q) : [q EXCEPT ![j] = e][i] = IF i = j THEN e ELSE q[i]
OBVIOUS

(* The groups G hold the scenarios 1 .. n, each once and in order, and     *)
(* those of a group have one mode.                                         *)
Grouped(modes, n, G) ==
    /\ G \in Seq(Seq(Nat)) /\ Len(G) >= 1
    /\ \A g \in 1 .. Len(G) :
          /\ Len(G[g]) >= 1
          /\ \A s \in 1 .. Len(G[g]) : G[g][s] \in 1 .. n /\ modes[G[g][s]] = modes[G[g][1]]
          /\ \A s \in 1 .. Len(G[g]) - 1 : G[g][s + 1] = G[g][s] + 1
    /\ G[1][1] = 1
    /\ \A g \in 1 .. Len(G) - 1 : G[g + 1][1] = G[g][Len(G[g])] + 1
    /\ G[Len(G)][Len(G[Len(G)])] = n

(* One group of them. *)
LEMMA OneGroup ==
    ASSUME NEW modes, NEW n, NEW G, Grouped(modes, n, G), NEW g \in 1 .. Len(G)
    PROVE  /\ G[g] \in Seq(Nat) /\ Len(G[g]) \in Nat /\ Len(G[g]) >= 1
           /\ \A s \in 1 .. Len(G[g]) : G[g][s] \in 1 .. n /\ modes[G[g][s]] = modes[G[g][1]]
           /\ \A s \in 1 .. Len(G[g]) - 1 : G[g][s + 1] = G[g][s] + 1
<1>1. G \in Seq(Seq(Nat))
    BY Zenon DEF Grouped
<1>2. G[g] \in Seq(Nat)
    BY <1>1
<1>3. Len(G[g]) \in Nat
    BY <1>2
<1> QED
    BY <1>2, <1>3, Zenon DEF Grouped

(* The first scenario opens the first group. *)
LEMMA FirstGroup ==
    ASSUME NEW modes
    PROVE  Grouped(modes, 1, AddScenario(modes, <<>>, 1))
<1> DEFINE G == Append(<<>>, <<1>>)
<1>1. AddScenario(modes, <<>>, 1) = G
    BY DEF AddScenario
<1> DEFINE A == <<1>>
<1>2. A \in Seq(Nat) /\ Len(A) = 1 /\ A[1] = 1
    OBVIOUS
<1> HIDE DEF A
<1>3. G \in Seq(Seq(Nat)) /\ Len(G) = 1 /\ G[1] = A
    BY <1>2 DEF A
<1> HIDE DEF G
<1>4. \A i \in 1 .. 1 : i = 1
    OBVIOUS
<1>5. Len(G) - 1 = 0 /\ Len(A) - 1 = 0 /\ \A i \in 1 .. 0 : FALSE
    BY <1>2, <1>3
<1>6. \A g \in 1 .. Len(G) : G[g] = A
    BY <1>3, <1>4
<1>7. \A s \in 1 .. Len(A) : A[s] = 1
    BY <1>2, <1>4
<1>8. /\ Len(A) >= 1
      /\ \A s \in 1 .. Len(A) : A[s] \in 1 .. 1 /\ modes[A[s]] = modes[A[1]]
      /\ \A s \in 1 .. Len(A) - 1 : A[s + 1] = A[s] + 1
    BY <1>2, <1>5, <1>7
<1>9. Grouped(modes, 1, G)
  <2>1. Len(G) >= 1 /\ G[1][1] = 1 /\ G[Len(G)][Len(G[Len(G)])] = 1
    <3>1. Len(G) = 1 /\ G[1] = A
        BY <1>3
    <3>2. Len(A) = 1 /\ A[1] = 1
        BY <1>2
    <3>3. Len(G) >= 1 /\ G[1][1] = 1
        BY <3>1, <3>2
    <3>4. G[Len(G)] = A
        BY <3>1, Zenon
    <3>5. G[Len(G)][Len(G[Len(G)])] = A[1]
        BY <3>2, <3>4, Zenon
    <3> QED
        BY <3>2, <3>3, <3>5
  <2>2. \A g \in 1 .. Len(G) - 1 : G[g + 1][1] = G[g][Len(G[g])] + 1
      BY <1>5
  <2> QED
      BY <2>1, <2>2, <1>3, <1>6, <1>8 DEF Grouped
<1> QED
    BY <1>1, <1>9

(* The next one joins the last group or opens a new one (bench.py:361-364). *)
LEMMA NextGroup ==
    ASSUME NEW modes, NEW n \in Nat \ {0}, NEW G, Grouped(modes, n, G)
    PROVE  Grouped(modes, n + 1, AddScenario(modes, G, n + 1))
<1> DEFINE L == Len(G)
           H == AddScenario(modes, G, n + 1)
<1>1. G \in Seq(Seq(Nat)) /\ L \in Nat \ {0} /\ G # <<>> /\ \A g \in 1 .. L : G[g] \in Seq(Nat) /\ Len(G[g]) \in Nat \ {0}
    BY DEF Grouped
<1>2. CASE modes[G[L][1]] # modes[n + 1]
  <2>1. H = Append(G, <<n + 1>>)
      BY <1>2 DEF AddScenario
  <2>2. <<n + 1>> \in Seq(Nat) /\ Len(<<n + 1>>) = 1 /\ <<n + 1>>[1] = n + 1
      OBVIOUS
  <2>3. H \in Seq(Seq(Nat)) /\ Len(H) = L + 1 /\ H[L + 1] = <<n + 1>> /\ \A g \in 1 .. L : H[g] = G[g]
    <3> DEFINE S == Seq(Nat)
               A == <<n + 1>>
    <3>1. G \in Seq(S) /\ A \in S /\ H = Append(G, A)
        BY <2>1, <2>2, <1>1
    <3> HIDE DEF S, A, H
    <3>2. H \in Seq(S) /\ Len(H) = L + 1 /\ H[L + 1] = A /\ \A g \in 1 .. L : H[g] = G[g]
        BY <3>1, AppendFacts
    <3> QED
        BY <3>2 DEF S, A
  <2> HIDE DEF H
  <2>4. \A g \in 1 .. Len(H) :
          /\ Len(H[g]) >= 1
          /\ \A s \in 1 .. Len(H[g]) : H[g][s] \in 1 .. n + 1 /\ modes[H[g][s]] = modes[H[g][1]]
          /\ \A s \in 1 .. Len(H[g]) - 1 : H[g][s + 1] = H[g][s] + 1
    <3> SUFFICES ASSUME NEW g \in 1 .. Len(H)
                 PROVE  /\ Len(H[g]) >= 1
                        /\ \A s \in 1 .. Len(H[g]) : H[g][s] \in 1 .. n + 1 /\ modes[H[g][s]] = modes[H[g][1]]
                        /\ \A s \in 1 .. Len(H[g]) - 1 : H[g][s + 1] = H[g][s] + 1
        OBVIOUS
    <3>1. CASE g = L + 1
        BY <3>1, <2>2, <2>3
    <3>2. CASE g # L + 1
      <4>1. g \in 1 .. L /\ H[g] = G[g]
          BY <3>2, <2>3, <1>1
      <4>2. \A m \in 1 .. n : m \in 1 .. n + 1
          OBVIOUS
      <4>3. /\ Len(G[g]) >= 1
            /\ \A s \in 1 .. Len(G[g]) : G[g][s] \in 1 .. n /\ modes[G[g][s]] = modes[G[g][1]]
            /\ \A s \in 1 .. Len(G[g]) - 1 : G[g][s + 1] = G[g][s] + 1
          BY <4>1, OneGroup
      <4> QED
          BY <4>1, <4>2, <4>3, Zenon
    <3> QED
        BY <3>1, <3>2
  <2>5. H[1][1] = 1
      BY <2>3, <1>1 DEF Grouped
  <2>6. \A g \in 1 .. Len(H) - 1 : H[g + 1][1] = H[g][Len(H[g])] + 1
    <3> SUFFICES ASSUME NEW g \in 1 .. L PROVE H[g + 1][1] = H[g][Len(H[g])] + 1
        BY <2>3, <1>1
    <3>1. CASE g = L
        BY <3>1, <2>2, <2>3 DEF Grouped
    <3>2. CASE g # L
      <4>1. g \in 1 .. L - 1 /\ g + 1 \in 1 .. L /\ g \in 1 .. L
          BY <3>2, <1>1
      <4> QED
          BY <4>1, <2>3 DEF Grouped
    <3> QED
        BY <3>1, <3>2
  <2>7. Len(H) >= 1 /\ H[Len(H)][Len(H[Len(H)])] = n + 1
      BY <2>2, <2>3, <1>1
  <2>8. Grouped(modes, n + 1, H)
      BY <2>3, <2>4, <2>5, <2>6, <2>7 DEF Grouped
  <2> QED
      BY <2>8 DEF H
<1>3. CASE modes[G[L][1]] = modes[n + 1]
  <2> DEFINE A == Append(G[L], n + 1)
             K == Len(G[L])
  <2>1. H = [G EXCEPT ![L] = A]
      BY <1>1, <1>3 DEF AddScenario
  <2>2. /\ A \in Seq(Nat) /\ K \in Nat \ {0} /\ Len(A) = K + 1 /\ A[K + 1] = n + 1
        /\ \A s \in 1 .. K : A[s] = G[L][s]
      BY <1>1
  <2> HIDE DEF A
  <2>3. H \in Seq(Seq(Nat)) /\ Len(H) = L /\ H[L] = A /\ \A g \in 1 .. L : g # L => H[g] = G[g]
    <3> DEFINE S == Seq(Nat)
    <3>1. G \in Seq(S) /\ A \in S /\ H = [G EXCEPT ![L] = A] /\ L \in 1 .. Len(G)
        BY <2>1, <2>2, <1>1
    <3> HIDE DEF S, H
    <3>2. H \in Seq(S) /\ Len(H) = L /\ \A g \in 1 .. L : H[g] = IF g = L THEN A ELSE G[g]
        BY <3>1, ExceptFacts
    <3> QED
        BY <3>1, <3>2 DEF S
  <2> HIDE DEF H, K
  <2>4. \A s \in 1 .. K : G[L][s] \in 1 .. n /\ modes[G[L][s]] = modes[G[L][1]]
      BY <1>1 DEF Grouped, K
  <2>5. (\A s \in 1 .. K - 1 : G[L][s + 1] = G[L][s] + 1) /\ G[L][K] = n
    <3>1. L \in 1 .. L
        BY <1>1
    <3> QED
        BY <3>1 DEF Grouped, K
  <2>6. \A g \in 1 .. L :
          /\ Len(H[g]) >= 1
          /\ \A s \in 1 .. Len(H[g]) : H[g][s] \in 1 .. n + 1 /\ modes[H[g][s]] = modes[H[g][1]]
          /\ \A s \in 1 .. Len(H[g]) - 1 : H[g][s + 1] = H[g][s] + 1
    <3> SUFFICES ASSUME NEW g \in 1 .. L
                 PROVE  /\ Len(H[g]) >= 1
                        /\ \A s \in 1 .. Len(H[g]) : H[g][s] \in 1 .. n + 1 /\ modes[H[g][s]] = modes[H[g][1]]
                        /\ \A s \in 1 .. Len(H[g]) - 1 : H[g][s + 1] = H[g][s] + 1
        OBVIOUS
    <3>1. CASE g # L
      <4>1. H[g] = G[g]
          BY <3>1, <2>3
      <4>2. \A m \in 1 .. n : m \in 1 .. n + 1
          OBVIOUS
      <4>3. /\ Len(G[g]) >= 1
            /\ \A s \in 1 .. Len(G[g]) : G[g][s] \in 1 .. n /\ modes[G[g][s]] = modes[G[g][1]]
            /\ \A s \in 1 .. Len(G[g]) - 1 : G[g][s + 1] = G[g][s] + 1
          BY <4>1, OneGroup
      <4> QED
          BY <4>1, <4>2, <4>3, Zenon
    <3>2. CASE g = L
      <4>1. A[1] = G[L][1]
          BY <2>2
      <4>2. \A s \in 1 .. K + 1 : A[s] \in 1 .. n + 1 /\ modes[A[s]] = modes[A[1]]
        <5> SUFFICES ASSUME NEW s \in 1 .. K + 1 PROVE A[s] \in 1 .. n + 1 /\ modes[A[s]] = modes[A[1]]
            OBVIOUS
        <5>1. CASE s = K + 1
            BY <5>1, <4>1, <2>2, <1>3
        <5>2. CASE s # K + 1
          <6>1. s \in 1 .. K /\ A[s] = G[L][s]
              BY <5>2, <2>2
          <6> QED
              BY <6>1, <4>1, <2>4
        <5> QED
            BY <5>1, <5>2
      <4>3. \A s \in 1 .. K : A[s + 1] = A[s] + 1
        <5> SUFFICES ASSUME NEW s \in 1 .. K PROVE A[s + 1] = A[s] + 1
            OBVIOUS
        <5>1. CASE s = K
            BY <5>1, <2>2, <2>5
        <5>2. CASE s # K
          <6>1. s \in 1 .. K - 1 /\ s + 1 \in 1 .. K
              BY <5>2, <2>2
          <6> QED
              BY <6>1, <2>2, <2>5
        <5> QED
            BY <5>1, <5>2
      <4> QED
          BY <4>2, <4>3, <3>2, <2>2, <2>3
    <3> QED
        BY <3>1, <3>2
  <2>7. \A g \in 1 .. L : H[g][1] = G[g][1]
    <3>1. A[1] = G[L][1]
        BY <2>2
    <3> QED
        BY <3>1, <2>3
  <2>8. H[1][1] = 1
      BY <2>7, <1>1 DEF Grouped
  <2>9. \A g \in 1 .. L - 1 : H[g + 1][1] = H[g][Len(H[g])] + 1
    <3> SUFFICES ASSUME NEW g \in 1 .. L - 1 PROVE H[g + 1][1] = H[g][Len(H[g])] + 1
        OBVIOUS
    <3>1. g \in 1 .. L /\ g + 1 \in 1 .. L /\ g # L
        BY <1>1
    <3> QED
        BY <3>1, <2>3, <2>7 DEF Grouped
  <2>10. Len(H) >= 1 /\ H[Len(H)][Len(H[Len(H)])] = n + 1
      BY <2>2, <2>3, <1>1
  <2>11. Grouped(modes, n + 1, H)
      BY <2>3, <2>6, <2>8, <2>9, <2>10 DEF Grouped
  <2> QED
      BY <2>11 DEF H
<1> QED
    BY <1>2, <1>3

(* What the loops of a matrix go through: every scenario once, in order. *)
LEMMA GroupsCover ==
    ASSUME NEW modes, Len(modes) \in Nat \ {0}
    PROVE  Grouped(modes, Len(modes), ByMode(modes)[Len(modes)])
<1> DEFINE N == Len(modes)
           B == ByMode(modes)
           T == {n \in 1 .. N : ~Grouped(modes, n, B[n])}
<1>1. N \in Nat \ {0}
    OBVIOUS
<1>2. B[0] = <<>> /\ \A n \in 1 .. N : B[n] = AddScenario(modes, B[n - 1], n)
    BY ByModeLoop
<1> HIDE DEF N, B
<1>3. SUFFICES ASSUME T # {} PROVE FALSE
    BY <1>1 DEF N, B
<1>4. T \in SUBSET Nat
    BY <1>1
<1>5. PICK n \in T : \A k \in T : n <= k
  <2> HIDE DEF T
  <2> QED
      BY <1>3, <1>4, LeastNumber
<1>6. n \in 1 .. N /\ n \in Nat /\ ~Grouped(modes, n, B[n])
    BY <1>4, <1>5
<1>7. n # 1
    BY <1>2, <1>6, FirstGroup
<1>8. n - 1 \in 1 .. N /\ ~(n <= n - 1) /\ n - 1 \in Nat \ {0} /\ (n - 1) + 1 = n
    BY <1>1, <1>6, <1>7
<1>9. Grouped(modes, n - 1, B[n - 1])
  <2>1. n - 1 \notin T
    <3> HIDE DEF T
    <3> QED
        BY <1>5, <1>8
  <2> QED
      BY <2>1, <1>8
<1>10. Grouped(modes, n, AddScenario(modes, B[n - 1], n))
  <2> DEFINE m == n - 1
             G == B[n - 1]
  <2>1. m \in Nat \ {0} /\ Grouped(modes, m, G) /\ m + 1 = n
      BY <1>8, <1>9
  <2> HIDE DEF m, G
  <2>2. Grouped(modes, m + 1, AddScenario(modes, G, m + 1))
      BY <2>1, NextGroup
  <2> QED
      BY <2>1, <2>2 DEF G
<1> QED
    BY <1>2, <1>6, <1>10

-----------------------------------------------------------------------------
(* Frames                                                                  *)

(* The matrix that runs and its groups. *)
LEMMA KindFacts ==
    ASSUME runnables \in {<<"bench", "tcp", "http">>, <<"tcp", "http">>, <<"http">>, <<"bench">>, <<"tcp">>}
    PROVE  kind \in Kinds /\ Len(Modes) \in Nat \ {0} /\ Grouped(Modes, Len(Modes), Groups)
<1>1. kind \in Kinds
    BY DEF kind, Kinds
<1>2. Modes \in Seq(STRING) \ {<<>>}
    BY <1>1, HarnessAssumption DEF Modes
<1>3. Len(Modes) \in Nat \ {0}
    BY <1>2
<1> QED
    BY <1>1, <1>3, GroupsCover DEF Groups

(* Only the end of a matrix changes what the loops go through. *)
LEMMA MatrixFrame ==
    ASSUME UNCHANGED runnables
    PROVE  kind' = kind /\ Modes' = Modes /\ Groups' = Groups /\ Cells' = Cells
BY DEF kind, Modes, Groups, Cells

(* The scenario the loops are at is one of the table. *)
LEMMA HereFacts ==
    ASSUME TypeOK
    PROVE  /\ Here \in 1 .. Len(Modes) /\ Len(Modes) \in Nat \ {0}
           /\ Cell = <<at.e, Here>> /\ Cell \in Cells /\ at.e \in 1 .. NumEngines
           /\ at.r \in Nat \ {0} /\ at.r <= Rounds + 1
           /\ Rounds \in Nat /\ NumEngines \in Nat \ {0}
<1>1. at.g \in 1 .. Len(Groups) /\ at.s \in 1 .. Len(Groups[at.g]) /\ at.e \in Engines /\ at.r \in 1 .. Rounds + 1
    BY DEF TypeOK
<1>2. Len(Modes) \in Nat \ {0} /\ Grouped(Modes, Len(Modes), Groups)
    BY KindFacts DEF TypeOK
<1>3. Here \in 1 .. Len(Modes)
    BY <1>1, <1>2 DEF Grouped, Here
<1>4. Rounds \in Nat /\ NumEngines \in Nat \ {0}
    BY HarnessAssumption
<1>5. Cell = <<at.e, Here>>
    BY DEF Cell, Here
<1>6. Cell \in Cells
    BY <1>1, <1>3, <1>5 DEF Cells
<1>7. at.e \in 1 .. NumEngines /\ at.r \in Nat \ {0} /\ at.r <= Rounds + 1
    BY <1>1, <1>4 DEF Engines
<1> QED
    BY <1>2, <1>3, <1>4, <1>5, <1>6, <1>7

(* A matrix that begins. *)
Fresh ==
    /\ runnables \in {<<"bench", "tcp", "http">>, <<"tcp", "http">>, <<"http">>, <<"bench">>, <<"tcp">>}
    /\ built \subseteq Engines
    /\ at = Origin /\ phase = "checking" /\ interrupted = "no"
    /\ servers = [b \in DOMAIN servers |-> servers[b]] /\ DOMAIN servers = {}
    /\ port \in [{"tcp", "http"} -> Blocks \union {Free, Lingering}]
    /\ against \in Blocks \union {None}
    /\ sample = {}
    /\ tried = [c \in Cells |-> 0]

LEMMA FreshInv == Fresh => IndInv
<1> SUFFICES ASSUME Fresh PROVE IndInv
    OBVIOUS
<1>1. kind \in Kinds /\ Len(Modes) \in Nat \ {0} /\ Grouped(Modes, Len(Modes), Groups)
    BY KindFacts DEF Fresh
<1>2. Len(Groups) >= 1 /\ Len(Groups[1]) >= 1 /\ Groups[1][1] = 1 /\ Len(Groups) \in Nat /\ Len(Groups[1]) \in Nat
  <2>1. Groups \in Seq(Seq(Nat)) /\ Len(Groups) >= 1 /\ Groups[1][1] = 1
      BY <1>1, Zenon DEF Grouped
  <2>2. Len(Groups) \in Nat /\ 1 \in 1 .. Len(Groups)
      BY <2>1
  <2> QED
      BY <2>1, <2>2, <1>1, OneGroup
<1>3. at.r = 1 /\ at.e = 1 /\ at.g = 1 /\ at.s = 1 /\ at = Origin
    BY DEF Fresh, Origin
<1>4. TypeOK
  <2>1. at \in [r : 1 .. Rounds + 1, e : Engines, g : 1 .. Len(Groups), s : Nat] /\ at.s \in 1 .. Len(Groups[at.g])
      BY <1>2, <1>3, HarnessAssumption DEF Origin, Engines
  <2>2. tried \in [Cells -> 0 .. Rounds]
      BY HarnessAssumption DEF Fresh
  <2> QED
      BY <2>1, <2>2 DEF Fresh, TypeOK, Phases
<1>5. Here = 1
    BY <1>2, <1>3 DEF Here
<1>6. LoopInv
    BY <1>3, HarnessAssumption DEF Fresh, LoopInv, Origin
<1>7. ServerInv
    BY DEF Fresh, ServerInv
<1>8. SampleInv
    BY DEF Fresh, SampleInv
<1>9. TriedInv
  <2>1. ASSUME NEW c \in Cells
        PROVE  tried[c] = IF c[1] \notin built THEN 0 ELSE IF Ahead(c, 0) THEN at.r ELSE at.r - 1
      BY <1>3 DEF Fresh, Ahead, Cells, Engines
  <2> QED
      BY <2>1, <1>5 DEF Fresh, TriedInv
<1> QED
    BY <1>4, <1>6, <1>7, <1>8, <1>9 DEF IndInv

(* The same of the next state. *)
LEMMA FreshNext == Fresh' => IndInv'
BY FreshInv, PTL

LEMMA SampleFrame ==
    ASSUME SampleInv, UNCHANGED <<runnables, sample>>
    PROVE  SampleInv'
BY MatrixFrame DEF SampleInv, Measured, Blocks, Kinds, Engines

LEMMA LoopFrame ==
    ASSUME LoopInv, UNCHANGED <<runnables, built, at, phase, interrupted>>
    PROVE  LoopInv'
BY MatrixFrame DEF LoopInv, Origin

(* Which scenarios have been run stays what it was while the loops stay. *)
LEMMA TriedFrame ==
    ASSUME TriedInv, UNCHANGED <<runnables, built, at, tried>>,
           phase' \in {"checking", "engine", "started", "settle", "drive", "emit", "ended"} =>
               phase \in {"checking", "engine", "started", "settle", "drive", "emit", "ended"},
           phase' \in {"running", "hung"} => phase \in {"running", "hung"},
           phase' \in {"finally", "waiting", "pausing"} /\ interrupted' = "no" =>
               phase \in {"running", "hung"} \/ (phase \in {"finally", "waiting", "pausing"} /\ interrupted = "no")
    PROVE  TriedInv'
<1> DEFINE Exact(d) == \A c \in Cells : tried[c] = IF c[1] \notin built THEN 0
                                                  ELSE IF Ahead(c, d) THEN at.r ELSE at.r - 1
<1>1. Here' = Here /\ Cells' = Cells
    BY MatrixFrame DEF Here
<1>2. \A d : Exact(d)' <=> Exact(d)
    BY <1>1 DEF Ahead
<1> HIDE DEF Exact
<1>3. PICK d \in {Here - 1, Here} :
        /\ phase \in {"checking", "engine", "started", "settle", "drive", "emit", "ended"} => d = Here - 1
        /\ phase \in {"running", "hung"} => d = Here
        /\ phase \in {"finally", "waiting", "pausing"} /\ interrupted = "no" => d = Here
        /\ at.r = Rounds + 1 => d = 0
        /\ Exact(d)
    BY DEF TriedInv, Exact
<1>4. /\ d \in {Here' - 1, Here'}
      /\ phase' \in {"checking", "engine", "started", "settle", "drive", "emit", "ended"} => d = Here' - 1
      /\ phase' \in {"running", "hung"} => d = Here'
      /\ phase' \in {"finally", "waiting", "pausing"} /\ interrupted' = "no" => d = Here'
      /\ at'.r = Rounds + 1 => d = 0
      /\ Exact(d)'
    BY <1>1, <1>2, <1>3
<1> QED
    BY <1>4 DEF TriedInv, Exact

(* A step of the harness that only goes on to its next phase. *)
LEMMA PhaseStep ==
    ASSUME IndInv, UNCHANGED <<runnables, built, at, servers, port, against, tried>>,
           phase' \in Phases, interrupted' \in Phases \union {"no"}, LoopInv', SampleInv',
           phase' \in {"checking", "engine", "pausing", "emit", "ended"} => DOMAIN servers = {},
           phase' = "waiting" \/ (phase' = "aborted" /\ interrupted' \notin {"started", "finally"}) =>
               \A b \in DOMAIN servers : servers[b] = "terminated",
           phase' # "running",
           phase' \in {"checking", "engine", "started", "settle", "drive", "emit", "ended"} =>
               phase \in {"checking", "engine", "started", "settle", "drive", "emit", "ended"},
           phase' \in {"running", "hung"} => phase \in {"running", "hung"},
           phase' \in {"finally", "waiting", "pausing"} /\ interrupted' = "no" =>
               phase \in {"running", "hung"} \/ (phase \in {"finally", "waiting", "pausing"} /\ interrupted = "no")
    PROVE  IndInv'
<1>1. kind' = kind /\ Modes' = Modes /\ Groups' = Groups /\ Cells' = Cells
    BY MatrixFrame
<1>2. TypeOK'
    BY <1>1 DEF IndInv, TypeOK, SampleInv, Measured, Phases, Blocks, Kinds, Engines, Free, Lingering, None, Nobody
<1>3. ServerInv'
    BY <1>1 DEF IndInv, ServerInv, Block
<1>4. TriedInv'
    BY TriedFrame DEF IndInv
<1> QED
    BY <1>2, <1>3, <1>4 DEF IndInv

(* A step of a server, of a port or of a driver. *)
LEMMA ProcessStep ==
    ASSUME IndInv, UNCHANGED <<runnables, built, at, phase, interrupted, sample, tried>>,
           ServerInv',
           DOMAIN servers' \subseteq Blocks,
           \A b \in DOMAIN servers' : servers'[b] \in {"starting", "listening", "terminated"},
           port' \in [{"tcp", "http"} -> Blocks \union {Free, Lingering}],
           against' \in Blocks \union {None}
    PROVE  IndInv'
<1>1. kind' = kind /\ Modes' = Modes /\ Groups' = Groups /\ Cells' = Cells
    BY MatrixFrame
<1>2. TypeOK'
    BY <1>1 DEF IndInv, TypeOK, Blocks, Kinds, Engines, Free, Lingering, None, Nobody
<1>3. LoopInv' /\ SampleInv' /\ TriedInv'
    BY LoopFrame, SampleFrame, TriedFrame DEF IndInv
<1> QED
    BY <1>2, <1>3 DEF IndInv

-----------------------------------------------------------------------------
(* The processes                                                           *)

LEMMA BindInv == ASSUME IndInv, NEW b \in DOMAIN servers, Bind(b) PROVE IndInv'
<1>1. b \in Blocks /\ DOMAIN servers' = DOMAIN servers
    BY DEF IndInv, TypeOK, Bind
<1>2. /\ \A x \in DOMAIN servers' : servers'[x] \in {"starting", "listening", "terminated"}
      /\ port' \in [{"tcp", "http"} -> Blocks \union {Free, Lingering}]
    BY <1>1 DEF IndInv, TypeOK, Bind
<1>3. ServerInv'
  <2>1. kind' = kind /\ Block' = Block
      BY MatrixFrame DEF Bind, Block
  <2>2. servers' = [x \in DOMAIN servers' |-> servers'[x]]
      BY DEF Bind
  <2>3. phase # "waiting" /\ (phase = "aborted" => interrupted \in {"started", "finally"})
      BY DEF IndInv, ServerInv, Bind
  <2> QED
      BY <2>1, <2>2, <2>3, <1>1 DEF IndInv, ServerInv, Bind
<1> QED
    BY <1>1, <1>2, <1>3, ProcessStep DEF IndInv, TypeOK, Bind

LEMMA ServerEndsInv == ASSUME IndInv, NEW b \in DOMAIN servers, ServerEnds(b) PROVE IndInv'
<1>1. /\ DOMAIN servers' = DOMAIN servers \ {b}
      /\ \A x \in DOMAIN servers' : servers'[x] = servers[x]
      /\ servers' = [x \in DOMAIN servers' |-> servers'[x]]
    BY DEF ServerEnds, Without
<1>2. port' \in [{"tcp", "http"} -> Blocks \union {Free, Lingering}]
    BY DEF IndInv, TypeOK, ServerEnds
<1>3. ServerInv'
  <2>1. kind' = kind /\ Block' = Block
      BY MatrixFrame DEF ServerEnds, Block
  <2> QED
      BY <2>1, <1>1 DEF IndInv, ServerInv, ServerEnds
<1> QED
    BY <1>1, <1>2, <1>3, ProcessStep DEF IndInv, TypeOK, ServerEnds

LEMMA PortFreesInv == ASSUME IndInv, NEW k \in {"tcp", "http"}, PortFrees(k) PROVE IndInv'
<1>1. port' \in [{"tcp", "http"} -> Blocks \union {Free, Lingering}]
    BY DEF IndInv, TypeOK, PortFrees
<1>2. ServerInv'
    BY MatrixFrame DEF IndInv, ServerInv, PortFrees, Block
<1> QED
    BY <1>1, <1>2, ProcessStep DEF IndInv, TypeOK, PortFrees

LEMMA DriverConnectsInv == ASSUME IndInv, DriverConnects PROVE IndInv'
<1>1. ServerInv'
    BY MatrixFrame DEF IndInv, ServerInv, DriverConnects, Block
<1> QED
    BY <1>1, ProcessStep DEF IndInv, TypeOK, DriverConnects

-----------------------------------------------------------------------------
(* The harness from phase to phase                                         *)

LEMMA CheckInv == ASSUME IndInv, Check PROVE IndInv'
<1>1. at = Origin /\ at.r = 1 /\ at.s = 1 /\ interrupted = "no"
    BY DEF IndInv, LoopInv, Check, Origin
<1>2. LoopInv'
    BY <1>1, MatrixFrame, HarnessAssumption DEF IndInv, LoopInv, Check, Origin
<1>3. SampleInv'
    BY SampleFrame DEF IndInv, Check
<1> QED
    BY <1>2, <1>3, PhaseStep DEF Check, IndInv, TypeOK, ServerInv, Phases

LEMMA CheckFailsInv == ASSUME IndInv, CheckFails PROVE IndInv'
<1>1. LoopInv'
    BY MatrixFrame DEF IndInv, LoopInv, CheckFails, Origin
<1>2. SampleInv'
    BY SampleFrame DEF IndInv, CheckFails
<1> QED
    BY <1>1, <1>2, PhaseStep DEF CheckFails, IndInv, TypeOK, ServerInv, Phases

LEMMA EnterInv == ASSUME IndInv, Enter PROVE IndInv'
<1>1. LoopInv'
    BY MatrixFrame DEF IndInv, LoopInv, Enter, Origin
<1>2. SampleInv'
    BY SampleFrame DEF IndInv, Enter
<1> QED
    BY <1>1, <1>2, PhaseStep DEF Enter, IndInv, TypeOK, ServerInv, Phases

LEMMA TryInv == ASSUME IndInv, Try PROVE IndInv'
<1>1. LoopInv'
    BY MatrixFrame DEF IndInv, LoopInv, Try, Origin
<1>2. SampleInv'
    BY SampleFrame DEF IndInv, Try
<1> QED
    BY <1>1, <1>2, PhaseStep DEF Try, IndInv, TypeOK, ServerInv, Phases

LEMMA SettledInv == ASSUME IndInv, Settled PROVE IndInv'
<1>1. LoopInv'
    BY MatrixFrame DEF IndInv, LoopInv, Settled, Origin
<1>2. SampleInv'
    BY SampleFrame DEF IndInv, Settled
<1> QED
    BY <1>1, <1>2, PhaseStep DEF Settled, IndInv, TypeOK, ServerInv, Phases

LEMMA HangsInv == ASSUME IndInv, Hangs PROVE IndInv'
<1>1. LoopInv'
    BY MatrixFrame DEF IndInv, LoopInv, Hangs, Origin
<1>2. SampleInv'
    BY SampleFrame DEF IndInv, Hangs
<1> QED
    BY <1>1, <1>2, PhaseStep DEF Hangs, IndInv, TypeOK, ServerInv, Phases

(* proc.wait() returns: the server of the block is gone, and there was no  *)
(* other.                                                                  *)
LEMMA WaitInv == ASSUME IndInv, Wait PROVE IndInv'
<1>1. LoopInv'
    BY MatrixFrame DEF IndInv, LoopInv, Wait, Origin
<1>2. SampleInv'
    BY SampleFrame DEF IndInv, Wait
<1>3. DOMAIN servers = {}
    BY DEF IndInv, ServerInv, Wait
<1> QED
    BY <1>1, <1>2, <1>3, PhaseStep DEF Wait, IndInv, TypeOK, ServerInv, Phases

(* Ctrl-C, wherever the harness is. *)
LEMMA InterruptInv == ASSUME IndInv, Interrupt PROVE IndInv'
<1>1. LoopInv'
    BY MatrixFrame DEF IndInv, LoopInv, Interrupt, Origin
<1>2. SampleInv'
    BY SampleFrame DEF IndInv, Interrupt
<1>3. phase' \in {"finally", "aborted"} /\ interrupted' = phase /\ phase \in Phases /\ interrupted' # "no"
    BY DEF IndInv, TypeOK, Interrupt, Phases
<1>4. phase' = "aborted" /\ interrupted' \notin {"started", "finally"} => \A b \in DOMAIN servers : servers[b] = "terminated"
    BY <1>3 DEF IndInv, TypeOK, LoopInv, ServerInv, Interrupt, Phases
<1> QED
    BY <1>1, <1>2, <1>3, <1>4, PhaseStep DEF Interrupt, Phases

(* A server is started where none is alive (bench.py:374-377). *)
LEMMA PopenInv == ASSUME IndInv, Popen PROVE IndInv'
<1>1. kind' = kind /\ Modes' = Modes /\ Groups' = Groups /\ Cells' = Cells /\ Block' = Block
    BY MatrixFrame DEF Popen, Block
<1>2. DOMAIN servers = {} /\ servers' = [b \in {Block} |-> "starting"]
    BY DEF Popen, IndInv, ServerInv
<1>3. DOMAIN servers' = {Block} /\ servers'[Block] = "starting" /\ servers' = [b \in DOMAIN servers' |-> servers'[b]]
    BY <1>2
<1>4. kind \in Kinds /\ Block \in Blocks
  <2>1. kind \in Kinds
      BY KindFacts DEF IndInv, TypeOK
  <2>2. at.r \in 1 .. Rounds /\ at.e \in Engines /\ at.g \in Nat
    <3>1. at.r \in Nat \ {0} /\ at.r <= Rounds + 1 /\ Rounds \in Nat
        BY HereFacts DEF IndInv
    <3>2. at.r # Rounds + 1
        BY DEF IndInv, LoopInv, Popen
    <3>3. at.e \in Engines /\ at.g \in Nat
        BY DEF IndInv, TypeOK
    <3> QED
        BY <3>1, <3>2, <3>3
  <2> QED
      BY <2>1, <2>2 DEF Block, Blocks
<1>5. TypeOK'
  <2>1. DOMAIN servers' \subseteq Blocks /\ \A b \in DOMAIN servers' : servers'[b] \in {"starting", "listening", "terminated"}
      BY <1>3, <1>4
  <2> QED
      BY <2>1, <1>1 DEF Popen, IndInv, TypeOK, Phases, Blocks, Kinds, Engines, Free, Lingering, None, Nobody
<1>6. LoopInv'
    BY <1>1 DEF IndInv, LoopInv, Popen, Origin
<1>7. ServerInv'
    BY <1>1, <1>3 DEF Popen, ServerInv
<1>8. SampleInv' /\ TriedInv'
    BY SampleFrame, TriedFrame DEF IndInv, Popen
<1> QED
    BY <1>5, <1>6, <1>7, <1>8 DEF IndInv

(* The server of the block is told to end (bench.py:388-389). *)
LEMMA TerminateInv == ASSUME IndInv, Terminate PROVE IndInv'
<1>1. kind' = kind /\ Modes' = Modes /\ Groups' = Groups /\ Cells' = Cells /\ Block' = Block
    BY MatrixFrame DEF Terminate, Block
<1>2. /\ DOMAIN servers' = DOMAIN servers /\ servers' = [b \in DOMAIN servers' |-> servers'[b]]
      /\ \A b \in DOMAIN servers' : servers'[b] = "terminated"
    BY DEF Terminate, IndInv, ServerInv
<1>3. TypeOK'
  <2>1. DOMAIN servers' \subseteq Blocks /\ \A b \in DOMAIN servers' : servers'[b] \in {"starting", "listening", "terminated"}
      BY <1>2 DEF IndInv, TypeOK
  <2> QED
      BY <2>1, <1>1 DEF Terminate, IndInv, TypeOK, Phases, Blocks, Kinds, Engines, Free, Lingering, None, Nobody
<1>4. LoopInv'
    BY <1>1 DEF IndInv, LoopInv, Terminate, Origin
<1>5. ServerInv'
    BY <1>1, <1>2 DEF Terminate, IndInv, ServerInv
<1>6. SampleInv' /\ TriedInv'
    BY SampleFrame, TriedFrame DEF IndInv, Terminate
<1> QED
    BY <1>3, <1>4, <1>5, <1>6 DEF IndInv

-----------------------------------------------------------------------------
(* The loops                                                               *)

(* How often the cells have been run when d scenarios of the engine are    *)
(* done.                                                                   *)
Exact(d) ==
    \A c \in Cells : tried[c] = IF c[1] \notin built THEN 0
                                ELSE IF Ahead(c, d) THEN at.r ELSE at.r - 1

(* The program of a cell is started once (bench.py:381). *)
LEMMA DriveInv == ASSUME IndInv, Drive PROVE IndInv'
<1>1. kind' = kind /\ Modes' = Modes /\ Groups' = Groups /\ Cells' = Cells /\ Block' = Block /\ Here' = Here
    BY MatrixFrame DEF Drive, Block, Here
<1>2. /\ Here \in 1 .. Len(Modes) /\ Len(Modes) \in Nat \ {0} /\ Cell = <<at.e, Here>> /\ Cell \in Cells
      /\ at.r \in Nat \ {0} /\ at.r <= Rounds /\ Rounds \in Nat /\ at.e \in 1 .. NumEngines /\ NumEngines \in Nat
    BY HereFacts DEF IndInv, LoopInv, Drive
<1>3. Exact(Here - 1)
    BY DEF IndInv, TriedInv, Drive, Exact
<1>4. at.e \in built
    BY DEF IndInv, LoopInv, Drive
<1>5. tried \in [Cells -> 0 .. Rounds] /\ tried' = [tried EXCEPT ![Cell] = @ + 1]
    BY DEF IndInv, TypeOK, Drive
<1>6. ASSUME NEW c \in Cells
      PROVE  /\ tried'[c] = IF c[1] \notin built THEN 0
                            ELSE IF Ahead(c, Here) THEN at.r ELSE at.r - 1
             /\ tried'[c] \in 0 .. Rounds
  <2>1. c[1] \in 1 .. NumEngines /\ c[2] \in 1 .. Len(Modes) /\ c = <<c[1], c[2]>>
      BY DEF Cells, Engines
  <2>2. CASE c = Cell
    <3>1. c[1] = at.e /\ c[2] = Here
        BY <2>2, <1>2
    <3>2. tried[c] = at.r - 1
        BY <3>1, <1>2, <1>3, <1>4 DEF Exact, Ahead
    <3> QED
        BY <3>1, <3>2, <2>2, <1>2, <1>4, <1>5 DEF Ahead
  <2>3. CASE c # Cell
    <3>1. c[1] # at.e \/ c[2] # Here
        BY <2>1, <2>3, <1>2
    <3>2. Ahead(c, Here) <=> Ahead(c, Here - 1)
        BY <3>1, <2>1, <1>2 DEF Ahead
    <3> QED
        BY <3>2, <2>3, <1>3, <1>5 DEF Exact
  <2> QED
      BY <2>2, <2>3
<1>7. TriedInv'
  <2>1. \A c \in Cells' : tried'[c] = IF c[1] \notin built' THEN 0
                                      ELSE IF Ahead(c, Here)' THEN at'.r ELSE at'.r - 1
      BY <1>1, <1>6 DEF Drive, Ahead
  <2>2. phase' = "running" /\ at' = at
      BY DEF Drive
  <2> QED
      BY <2>1, <2>2, <1>1, <1>2 DEF TriedInv
<1>8. TypeOK'
  <2>1. tried' \in [Cells -> 0 .. Rounds]
      BY <1>5, <1>6
  <2> QED
      BY <2>1, <1>1 DEF Drive, IndInv, TypeOK, Phases, Blocks, Kinds, Engines, Free, Lingering, None, Nobody
<1>9. LoopInv'
    BY <1>1 DEF IndInv, LoopInv, Drive, Origin
<1>10. ServerInv'
    BY <1>1 DEF Drive, IndInv, ServerInv
<1>11. SampleInv'
    BY SampleFrame DEF IndInv, Drive
<1> QED
    BY <1>7, <1>8, <1>9, <1>10, <1>11 DEF IndInv

(* The loops move on to the start of a group: the invariant holds there if *)
(* the counts fit.                                                         *)
LEMMA GroupStep ==
    ASSUME IndInv, UNCHANGED <<runnables, built, interrupted, servers, port, against, tried>>,
           SampleInv', interrupted = "no", DOMAIN servers = {},
           phase' = IF at'.r > Rounds THEN "emit" ELSE "engine",
           at' \in [r : 1 .. Rounds + 1, e : Engines, g : 1 .. Len(Groups), s : Nat], at'.s = 1,
           at'.r = Rounds + 1 => at' = [Origin EXCEPT !.r = Rounds + 1],
           Exact(Here - 1)'
    PROVE  IndInv'
<1>1. kind' = kind /\ Modes' = Modes /\ Groups' = Groups /\ Cells' = Cells
    BY MatrixFrame
<1>2. Len(Modes) \in Nat \ {0} /\ Grouped(Modes, Len(Modes), Groups)
    BY KindFacts DEF IndInv, TypeOK
<1>3. at'.g \in 1 .. Len(Groups) /\ Len(Groups[at'.g]) \in Nat /\ Len(Groups[at'.g]) >= 1 /\ Groups[1][1] = 1
  <2>1. at'.g \in 1 .. Len(Groups)
      OBVIOUS
  <2>2. Groups[1][1] = 1
      BY <1>2, Zenon DEF Grouped
  <2> QED
      BY <2>1, <2>2, <1>2, OneGroup
<1>4. TypeOK'
  <2>1. at'.s \in 1 .. Len(Groups[at'.g])
      BY <1>3
  <2>2. phase' \in Phases
      BY DEF Phases
  <2> QED
      BY <2>1, <2>2, <1>1 DEF IndInv, TypeOK, SampleInv, Measured, Phases, Blocks, Kinds, Engines, Free, Lingering, None, Nobody
<1>5. at'.r \in 1 .. Rounds + 1 /\ Rounds \in Nat /\ at'.s = 1
    BY HarnessAssumption
<1>6. LoopInv'
    BY <1>1, <1>5 DEF LoopInv, Origin
<1>7. ServerInv'
    BY <1>1 DEF IndInv, ServerInv
<1>8. Here' = Groups[at'.g][1] /\ Here' \in Nat
  <2>1. Here' = Groups[at'.g][1]
      BY <1>1 DEF Here
  <2>2. 1 \in 1 .. Len(Groups[at'.g])
      BY <1>3
  <2>3. Groups[at'.g][1] \in 1 .. Len(Modes)
      BY <2>2, <1>2, <1>3 DEF Grouped
  <2> QED
      BY <2>1, <2>3, <1>2
<1>9. at'.r = Rounds + 1 => Here' - 1 = 0
    BY <1>3, <1>8 DEF Origin
<1>10. TriedInv'
    BY <1>5, <1>8, <1>9 DEF TriedInv, Exact
<1> QED
    BY <1>4, <1>6, <1>7, <1>10 DEF IndInv

(* The next engine, or the next round (bench.py:367-368), when all         *)
(* scenarios of this one have been run.                                    *)
LEMMA NextEngineStep ==
    ASSUME IndInv, UNCHANGED <<runnables, built, interrupted, servers, port, against, tried>>,
           SampleInv', interrupted = "no", DOMAIN servers = {}, at.r <= Rounds,
           at' = NextEngine, phase' = IF at'.r > Rounds THEN "emit" ELSE "engine",
           at.e \in built => Exact(Len(Modes)), at.e \notin built => \E d : Exact(d)
    PROVE  IndInv'
<1>1. kind' = kind /\ Modes' = Modes /\ Groups' = Groups /\ Cells' = Cells
    BY MatrixFrame
<1>2. Len(Modes) \in Nat \ {0} /\ Grouped(Modes, Len(Modes), Groups)
    BY KindFacts DEF IndInv, TypeOK
<1>3. /\ at.r \in Nat \ {0} /\ at.r <= Rounds /\ Rounds \in Nat
      /\ at.e \in 1 .. NumEngines /\ NumEngines \in Nat \ {0}
    BY HereFacts DEF IndInv
<1>4. Len(Groups) \in Nat /\ Len(Groups) >= 1 /\ Groups[1][1] = 1
    BY <1>2 DEF Grouped
<1>5. /\ at'.g = 1 /\ at'.s = 1
      /\ at.e < NumEngines => at'.r = at.r /\ at'.e = at.e + 1
      /\ ~(at.e < NumEngines) => at'.r = at.r + 1 /\ at'.e = 1 /\ at' = [Origin EXCEPT !.r = at.r + 1]
    BY DEF NextEngine, Origin
<1>6. at' \in [r : 1 .. Rounds + 1, e : Engines, g : 1 .. Len(Groups), s : Nat]
  <2>1. at' = [r |-> at'.r, e |-> at'.e, g |-> 1, s |-> 1]
      BY <1>5 DEF NextEngine, Origin
  <2>2. at'.r \in 1 .. Rounds + 1 /\ at'.e \in Engines /\ 1 \in 1 .. Len(Groups)
    <3>1. 1 \in 1 .. Len(Groups)
        BY <1>4
    <3>2. CASE at.e < NumEngines
        BY <1>3, <1>5, <3>1, <3>2 DEF Engines
    <3>3. CASE ~(at.e < NumEngines)
        BY <1>3, <1>5, <3>1, <3>3 DEF Engines
    <3> QED
        BY <3>2, <3>3
  <2> QED
      BY <2>1, <2>2
<1>7. at'.r = Rounds + 1 => at' = [Origin EXCEPT !.r = Rounds + 1]
    BY <1>3, <1>5
<1>8. Here' - 1 = 0
    BY <1>1, <1>4, <1>5 DEF Here
<1>9. ASSUME NEW c \in Cells
      PROVE  tried[c] = IF c[1] \notin built THEN 0
                        ELSE IF c[1] < at'.e \/ (c[1] = at'.e /\ c[2] <= 0) THEN at'.r ELSE at'.r - 1
  <2>1. c[1] \in 1 .. NumEngines /\ c[2] \in 1 .. Len(Modes)
      BY DEF Cells, Engines
  <2>2. tried[c] = IF c[1] \notin built THEN 0 ELSE IF c[1] <= at.e THEN at.r ELSE at.r - 1
    <3>1. CASE at.e \in built
        BY <3>1, <2>1, <1>2, <1>3 DEF Exact, Ahead
    <3>2. CASE at.e \notin built
      <4>1. PICK d : Exact(d)
          BY <3>2
      <4>2. CASE c[1] = at.e
          BY <4>1, <4>2, <3>2 DEF Exact
      <4>3. CASE c[1] # at.e
          BY <4>1, <4>3, <2>1, <1>3 DEF Exact, Ahead
      <4> QED
          BY <4>2, <4>3
    <3> QED
        BY <3>1, <3>2
  <2> QED
      BY <2>1, <2>2, <1>2, <1>3, <1>5
<1>10. Exact(Here - 1)'
  <2>1. \A c \in Cells' : tried'[c] = IF c[1] \notin built' THEN 0
                                      ELSE IF c[1] < at'.e \/ (c[1] = at'.e /\ c[2] <= Here' - 1) THEN at'.r ELSE at'.r - 1
      BY <1>1, <1>8, <1>9
  <2> QED
      BY <2>1 DEF Exact, Ahead
<1> QED
    BY <1>5, <1>6, <1>7, <1>10, GroupStep

(* The end of a group: the next group, or the next engine. *)
LEMMA AdvanceStep ==
    ASSUME IndInv, UNCHANGED <<runnables, built, interrupted, servers, port, against, tried>>,
           SampleInv', interrupted = "no", DOMAIN servers = {}, Advance,
           phase \in {"running", "pausing"}, at.s = Len(Groups[at.g])
    PROVE  IndInv'
<1>1. kind' = kind /\ Modes' = Modes /\ Groups' = Groups /\ Cells' = Cells
    BY MatrixFrame
<1>2. Len(Modes) \in Nat \ {0} /\ Grouped(Modes, Len(Modes), Groups)
    BY KindFacts DEF IndInv, TypeOK
<1>3. at.r \in Nat \ {0} /\ at.r <= Rounds /\ Rounds \in Nat
    BY HereFacts DEF IndInv, LoopInv
<1>4. Exact(Here)
    BY DEF IndInv, TriedInv, Exact
<1>5. at \in [r : 1 .. Rounds + 1, e : Engines, g : 1 .. Len(Groups), s : Nat] /\ Len(Groups) \in Nat
    BY <1>2 DEF IndInv, TypeOK, Grouped
<1>6. CASE at.g < Len(Groups)
  <2>1. at' = [at EXCEPT !.g = @ + 1, !.s = 1]
      BY <1>6 DEF Advance
  <2>2. at'.g = at.g + 1 /\ at'.s = 1 /\ at'.r = at.r /\ at'.e = at.e
      BY <2>1, <1>5
  <2>3. at' \in [r : 1 .. Rounds + 1, e : Engines, g : 1 .. Len(Groups), s : Nat]
    <3>1. at.g + 1 \in 1 .. Len(Groups)
        BY <1>5, <1>6
    <3> QED
        BY <2>1, <3>1, <1>5
  <2>4. Here' = Here + 1 /\ Here \in Nat
    <3>1. at.g \in 1 .. Len(Groups) - 1
        BY <1>5, <1>6
    <3>2. Groups[at.g + 1][1] = Groups[at.g][Len(Groups[at.g])] + 1
        BY <3>1, <1>2 DEF Grouped
    <3>3. Here \in Nat
        BY HereFacts DEF IndInv
    <3> QED
        BY <3>2, <3>3, <2>2, <1>1 DEF Here
  <2>5. Exact(Here - 1)'
    <3>1. \A c \in Cells' : tried'[c] = IF c[1] \notin built' THEN 0
                                        ELSE IF c[1] < at'.e \/ (c[1] = at'.e /\ c[2] <= Here' - 1) THEN at'.r ELSE at'.r - 1
      <4>1. Here' - 1 = Here
          BY <2>4
      <4> QED
          BY <4>1, <2>2, <1>1, <1>4 DEF Exact, Ahead
    <3> QED
        BY <3>1 DEF Exact, Ahead
  <2>6. at'.r # Rounds + 1 /\ phase' = IF at'.r > Rounds THEN "emit" ELSE "engine"
      BY <2>2, <1>3 DEF Advance
  <2> QED
      BY <2>2, <2>3, <2>5, <2>6, GroupStep
<1>7. CASE ~(at.g < Len(Groups))
  <2>1. at.g = Len(Groups)
      BY <1>5, <1>7
  <2>2. Here = Len(Modes)
      BY <2>1, <1>2 DEF Grouped, Here
  <2>3. Exact(Len(Modes))
      BY <2>2, <1>4
  <2>4. at' = NextEngine /\ phase' = IF at'.r > Rounds THEN "emit" ELSE "engine"
      BY <1>7 DEF Advance
  <2> QED
      BY <2>3, <2>4, <1>3, NextEngineStep
<1> QED
    BY <1>6, <1>7

(* subprocess.run has returned: the next scenario of the group, or the end *)
(* of the group.                                                           *)
LEMMA AfterRunStep ==
    ASSUME IndInv, UNCHANGED <<runnables, built, interrupted, servers, port, against, tried>>,
           SampleInv', phase = "running", AfterRun
    PROVE  IndInv'
<1>1. kind' = kind /\ Modes' = Modes /\ Groups' = Groups /\ Cells' = Cells
    BY MatrixFrame
<1>2. Len(Modes) \in Nat \ {0} /\ Grouped(Modes, Len(Modes), Groups)
    BY KindFacts DEF IndInv, TypeOK
<1>3. /\ at \in [r : 1 .. Rounds + 1, e : Engines, g : 1 .. Len(Groups), s : Nat]
      /\ at.s \in 1 .. Len(Groups[at.g]) /\ Len(Groups[at.g]) \in Nat
  <2>1. /\ at \in [r : 1 .. Rounds + 1, e : Engines, g : 1 .. Len(Groups), s : Nat]
        /\ at.s \in 1 .. Len(Groups[at.g]) /\ at.g \in 1 .. Len(Groups)
      BY DEF IndInv, TypeOK
  <2>2. Groups[at.g] \in Seq(Nat)
      BY <2>1, <1>2 DEF Grouped
  <2>3. Len(Groups[at.g]) \in Nat
      BY <2>2
  <2> QED
      BY <2>1, <2>3
<1>4. interrupted = "no" /\ at.r # Rounds + 1 /\ at.e \in built
    BY DEF IndInv, LoopInv
<1>5. CASE at.s < Len(Groups[at.g])
  <2>1. at' = [at EXCEPT !.s = @ + 1] /\ phase' = "drive"
      BY <1>5 DEF AfterRun
  <2>2. at'.s = at.s + 1 /\ at'.g = at.g /\ at'.r = at.r /\ at'.e = at.e
      BY <2>1, <1>3
  <2>3. at' \in [r : 1 .. Rounds + 1, e : Engines, g : 1 .. Len(Groups), s : Nat] /\ at'.s \in 1 .. Len(Groups[at'.g])
    <3>1. at.s + 1 \in Nat /\ at.s + 1 \in 1 .. Len(Groups[at.g])
        BY <1>3, <1>5
    <3> QED
        BY <2>1, <2>2, <3>1, <1>3
  <2>4. Here' = Here + 1 /\ Here \in Nat
    <3>1. at.s \in 1 .. Len(Groups[at.g]) - 1 /\ at.g \in 1 .. Len(Groups)
        BY <1>3, <1>5
    <3>2. Groups[at.g][at.s + 1] = Groups[at.g][at.s] + 1
        BY <3>1, <1>2 DEF Grouped
    <3>3. Here \in Nat
        BY HereFacts DEF IndInv
    <3> QED
        BY <3>2, <3>3, <2>2, <1>1 DEF Here
  <2>5. TypeOK'
    <3>1. phase' \in Phases
        BY <2>1 DEF Phases
    <3> QED
        BY <3>1, <2>3, <1>1 DEF IndInv, TypeOK, SampleInv, Measured, Blocks, Kinds, Engines
  <2>6. LoopInv'
      BY <2>1, <2>2, <1>1, <1>4 DEF LoopInv
  <2>7. ServerInv'
    <3>1. Block' = Block
        BY <2>2, <1>1 DEF Block
    <3> QED
        BY <3>1, <2>1, <1>1 DEF IndInv, ServerInv
  <2>8. TriedInv'
    <3>1. Exact(Here)
        BY DEF IndInv, TriedInv, Exact
    <3>2. Here' - 1 = Here
        BY <2>4
    <3>3. \A c \in Cells' : tried'[c] = IF c[1] \notin built' THEN 0
                                        ELSE IF c[1] < at'.e \/ (c[1] = at'.e /\ c[2] <= Here' - 1) THEN at'.r ELSE at'.r - 1
        BY <3>1, <3>2, <2>2, <1>1 DEF Exact, Ahead
    <3> QED
        BY <3>3, <2>1, <2>2, <1>4 DEF TriedInv, Ahead
  <2> QED
      BY <2>5, <2>6, <2>7, <2>8 DEF IndInv
<1>6. CASE ~(at.s < Len(Groups[at.g])) /\ kind = "bench"
  <2>1. at.s = Len(Groups[at.g]) /\ Advance
      BY <1>3, <1>6 DEF AfterRun
  <2>2. DOMAIN servers = {}
      BY <1>6 DEF IndInv, ServerInv
  <2> QED
      BY <2>1, <2>2, <1>4, AdvanceStep
<1>7. CASE ~(at.s < Len(Groups[at.g])) /\ kind # "bench"
  <2>1. at.s = Len(Groups[at.g]) /\ phase' = "finally" /\ at' = at
      BY <1>3, <1>7 DEF AfterRun
  <2>2. LoopInv'
      BY <2>1, <1>1, <1>4, <1>7 DEF LoopInv
  <2> QED
      BY <2>1, <2>2, PhaseStep DEF IndInv, TypeOK, Phases
<1> QED
    BY <1>5, <1>6, <1>7

(* The result of a driver goes to the cell and the server it has measured, *)
(* because no other server was there to connect to, also if that server    *)
(* has died since (bench.py:385-387).                                      *)
LEMMA KeepInv == ASSUME IndInv, Keep PROVE IndInv'
<1>1. kind' = kind /\ Modes' = Modes /\ Groups' = Groups /\ Cells' = Cells
    BY MatrixFrame DEF Keep
<1>2. against = Block /\ Block \in Blocks
  <2>1. against # None /\ against \in {None, Block} /\ against \in Blocks \union {None}
      BY DEF IndInv, TypeOK, ServerInv, Keep
  <2> QED
      BY <2>1, Zenon
<1>3. Modes[Here] = Modes[Groups[at.g][1]]
    BY KindFacts DEF IndInv, TypeOK, Grouped, Here
<1>4. Cell = <<at.e, Here>> /\ Cell \in Cells
    BY HereFacts DEF IndInv
<1>5. SampleInv'
  <2> DEFINE x == [cell |-> Cell, r |-> at.r, server |-> against]
  <2>1. sample' = {x}
      BY DEF Keep
  <2>2. x.cell[1] = at.e /\ x.cell[2] = Here /\ x.server.g = at.g /\ x.server.kind = kind /\ x.server.r = at.r /\ x.server.e = at.e
      BY <1>2, <1>4 DEF Block
  <2>3. Measured(x)
      BY <2>2, <1>2, <1>3, <1>4 DEF Measured
  <2>4. ASSUME NEW y \in sample' PROVE Measured(y)'
    <3>1. y = x
        BY <2>1
    <3>2. Measured(y)
        BY <2>3, <3>1
    <3> QED
        BY <3>2, <1>1 DEF Measured, Blocks, Kinds, Engines
  <2> QED
      BY <2>4 DEF SampleInv
<1> QED
    BY <1>5, AfterRunStep DEF Keep

LEMMA DiscardInv == ASSUME IndInv, Discard PROVE IndInv'
BY SampleFrame, AfterRunStep DEF IndInv, Discard

LEMMA RunOneInv == ASSUME IndInv, RunOne PROVE IndInv'
BY SampleFrame, AfterRunStep DEF IndInv, RunOne

(* An engine that was not built is left out (bench.py:250-252). *)
LEMMA SkipInv == ASSUME IndInv, Skip PROVE IndInv'
<1>1. interrupted = "no" /\ DOMAIN servers = {} /\ at.r <= Rounds
    BY HereFacts DEF IndInv, LoopInv, ServerInv, Skip
<1>2. \E d : Exact(d)
    BY DEF IndInv, TriedInv, Exact
<1>3. SampleInv'
    BY SampleFrame DEF IndInv, Skip
<1> QED
    BY <1>1, <1>2, <1>3, NextEngineStep DEF Skip

(* The end of a block, or of the harness after Ctrl-C (bench.py:391). *)
LEMMA PauseInv == ASSUME IndInv, Pause PROVE IndInv'
<1>1. DOMAIN servers = {} /\ SampleInv'
    BY SampleFrame DEF IndInv, ServerInv, Pause
<1>2. CASE interrupted # "no"
  <2>1. phase' = "aborted" /\ at' = at
      BY <1>2 DEF Pause
  <2>2. LoopInv'
      BY <2>1, <1>2, MatrixFrame DEF IndInv, LoopInv, Pause, Origin
  <2> QED
      BY <2>1, <2>2, <1>1, PhaseStep DEF IndInv, TypeOK, Phases, Pause
<1>3. CASE interrupted = "no"
  <2>1. at.s = Len(Groups[at.g])
      BY <1>3 DEF IndInv, LoopInv, Pause
  <2> QED
      BY <2>1, <1>1, <1>3, AdvanceStep DEF Pause
<1> QED
    BY <1>2, <1>3

(* The table is printed; the next matrix begins with counts of its own. *)
LEMMA EmitInv == ASSUME IndInv, Emit PROVE IndInv'
<1>1. DOMAIN servers = {} /\ sample' = {} /\ interrupted = "no" /\ phase = "emit"
    BY DEF IndInv, LoopInv, ServerInv, Emit
<1>2. CASE Len(runnables) = 1
  <2>1. phase' = "ended" /\ UNCHANGED <<runnables, built, at, interrupted, servers, port, against, tried>>
      BY <1>2 DEF Emit
  <2>2. LoopInv'
      BY <2>1, <1>1, MatrixFrame DEF IndInv, LoopInv, Origin
  <2>3. SampleInv'
      BY <1>1 DEF SampleInv
  <2> QED
      BY <2>1, <2>2, <2>3, <1>1, PhaseStep DEF IndInv, TypeOK, Phases
<1>3. CASE Len(runnables) > 1
  <2>0. runnables \in {<<"bench", "tcp", "http">>, <<"tcp", "http">>}
    <3>1. Len(<<"bench">>) = 1 /\ Len(<<"tcp">>) = 1 /\ Len(<<"http">>) = 1
        OBVIOUS
    <3>2. ASSUME runnables = <<"bench">> \/ runnables = <<"tcp">> \/ runnables = <<"http">> PROVE FALSE
      <4>1. Len(runnables) = 1
          BY <3>1, <3>2, Zenon
      <4> QED
          BY <4>1, <1>3
    <3>3. runnables \in {<<"bench", "tcp", "http">>, <<"tcp", "http">>, <<"http">>, <<"bench">>, <<"tcp">>}
        BY DEF IndInv, TypeOK
    <3> QED
        BY <3>2, <3>3, Zenon
  <2>1. /\ runnables' = Tail(runnables) /\ at' = Origin /\ phase' = "checking"
        /\ tried' = [c \in Engines \X (1 .. Len(Scenarios[Head(Tail(runnables))])) |-> 0]
        /\ built' \subseteq Engines /\ UNCHANGED <<interrupted, servers, port, against>>
    <3>1. Len(<<"bench", "tcp", "http">>) # 1 /\ Len(<<"tcp", "http">>) # 1
        OBVIOUS
    <3>2. Len(runnables) # 1
        BY <2>0, <3>1
    <3> QED
        BY <3>2 DEF Emit
  <2>2. runnables' \in {<<"bench", "tcp", "http">>, <<"tcp", "http">>, <<"http">>, <<"bench">>, <<"tcp">>}
    <3>1. Tail(<<"bench", "tcp", "http">>) = <<"tcp", "http">> /\ Tail(<<"tcp", "http">>) = <<"http">>
        OBVIOUS
    <3> QED
        BY <2>0, <2>1, <3>1
  <2>3. tried' = [c \in Cells' |-> 0]
      BY <2>1 DEF Cells, Modes, kind, Engines
  <2>4. Fresh'
      BY <2>1, <2>2, <2>3, <1>1 DEF IndInv, TypeOK, ServerInv, Fresh, Origin, Blocks, Kinds, Engines, Free, Lingering, None, Nobody
  <2> QED
      BY <2>4, FreshNext
<1> QED
    BY <1>2, <1>3 DEF Emit

-----------------------------------------------------------------------------
(* Theorems                                                                *)

LEMMA InitInv == Init => IndInv
<1> SUFFICES ASSUME Init PROVE Fresh
    BY FreshInv
<1>1. DOMAIN servers = {} /\ servers = [b \in DOMAIN servers |-> servers[b]]
    BY DEF Init
<1> QED
    BY <1>1 DEF Init, Fresh

LEMMA StepInv == ASSUME IndInv, [Next]_vars PROVE IndInv'
<1>1. CASE UNCHANGED vars
  <2>1. kind' = kind /\ Block' = Block
      BY <1>1, MatrixFrame DEF vars, Block
  <2>2. ServerInv'
      BY <1>1, <2>1 DEF vars, IndInv, ServerInv
  <2> QED
      BY <1>1, <2>2, ProcessStep DEF vars, IndInv, TypeOK
<1>2. CASE Harness
    BY <1>2, CheckInv, SkipInv, EnterInv, PopenInv, TryInv, SettledInv, DriveInv, KeepInv, DiscardInv,
       RunOneInv, TerminateInv, WaitInv, PauseInv, EmitInv DEF Harness
<1>3. CASE CheckFails \/ Interrupt \/ DriverConnects \/ Hangs
    BY <1>3, CheckFailsInv, InterruptInv, DriverConnectsInv, HangsInv
<1>4. CASE \E b \in DOMAIN servers : Server(b)
    BY <1>4, BindInv, ServerEndsInv DEF Server
<1>5. CASE \E k \in {"tcp", "http"} : PortFrees(k)
    BY <1>5, PortFreesInv
<1> QED
    BY <1>1, <1>2, <1>3, <1>4, <1>5 DEF Next

(***************************************************************************)
(* The invariant of the harness holds in every reachable state, for every  *)
(* number of rounds and engines and every table of scenarios.              *)
(***************************************************************************)
THEOREM Invariance == Spec => []IndInv
<1>1. IndInv /\ [Next]_vars => IndInv'
    BY StepInv
<1> QED
    BY <1>1, InitInv, PTL DEF Spec

(***************************************************************************)
(* Every throughput is entered in the cell of the engine and the mode it   *)
(* was measured with, although servers share a port and nobody looks at    *)
(* their exit status (bench.py:374-391).                                   *)
(***************************************************************************)
THEOREM ResultsBelong == Spec => []MeasuredAlone
<1>1. IndInv => MeasuredAlone
    BY DEF IndInv, ServerInv, SampleInv, Measured, MeasuredAlone
<1> QED
    BY <1>1, Invariance, PTL

(***************************************************************************)
(* When the harness ends by itself no server is left.  When Ctrl-C or a    *)
(* failed check ends it, every server still alive has been told to end     *)
(* (bench.py:388-391), except the one of the current block when Ctrl-C     *)
(* came after its Popen and before the try, or in the finally clause       *)
(* before terminate (bench.py:374-378, 388-389).                           *)
(***************************************************************************)
THEOREM NoServerLeft == Spec => []NoOrphan
<1>1. IndInv => NoOrphan
  <2> SUFFICES ASSUME IndInv PROVE NoOrphan
      OBVIOUS
  <2>1. ASSUME phase = "ended" PROVE servers = <<>>
    <3>1. DOMAIN servers = {} /\ servers = [b \in DOMAIN servers |-> servers[b]]
        BY <2>1 DEF IndInv, ServerInv
    <3> QED
        BY <3>1
  <2> QED
      BY <2>1 DEF IndInv, ServerInv, NoOrphan
<1> QED
    BY <1>1, Invariance, PTL

(***************************************************************************)
(* "Interleaved: every cell once per round" (bench.py:239): the cells of   *)
(* the engines that were built are never apart by more than one run, and   *)
(* each has been run once per round when the table is printed.             *)
(***************************************************************************)
THEOREM CellsInterleaved == Spec => []Interleaved
<1>1. IndInv => Interleaved
  <2> SUFFICES ASSUME IndInv PROVE Interleaved
      OBVIOUS
  <2>1. /\ at.r \in Nat \ {0} /\ Rounds \in Nat /\ Here \in 1 .. Len(Modes)
        /\ phase \in {"emit", "ended"} => at.r = Rounds + 1 /\ at.e = 1
      BY HereFacts DEF IndInv, LoopInv, Origin
  <2>2. PICK d : Exact(d) /\ (at.r = Rounds + 1 => d = 0)
      BY DEF IndInv, TriedInv, Exact
  <2>3. \A c \in Cells : c[1] \notin built => tried[c] = 0
      BY <2>2 DEF Exact
  <2>4. \A c \in Cells : c[1] \in built => tried[c] \in {at.r - 1, at.r}
      BY <2>2 DEF Exact
  <2>5. \A c, e \in Cells : c[1] \in built /\ e[1] \in built => tried[c] <= tried[e] + 1
      BY <2>1, <2>4
  <2>6. ASSUME phase \in {"emit", "ended"}, NEW c \in Cells, c[1] \in built PROVE tried[c] = Rounds
    <3>1. c[1] \in Nat /\ c[2] \in Nat /\ c[1] >= 1 /\ c[2] >= 1
        BY <2>1, HarnessAssumption DEF Cells, Engines
    <3>2. ~Ahead(c, d)
        BY <3>1, <2>1, <2>2, <2>6 DEF Ahead
    <3> QED
        BY <3>2, <2>1, <2>2, <2>6 DEF Exact
  <2> QED
      BY <2>3, <2>5, <2>6 DEF Interleaved, IndInv
<1> QED
    BY <1>1, Invariance, PTL
=============================================================================
