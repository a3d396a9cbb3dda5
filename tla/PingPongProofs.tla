--------------------------- MODULE PingPongProofs ---------------------------
(***************************************************************************)
(* The pairs of queue_ping_pong for every total, every number of pairs and *)
(* every way a pair ends: one message per pair, no send on a closed        *)
(* channel, and every pair bounces its share.                              *)
(***************************************************************************)
EXTENDS PingPong, TLAPS

(* Where the counter of pair i can be. *)
InChannel(i, p) == chan[i][p].buf # <<>>
InHand(i, p)    == pc[i][p] \in {"send", "release"}

(* The counter is in one place. *)
Single(i) ==
    \A p \in Players :
        /\ ~(InChannel(i, p) /\ InHand(i, p))
        /\ InChannel(i, p) \/ InHand(i, p) => ~InChannel(i, Peer(p)) /\ ~InHand(i, Peer(p))

(* Wherever the counter is, it counts the messages received. *)
Counts(i) ==
    \A p \in Players :
        /\ InChannel(i, p) => chan[i][p].buf = <<received[i]>>
        /\ InHand(i, p) => msg[i][p] = received[i]
        /\ pc[i][p] = "send" => received[i] < PerPair
        /\ pc[i][p] = "release" => ending = "release"
        /\ InChannel(i, p) /\ ending # "release" => received[i] < PerPair

(* A is started before B, and nothing happens to a pair before its start. *)
Starts(i) ==
    /\ stage[i] \in {"unborn", "asyncA"} => pc[i]["A"] = "unborn"
    /\ stage[i] \in {"inlineA", "asyncB", "inlineB", "await", "returned"} => pc[i]["A"] # "unborn"
    /\ pc[i]["B"] = "unborn" <=> stage[i] \in {"unborn", "asyncA", "inlineA", "asyncB", "failing", "failed"}
    /\ \A p \in Players : pc[i][p] = "unborn" => received[i] = 0 /\ ~InChannel(i, p) /\ msg[i][p] = 0
    /\ stage[i] = "returned" => \A p \in Players : pc[i][p] = "done"
    /\ stage[i] \in {"failing", "failed"} => ending = "close"

(* A channel is closed after the last message: nobody has anything to send. *)
Closes(i) ==
    (\E p \in Players : chan[i][p].closed) =>
        /\ received[i] = PerPair /\ ending # "release"
        /\ \A p \in Players : ~InChannel(i, p) /\ ~InHand(i, p)

(* PhotonLibOS: the task that reaches the limit releases its peer, which   *)
(* receives one message more and releases in turn.                         *)
Releases(i) ==
    ending = "release" =>
        /\ received[i] <= PerPair + 1
        /\ received[i] < PerPair => \A p \in Players : pc[i][p] \in {"unborn", "send", "recv"}
        /\ received[i] = PerPair =>
               \E p \in Players : /\ pc[i][p] = "release" \/ (pc[i][p] = "done" /\ InChannel(i, p))
                                  /\ pc[i][Peer(p)] = "recv"
        /\ received[i] = PerPair + 1 =>
               \E p \in Players : pc[i][p] = "done" /\ pc[i][Peer(p)] \in {"release", "done"}

(* Unless it was canceled, a task returns after the last message. *)
EndsLate(i) ==
    /\ ending # "release" => received[i] <= PerPair
    /\ ending # "release" /\ main \notin {"canceling", "failed"} /\ stage[i] \notin {"failing", "failed"} =>
           \A p \in Players : pc[i][p] = "done" => received[i] = PerPair

(* main awaits the pairs it has started. *)
Awaits ==
    /\ main \in {"awaiting", "ok"} => \A i \in 1 .. NumPairs : stage[i] # "unborn"
    /\ main = "ok" => \A i \in Pairs : stage[i] \in {"unborn", "failed", "returned"}
    /\ main = "canceling" => ending = "close"

PairInv(i) == Single(i) /\ Counts(i) /\ Starts(i) /\ Closes(i) /\ Releases(i) /\ EndsLate(i)

(* The conjunction that every step of main, the pairs and their tasks      *)
(* preserves.                                                              *)
IndInv == TypeOK /\ Awaits /\ \A i \in Pairs : PairInv(i)

-----------------------------------------------------------------------------

(* total / pairs and the pairs main starts. *)
LEMMA Shares ==
    ASSUME total \in Totals, pairs \in PairsOptions
    PROVE  /\ NumPairs \in Nat \ {0} /\ total \in Nat
           /\ 1 .. NumPairs \in SUBSET Pairs /\ Pairs \in SUBSET Nat
           /\ PerPair \in Nat \ {0}
           /\ PerPair = 1 \/ NumPairs * PerPair <= total
           /\ NumPairs * (PerPair + 1) > total
<1>1. NumPairs \in Nat \ {0} /\ total \in Nat
    BY PingPongAssumption DEF NumPairs
<1>2. 1 .. NumPairs \in SUBSET Pairs
  <2>1. NumPairs \in PairsOptions \union {1}
      BY DEF NumPairs
  <2> QED
      BY <2>1 DEF Pairs
<1>3. Pairs \in SUBSET Nat
    BY PingPongAssumption DEF Pairs
<1> DEFINE n == NumPairs
           d == total \div n
<1>4. d \in Nat /\ n * d <= total /\ total < n * d + n
    BY <1>1, SMT
<1>5. n \in Nat \ {0} /\ PerPair = IF d < 1 THEN 1 ELSE d
    BY <1>1 DEF PerPair
<1> HIDE DEF n, d
<1>6. n * (d + 1) > total /\ n * (1 + 1) >= n * 1 /\ (d < 1 => d = 0)
    BY <1>1, <1>4, <1>5
<1>7. PerPair \in Nat \ {0} /\ (PerPair = 1 \/ n * PerPair <= total)
    BY <1>4, <1>5
<1>8. n * (PerPair + 1) > total
  <2>1. CASE d < 1
    <3>1. d = 0 /\ n * (d + 1) = n /\ n * (1 + 1) = n + n
        BY <1>4, <1>5, <1>6, <2>1
    <3> QED
        BY <1>1, <1>5, <1>6, <2>1, <3>1
  <2>2. CASE ~(d < 1)
      BY <1>5, <1>6, <2>2
  <2> QED
      BY <2>1, <2>2
<1> QED
    BY <1>1, <1>2, <1>3, <1>7, <1>8 DEF n

(* What one pair is, apart from the others. *)
Untouched(j) ==
    /\ stage'[j] = stage[j] /\ pc'[j] = pc[j] /\ msg'[j] = msg[j]
    /\ chan'[j] = chan[j] /\ received'[j] = received[j]

(* main goes on, and never comes back from a cancellation. *)
MainGoesOn ==
    /\ UNCHANGED setting
    /\ main \in {"canceling", "failed"} => main' \in {"canceling", "failed"}

(* A pair that a step does not touch keeps its invariant. *)
LEMMA OtherPairs ==
    ASSUME NEW j \in Pairs, PairInv(j), Untouched(j), MainGoesOn
    PROVE  PairInv(j)'
<1>1. PerPair' = PerPair /\ ending' = ending
    BY DEF MainGoesOn, setting, PerPair, NumPairs
<1> USE <1>1 DEF Untouched, PairInv, InChannel, InHand
<1>2. Single(j)'
    BY DEF Single
<1>3. Counts(j)'
    BY DEF Counts
<1>4. Starts(j)'
    BY DEF Starts
<1>5. Closes(j)'
    BY DEF Closes
<1>6. Releases(j)'
    BY DEF Releases
<1>7. EndsLate(j)'
    BY DEF EndsLate, MainGoesOn
<1> QED
    BY <1>2, <1>3, <1>4, <1>5, <1>6, <1>7

LEMMA TwoPlayers ==
    ASSUME NEW p \in Players
    PROVE  /\ Peer(p) \in Players /\ Peer(p) # p /\ Peer(Peer(p)) = p
           /\ Players = {p, Peer(p)}
BY DEF Players, Peer

-----------------------------------------------------------------------------
(* taskA and taskB                                                         *)

Labels == {"unborn", "send", "recv", "release", "done"}
Bufs   == {<<>>} \union {<<v>> : v \in 0 .. PerPair + 1}
Chan   == [buf : Bufs, closed : BOOLEAN]

(* A task changes the state of its pair alone: its label, its counter, the *)
(* content and the state of both channels, and the count.                  *)
TaskEffect(i, p, l, m, bp, bq, cp, cq, r) ==
    /\ pc' = [pc EXCEPT ![i] = [pc[i] EXCEPT ![p] = l]]
    /\ msg' = [msg EXCEPT ![i] = [msg[i] EXCEPT ![p] = m]]
    /\ chan' = [chan EXCEPT ![i] = [chan[i] EXCEPT ![p] = [buf |-> bp, closed |-> cp],
                                                   ![Peer(p)] = [buf |-> bq, closed |-> cq]]]
    /\ received' = [received EXCEPT ![i] = r]
    /\ UNCHANGED <<setting, main, stage>>

(* What that says of the two tasks of the pair, and of the other pairs. *)
LEMMA EffectOf ==
    ASSUME TypeOK, NEW i \in Pairs, NEW p \in Players, NEW l, NEW m, NEW bp, NEW bq, NEW cp, NEW cq, NEW r,
           TaskEffect(i, p, l, m, bp, bq, cp, cq, r)
    PROVE  /\ pc'[i][p] = l /\ pc'[i][Peer(p)] = pc[i][Peer(p)]
           /\ msg'[i][p] = m /\ msg'[i][Peer(p)] = msg[i][Peer(p)]
           /\ chan'[i][p].buf = bp /\ chan'[i][Peer(p)].buf = bq
           /\ chan'[i][p].closed = cp /\ chan'[i][Peer(p)].closed = cq
           /\ received'[i] = r /\ stage'[i] = stage[i]
           /\ \A j \in Pairs \ {i} : Untouched(j)
           /\ MainGoesOn /\ PerPair' = PerPair /\ ending' = ending /\ main' = main
<1> USE TwoPlayers DEF TaskEffect, TypeOK
<1>1. pc'[i] = [pc[i] EXCEPT ![p] = l] /\ pc'[i][p] = l /\ pc'[i][Peer(p)] = pc[i][Peer(p)]
    OBVIOUS
<1>2. msg'[i][p] = m /\ msg'[i][Peer(p)] = msg[i][Peer(p)]
    OBVIOUS
<1>3. chan'[i] = [chan[i] EXCEPT ![p] = [buf |-> bp, closed |-> cp], ![Peer(p)] = [buf |-> bq, closed |-> cq]]
    OBVIOUS
<1>4. chan'[i][p] = [buf |-> bp, closed |-> cp] /\ chan'[i][Peer(p)] = [buf |-> bq, closed |-> cq]
    BY <1>3
<1>5. received'[i] = r /\ stage'[i] = stage[i]
    OBVIOUS
<1>6. \A j \in Pairs \ {i} : Untouched(j)
    BY DEF Untouched
<1>7. MainGoesOn /\ PerPair' = PerPair /\ ending' = ending /\ main' = main
    BY DEF MainGoesOn, setting, PerPair, NumPairs
<1> QED
    BY <1>1, <1>2, <1>4, <1>5, <1>6, <1>7

(* A step with such an effect keeps the types of the new values. *)
LEMMA EffectType ==
    ASSUME TypeOK, NEW i \in Pairs, NEW p \in Players, NEW l \in Labels, NEW m \in 0 .. PerPair + 1,
           NEW bp \in Bufs, NEW bq \in Bufs, NEW cp \in BOOLEAN, NEW cq \in BOOLEAN,
           NEW r \in 0 .. PerPair + 2, TaskEffect(i, p, l, m, bp, bq, cp, cq, r)
    PROVE  TypeOK'
<1> USE TwoPlayers DEF TaskEffect, TypeOK
<1>0. PerPair' = PerPair /\ UNCHANGED <<total, pairs, ending, inline, main, stage>>
    BY DEF setting, PerPair, NumPairs
<1>1. pc' \in [Pairs -> [Players -> Labels]]
    BY DEF Labels
<1>2. msg' \in [Pairs -> [Players -> 0 .. PerPair + 1]]
    OBVIOUS
<1>3. chan' \in [Pairs -> [Players -> Chan]]
  <2>1. [buf |-> bp, closed |-> cp] \in Chan /\ [buf |-> bq, closed |-> cq] \in Chan
      BY DEF Chan
  <2>2. chan \in [Pairs -> [Players -> Chan]]
      BY DEF Chan, Bufs
  <2>3. [chan[i] EXCEPT ![p] = [buf |-> bp, closed |-> cp], ![Peer(p)] = [buf |-> bq, closed |-> cq]]
            \in [Players -> Chan]
      BY <2>1, <2>2
  <2> QED
      BY <2>2, <2>3
<1>4. received' \in [Pairs -> 0 .. PerPair + 2]
    OBVIOUS
<1> QED
    BY <1>0, <1>1, <1>2, <1>3, <1>4 DEF Labels, Chan, Bufs

(* The steps of a task that is not at its limit, as effects. *)
LEMMA SendEffects ==
    ASSUME TypeOK, NEW i \in Pairs, NEW p \in Players
    PROVE  LET q == Peer(p)
               c == chan[i]
           IN  /\ Send(i, p) => TaskEffect(i, p, "recv", msg[i][p], <<msg[i][p]>>, c[q].buf,
                                           c[p].closed, c[q].closed, received[i])
               /\ Release(i, p) => TaskEffect(i, p, "done", msg[i][p], <<msg[i][p]>>, c[q].buf,
                                              c[p].closed, c[q].closed, received[i])
               /\ Canceled(i, p) => TaskEffect(i, p, "done", msg[i][p], c[p].buf, c[q].buf,
                                               c[p].closed, c[q].closed, received[i])
               /\ ReceiveClosed(i, p) => TaskEffect(i, p, "done", msg[i][p], c[p].buf, c[q].buf,
                                                    c[p].closed \/ ending = "drop", c[q].closed, received[i])
<1> DEFINE q == Peer(p)
           c == chan[i]
<1>1. msg = [msg EXCEPT ![i] = [msg[i] EXCEPT ![p] = msg[i][p]]]
    BY DEF TypeOK
<1>2. received = [received EXCEPT ![i] = received[i]]
    BY DEF TypeOK
<1>3. /\ c[p] = [buf |-> c[p].buf, closed |-> c[p].closed] /\ c[q] = [buf |-> c[q].buf, closed |-> c[q].closed]
      /\ q \in Players /\ p # q
    BY TwoPlayers DEF TypeOK
<1>4. ASSUME chan' = [chan EXCEPT ![i][p].buf = <<msg[i][p]>>]
      PROVE  chan' = [chan EXCEPT ![i] = [c EXCEPT ![p] = [buf |-> <<msg[i][p]>>, closed |-> c[p].closed],
                                                   ![q] = [buf |-> c[q].buf, closed |-> c[q].closed]]]
  <2>1. chan' = [chan EXCEPT ![i] = [c EXCEPT ![p] = [c[p] EXCEPT !.buf = <<msg[i][p]>>]]]
      BY <1>4
  <2>2. [c[p] EXCEPT !.buf = <<msg[i][p]>>] = [buf |-> <<msg[i][p]>>, closed |-> c[p].closed]
      BY <1>3 DEF TypeOK
  <2>3. \A x : [c EXCEPT ![p] = x] = [c EXCEPT ![p] = x, ![q] = c[q]]
      BY <1>3 DEF TypeOK
  <2> QED
      BY <1>3, <2>1, <2>2, <2>3
<1>5. ASSUME chan' = chan
      PROVE  chan' = [chan EXCEPT ![i] = [c EXCEPT ![p] = [buf |-> c[p].buf, closed |-> c[p].closed],
                                                   ![q] = [buf |-> c[q].buf, closed |-> c[q].closed]]]
  <2>1. c = [c EXCEPT ![p] = c[p], ![q] = c[q]]
      BY <1>3 DEF TypeOK
  <2>2. chan = [chan EXCEPT ![i] = c]
      BY DEF TypeOK
  <2> QED
      BY <1>3, <1>5, <2>1, <2>2
<1>6. ASSUME NEW b, chan' = [chan EXCEPT ![i][p].closed = b]
      PROVE  chan' = [chan EXCEPT ![i] = [c EXCEPT ![p] = [buf |-> c[p].buf, closed |-> b],
                                                   ![q] = [buf |-> c[q].buf, closed |-> c[q].closed]]]
  <2>1. chan' = [chan EXCEPT ![i] = [c EXCEPT ![p] = [c[p] EXCEPT !.closed = b]]]
      BY <1>6
  <2>2. [c[p] EXCEPT !.closed = b] = [buf |-> c[p].buf, closed |-> b]
      BY <1>3 DEF TypeOK
  <2>3. \A x : [c EXCEPT ![p] = x] = [c EXCEPT ![p] = x, ![q] = c[q]]
      BY <1>3 DEF TypeOK
  <2> QED
      BY <1>3, <2>1, <2>2, <2>3
<1>7. Send(i, p) => TaskEffect(i, p, "recv", msg[i][p], <<msg[i][p]>>, c[q].buf, c[p].closed, c[q].closed, received[i])
    BY <1>1, <1>2, <1>4 DEF Send, Put, TaskEffect
<1>8. Release(i, p) => TaskEffect(i, p, "done", msg[i][p], <<msg[i][p]>>, c[q].buf, c[p].closed, c[q].closed, received[i])
    BY <1>1, <1>2, <1>4 DEF Release, Put, TaskEffect
<1>9. Canceled(i, p) => TaskEffect(i, p, "done", msg[i][p], c[p].buf, c[q].buf, c[p].closed, c[q].closed, received[i])
    BY <1>1, <1>2, <1>5 DEF Canceled, TaskEffect
<1>10. ReceiveClosed(i, p) => TaskEffect(i, p, "done", msg[i][p], c[p].buf, c[q].buf,
                                         c[p].closed \/ ending = "drop", c[q].closed, received[i])
    BY <1>1, <1>2, <1>6 DEF ReceiveClosed, TaskEffect
<1> QED
    BY <1>7, <1>8, <1>9, <1>10

(* The four ways a receive goes on, as effects. *)
LEMMA ReceiveEffects ==
    ASSUME TypeOK, NEW i \in Pairs, NEW p \in Players, Receive(i, p)
    PROVE  LET q == Peer(p)
               c == chan[i]
               next == Head(c[q].buf) + 1
               r == received[i] + 1
           IN  \/ /\ ending = "close" /\ next >= PerPair
                  /\ TaskEffect(i, p, "done", msg[i][p], c[p].buf, <<>>, TRUE, c[q].closed, r)
               \/ /\ ending = "drop" /\ next >= PerPair
                  /\ TaskEffect(i, p, "done", msg[i][p], c[p].buf, <<>>, TRUE, TRUE, r)
               \/ /\ ending = "release" /\ next >= PerPair
                  /\ TaskEffect(i, p, "release", next, c[p].buf, <<>>, c[p].closed, c[q].closed, r)
               \/ /\ ~(next >= PerPair)
                  /\ TaskEffect(i, p, "send", next, c[p].buf, <<>>, c[p].closed, c[q].closed, r)
<1> DEFINE q == Peer(p)
           c == chan[i]
           next == Head(c[q].buf) + 1
           r == received[i] + 1
<1>1. msg = [msg EXCEPT ![i] = [msg[i] EXCEPT ![p] = msg[i][p]]]
    BY DEF TypeOK
<1>2. received' = [received EXCEPT ![i] = r] /\ UNCHANGED <<setting, main, stage>>
    BY DEF Receive
<1>3. /\ c[p] = [buf |-> c[p].buf, closed |-> c[p].closed] /\ c[q] = [buf |-> c[q].buf, closed |-> c[q].closed]
      /\ q \in Players /\ p # q
    BY TwoPlayers DEF TypeOK
<1>4. [c[q] EXCEPT !.buf = <<>>] = [buf |-> <<>>, closed |-> c[q].closed]
    BY <1>3 DEF TypeOK
<1>5. Closing(c[p]) = [buf |-> c[p].buf, closed |-> TRUE]
  <2>1. Closing(c[p]) = [c[p] EXCEPT !.closed = TRUE]
      BY DEF Closing
  <2>2. \A b : [c[p] EXCEPT !.closed = b] = [buf |-> c[p].buf, closed |-> b]
      BY <1>3 DEF TypeOK
  <2> QED
      BY <2>1, <2>2
<1>6. \A x : [c EXCEPT ![q] = x] = [c EXCEPT ![p] = c[p], ![q] = x]
    BY <1>3 DEF TypeOK
<1>7. ASSUME EndByClose(i, p)
      PROVE  TaskEffect(i, p, "done", msg[i][p], c[p].buf, <<>>, TRUE, c[q].closed, r)
  <2>1. chan' = [chan EXCEPT ![i] = [c EXCEPT ![p] = Closing(c[p]), ![q] = [c[q] EXCEPT !.buf = <<>>]]]
      BY <1>3, <1>7 DEF EndByClose, TypeOK
  <2> QED
      BY <1>1, <1>2, <1>4, <1>5, <1>7, <2>1 DEF EndByClose, TaskEffect
<1>8. ASSUME EndByDrop(i, p)
      PROVE  TaskEffect(i, p, "done", msg[i][p], c[p].buf, <<>>, TRUE, TRUE, r)
  <2>1. chan' = [chan EXCEPT ![i] = [c EXCEPT ![p] = Closing(c[p]), ![q] = [buf |-> <<>>, closed |-> TRUE]]]
      BY <1>3, <1>8 DEF EndByDrop, TypeOK
  <2> QED
      BY <1>1, <1>2, <1>5, <1>8, <2>1 DEF EndByDrop, TaskEffect
<1>9. ASSUME chan' = [chan EXCEPT ![i][q].buf = <<>>]
      PROVE  chan' = [chan EXCEPT ![i] = [c EXCEPT ![p] = [buf |-> c[p].buf, closed |-> c[p].closed],
                                                   ![q] = [buf |-> <<>>, closed |-> c[q].closed]]]
  <2>1. chan' = [chan EXCEPT ![i] = [c EXCEPT ![q] = [c[q] EXCEPT !.buf = <<>>]]]
      BY <1>9
  <2> QED
      BY <1>3, <1>4, <1>6, <2>1
<1>10. ASSUME EndByRelease(i, p, next)
       PROVE  TaskEffect(i, p, "release", next, c[p].buf, <<>>, c[p].closed, c[q].closed, r)
    BY <1>2, <1>9, <1>10 DEF EndByRelease, TaskEffect
<1>11. ASSUME chan' = [chan EXCEPT ![i][q].buf = <<>>], msg' = [msg EXCEPT ![i][p] = next],
              pc' = [pc EXCEPT ![i][p] = "send"]
       PROVE  TaskEffect(i, p, "send", next, c[p].buf, <<>>, c[p].closed, c[q].closed, r)
    BY <1>2, <1>9, <1>11 DEF TaskEffect
<1> QED
    BY <1>7, <1>8, <1>10, <1>11 DEF Receive, Reached, EndByClose, EndByDrop, EndByRelease

(* The invariant of a pair, spelled out for a task p and its peer q. *)
PairFacts(i, p, q) ==
    /\ PerPair \in Nat \ {0} /\ received[i] \in Nat
    /\ p \in Players /\ q \in Players /\ p # q /\ Peer(p) = q /\ Peer(q) = p /\ Players = {p, q}
    /\ pc[i][p] \in Labels /\ pc[i][q] \in Labels
    /\ chan[i][p].closed \in BOOLEAN /\ chan[i][q].closed \in BOOLEAN
    /\ chan[i][p].buf \in Bufs /\ chan[i][q].buf \in Bufs
    /\ msg[i][p] \in 0 .. PerPair + 1 /\ msg[i][q] \in 0 .. PerPair + 1
    /\ PairInv(i)

LEMMA PairFactsHold ==
    ASSUME IndInv, NEW i \in Pairs, NEW p \in Players
    PROVE  PairFacts(i, p, Peer(p))
<1>1. PerPair \in Nat \ {0}
    BY Shares DEF IndInv, TypeOK
<1>2. received[i] \in 0 .. PerPair + 2
    BY DEF IndInv, TypeOK
<1>3. Peer(p) \in Players
    BY TwoPlayers
<1>4. /\ pc[i][p] \in Labels /\ pc[i][Peer(p)] \in Labels
      /\ msg[i][p] \in 0 .. PerPair + 1 /\ msg[i][Peer(p)] \in 0 .. PerPair + 1
    BY <1>3 DEF IndInv, TypeOK, Labels
<1>5. chan[i][p] \in Chan /\ chan[i][Peer(p)] \in Chan
    BY <1>3 DEF IndInv, TypeOK, Chan, Bufs
<1> QED
    BY <1>1, <1>2, <1>4, <1>5, TwoPlayers DEF PairFacts, Chan, IndInv

(* A send puts the counter into the channel. *)
LEMMA SendPair ==
    ASSUME IndInv, NEW i \in Pairs, NEW p \in Players, Send(i, p)
    PROVE  TypeOK' /\ PairInv(i)' /\ MainGoesOn /\ \A j \in Pairs \ {i} : Untouched(j)
<1> DEFINE q == Peer(p)
           m == msg[i][p]
           bq == chan[i][q].buf
           cp == chan[i][p].closed
           cq == chan[i][q].closed
           r == received[i]
<1>1. PairFacts(i, p, q) /\ TypeOK
    BY PairFactsHold DEF IndInv
<1>2. TaskEffect(i, p, "recv", m, <<m>>, bq, cp, cq, r)
    BY <1>1, SendEffects
<1>3. TypeOK'
  <2>1. <<m>> \in Bufs /\ "recv" \in Labels /\ r \in 0 .. PerPair + 2
      BY <1>1 DEF PairFacts, Bufs, Labels, TypeOK
  <2> QED
      BY <1>1, <1>2, <2>1, EffectType DEF PairFacts
<1>4. /\ pc'[i][p] = "recv" /\ pc'[i][q] = pc[i][q]
      /\ msg'[i][p] = m /\ msg'[i][q] = msg[i][q]
      /\ chan'[i][p].buf = <<m>> /\ chan'[i][q].buf = chan[i][q].buf
      /\ chan'[i][p].closed = cp /\ chan'[i][q].closed = cq
      /\ received'[i] = r /\ stage'[i] = stage[i]
      /\ \A j \in Pairs \ {i} : Untouched(j)
      /\ MainGoesOn /\ PerPair' = PerPair /\ ending' = ending /\ main' = main
    BY <1>1, <1>2, EffectOf
<1>5. pc[i][p] = "send" /\ chan[i][p].buf = <<>>
    BY DEF Send
<1> HIDE DEF q
<1> USE <1>1, <1>4, <1>5 DEF PairFacts, PairInv, InChannel, InHand
<1>6. Single(i)'
    BY DEF Single
<1>7. Counts(i)'
    BY DEF Counts, Single
<1>8. Starts(i)'
    BY DEF Starts, Counts, Players
<1>9. Closes(i)'
    BY DEF Closes
<1>10. Releases(i)'
    BY DEF Releases, Counts, Single
<1>11. EndsLate(i)'
    BY DEF EndsLate, Counts
<1> QED
    BY <1>3, <1>6, <1>7, <1>8, <1>9, <1>10, <1>11

(* The last send of PhotonLibOS releases the peer. *)
LEMMA ReleasePair ==
    ASSUME IndInv, NEW i \in Pairs, NEW p \in Players, Release(i, p)
    PROVE  TypeOK' /\ PairInv(i)' /\ MainGoesOn /\ \A j \in Pairs \ {i} : Untouched(j)
<1> DEFINE q == Peer(p)
           m == msg[i][p]
           bp == <<m>>
           bq == chan[i][q].buf
           cp == chan[i][p].closed
           cq == chan[i][q].closed
           r == received[i]
<1>1. PairFacts(i, p, q) /\ TypeOK
    BY PairFactsHold DEF IndInv
<1>2. TaskEffect(i, p, "done", m, bp, bq, cp, cq, r)
    BY <1>1, SendEffects
<1>3. TypeOK'
  <2>1. bp \in Bufs /\ cp \in BOOLEAN /\ "done" \in Labels /\ r \in 0 .. PerPair + 2
      BY <1>1 DEF PairFacts, Bufs, Labels, TypeOK
  <2> QED
      BY <1>1, <1>2, <2>1, EffectType DEF PairFacts
<1>4. /\ pc'[i][p] = "done" /\ pc'[i][q] = pc[i][q]
      /\ msg'[i][p] = m /\ msg'[i][q] = msg[i][q]
      /\ chan'[i][p].buf = bp /\ chan'[i][q].buf = chan[i][q].buf
      /\ chan'[i][p].closed = cp /\ chan'[i][q].closed = cq
      /\ received'[i] = r /\ stage'[i] = stage[i]
      /\ \A j \in Pairs \ {i} : Untouched(j)
      /\ MainGoesOn /\ PerPair' = PerPair /\ ending' = ending /\ main' = main
    BY <1>1, <1>2, EffectOf
<1>5. pc[i][p] = "release" /\ chan[i][p].buf = <<>>
    BY DEF Release
<1> HIDE DEF q
<1> USE <1>1, <1>4, <1>5 DEF PairFacts, PairInv, InChannel, InHand
<1>6. Single(i)'
    BY DEF Single
<1>7. Counts(i)'
    BY DEF Counts, Single
<1>8. Starts(i)'
    BY DEF Starts, Counts, Players
<1>9. Closes(i)'
    BY DEF Closes
<1>10. Releases(i)'
  <2>1. received[i] \in {PerPair, PerPair + 1} /\ ending = "release"
      BY DEF Releases, Counts
  <2>2. CASE received[i] = PerPair
    <3>1. pc[i][q] = "recv"
        BY <2>1, <2>2 DEF Releases
    <3>2. pc'[i][p] = "done" /\ InChannel(i, p)' /\ pc'[i][Peer(p)] = "recv"
      <4>1. <<m>> # <<>>
          OBVIOUS
      <4> QED
          BY <3>1, <4>1
    <3>3. received'[i] = PerPair' /\ PerPair' # PerPair' + 1 /\ ~(PerPair' < PerPair')
        BY <2>2
    <3> QED
        BY <3>2, <3>3 DEF Releases
  <2>3. CASE received[i] = PerPair + 1
    <3>1. pc[i][q] = "done"
        BY <2>1, <2>3 DEF Releases
    <3> QED
        BY <2>1, <2>3, <3>1 DEF Releases
  <2> QED
      BY <2>1, <2>2, <2>3
<1>11. EndsLate(i)'
    BY DEF EndsLate, Counts, Closes
<1> QED
    BY <1>3, <1>6, <1>7, <1>8, <1>9, <1>10, <1>11

(* A cancellation leaves the counter where it is, or drops it. *)
LEMMA CanceledPair ==
    ASSUME IndInv, NEW i \in Pairs, NEW p \in Players, Canceled(i, p)
    PROVE  TypeOK' /\ PairInv(i)' /\ MainGoesOn /\ \A j \in Pairs \ {i} : Untouched(j)
<1> DEFINE q == Peer(p)
           m == msg[i][p]
           bp == chan[i][p].buf
           bq == chan[i][q].buf
           cp == chan[i][p].closed
           cq == chan[i][q].closed
           r == received[i]
<1>1. PairFacts(i, p, q) /\ TypeOK
    BY PairFactsHold DEF IndInv
<1>2. TaskEffect(i, p, "done", m, bp, bq, cp, cq, r)
    BY <1>1, SendEffects
<1>3. TypeOK'
  <2>1. bp \in Bufs /\ cp \in BOOLEAN /\ "done" \in Labels /\ r \in 0 .. PerPair + 2
      BY <1>1 DEF PairFacts, Bufs, Labels, TypeOK
  <2> QED
      BY <1>1, <1>2, <2>1, EffectType DEF PairFacts
<1>4. /\ pc'[i][p] = "done" /\ pc'[i][q] = pc[i][q]
      /\ msg'[i][p] = m /\ msg'[i][q] = msg[i][q]
      /\ chan'[i][p].buf = bp /\ chan'[i][q].buf = chan[i][q].buf
      /\ chan'[i][p].closed = cp /\ chan'[i][q].closed = cq
      /\ received'[i] = r /\ stage'[i] = stage[i]
      /\ \A j \in Pairs \ {i} : Untouched(j)
      /\ MainGoesOn /\ PerPair' = PerPair /\ ending' = ending /\ main' = main
    BY <1>1, <1>2, EffectOf
<1>5. pc[i][p] \in {"send", "recv"} /\ (main = "canceling" \/ stage[i] = "failing")
    BY DEF Canceled
<1>12. ending # "release"
  <2>1. Awaits /\ Starts(i)
      BY <1>1 DEF IndInv, PairInv
  <2> QED
      BY <1>5, <2>1 DEF Awaits, Starts
<1> HIDE DEF q
<1> USE <1>1, <1>4, <1>5 DEF PairFacts, PairInv, InChannel, InHand
<1>6. Single(i)'
    BY DEF Single
<1>7. Counts(i)'
    BY DEF Counts, Single
<1>8. Starts(i)'
    BY DEF Starts, Counts, Players
<1>9. Closes(i)'
    BY DEF Closes
<1>10. Releases(i)'
    BY <1>12 DEF Releases
<1>11. EndsLate(i)'
    BY DEF EndsLate, Counts, Closes
<1> QED
    BY <1>3, <1>6, <1>7, <1>8, <1>9, <1>10, <1>11

(* A closed channel ends the task that receives on it. *)
LEMMA ReceiveClosedPair ==
    ASSUME IndInv, NEW i \in Pairs, NEW p \in Players, ReceiveClosed(i, p)
    PROVE  TypeOK' /\ PairInv(i)' /\ MainGoesOn /\ \A j \in Pairs \ {i} : Untouched(j)
<1> DEFINE q == Peer(p)
           m == msg[i][p]
           bp == chan[i][p].buf
           bq == chan[i][q].buf
           cp == (chan[i][p].closed \/ ending = "drop")
           cq == chan[i][q].closed
           r == received[i]
<1>1. PairFacts(i, p, q) /\ TypeOK
    BY PairFactsHold DEF IndInv
<1>2. TaskEffect(i, p, "done", m, bp, bq, cp, cq, r)
    BY <1>1, SendEffects
<1>3. TypeOK'
  <2>1. bp \in Bufs /\ cp \in BOOLEAN /\ "done" \in Labels /\ r \in 0 .. PerPair + 2
      BY <1>1 DEF PairFacts, Bufs, Labels, TypeOK
  <2> HIDE DEF cp
  <2> QED
      BY <1>1, <1>2, <2>1, EffectType DEF PairFacts
<1>4. /\ pc'[i][p] = "done" /\ pc'[i][q] = pc[i][q]
      /\ msg'[i][p] = m /\ msg'[i][q] = msg[i][q]
      /\ chan'[i][p].buf = bp /\ chan'[i][q].buf = chan[i][q].buf
      /\ chan'[i][p].closed = cp /\ chan'[i][q].closed = cq
      /\ received'[i] = r /\ stage'[i] = stage[i]
      /\ \A j \in Pairs \ {i} : Untouched(j)
      /\ MainGoesOn /\ PerPair' = PerPair /\ ending' = ending /\ main' = main
    BY <1>1, <1>2, EffectOf
<1>5. pc[i][p] = "recv" /\ chan[i][q].buf = <<>> /\ chan[i][q].closed
    BY DEF ReceiveClosed
<1> HIDE DEF q
<1> USE <1>1, <1>4, <1>5 DEF PairFacts, PairInv, InChannel, InHand
<1>6. Single(i)'
    BY DEF Single
<1>7. Counts(i)'
    BY DEF Counts, Single
<1>8. Starts(i)'
    BY DEF Starts, Counts, Players
<1>9. Closes(i)'
    BY DEF Closes
<1>10. Releases(i)'
    BY DEF Releases, Counts, Single, Closes, Starts
<1>11. EndsLate(i)'
    BY DEF EndsLate, Counts, Closes
<1> QED
    BY <1>3, <1>6, <1>7, <1>8, <1>9, <1>10, <1>11

(* A receive takes the counter out of the channel: the task keeps it, or   *)
(* ends the pair in the way of its program.                                *)
LEMMA ReceivePair ==
    ASSUME IndInv, NEW i \in Pairs, NEW p \in Players, Receive(i, p)
    PROVE  TypeOK' /\ PairInv(i)' /\ MainGoesOn /\ \A j \in Pairs \ {i} : Untouched(j)
<1> DEFINE q == Peer(p)
           next == Head(chan[i][q].buf) + 1
           r == received[i] + 1
           bp == chan[i][p].buf
           cp == chan[i][p].closed
           cq == chan[i][q].closed
<1>1. PairFacts(i, p, q) /\ TypeOK
    BY PairFactsHold DEF IndInv
<1>2. pc[i][p] = "recv" /\ chan[i][q].buf # <<>>
    BY DEF Receive
<1>3. next = r /\ chan[i][q].buf = <<received[i]>>
  <2>1. chan[i][q].buf = <<received[i]>>
      BY <1>1, <1>2 DEF PairFacts, PairInv, Counts, InChannel
  <2> QED
      BY <2>1
<1>4. /\ ~InHand(i, p) /\ ~InHand(i, q) /\ bp = <<>> /\ ~cp /\ ~cq
      /\ pc[i][q] \in {"recv", "done"} /\ pc[i][q] # "unborn"
  <2> HIDE DEF q
  <2>1. ~InHand(i, p) /\ ~InHand(i, q) /\ bp = <<>>
      BY <1>1, <1>2 DEF PairFacts, PairInv, Single, InChannel
  <2>2. ~cp /\ ~cq
      BY <1>1, <1>2 DEF PairFacts, PairInv, Closes, InChannel
  <2>3. pc[i][q] # "unborn"
      BY <1>1, <1>2 DEF PairFacts, PairInv, Starts, InChannel
  <2> QED
      BY <1>1, <2>1, <2>2, <2>3 DEF PairFacts, Labels, InHand
<1>5. /\ received[i] <= PerPair /\ (ending # "release" => received[i] < PerPair)
      /\ (received[i] = PerPair => ending = "release" /\ pc[i][q] = "done")
      /\ (ending = "release" /\ received[i] < PerPair => pc[i][q] = "recv")
  <2> HIDE DEF q
  <2>1. ending # "release" => received[i] < PerPair
      BY <1>1, <1>2 DEF PairFacts, PairInv, Counts, InChannel
  <2>2. ending = "release" => received[i] # PerPair + 1
      BY <1>1, <1>2, <1>4 DEF PairFacts, PairInv, Releases
  <2>3. ending = "release" /\ received[i] = PerPair => pc[i][q] = "done"
      BY <1>1, <1>2, <1>4 DEF PairFacts, PairInv, Releases, InHand
  <2>4. ending = "release" /\ received[i] < PerPair => pc[i][q] = "recv"
      BY <1>1, <1>2, <1>4 DEF PairFacts, PairInv, Releases
  <2>5. ending = "release" => received[i] <= PerPair + 1
      BY <1>1 DEF PairFacts, PairInv, Releases
  <2> QED
      BY <1>1, <2>1, <2>2, <2>3, <2>4, <2>5 DEF PairFacts
<1>6. ASSUME NEW l \in {"done", "release", "send"}, NEW m \in 0 .. PerPair + 1,
             NEW xp \in BOOLEAN, NEW xq \in BOOLEAN,
             TaskEffect(i, p, l, m, bp, <<>>, xp, xq, r),
             \/ l = "done" /\ ending # "release" /\ r >= PerPair
             \/ l = "release" /\ ending = "release" /\ r >= PerPair /\ m = r /\ ~xp /\ ~xq
             \/ l = "send" /\ r < PerPair /\ m = r /\ ~xp /\ ~xq
      PROVE  TypeOK' /\ PairInv(i)' /\ MainGoesOn /\ \A j \in Pairs \ {i} : Untouched(j)
  <2>1. r \in Nat /\ r <= PerPair + 1 /\ PerPair \in Nat \ {0}
      BY <1>1, <1>5 DEF PairFacts
  <2>2. TypeOK'
    <3>1. bp \in Bufs /\ <<>> \in Bufs /\ l \in Labels /\ r \in 0 .. PerPair + 2
        BY <1>1, <2>1 DEF PairFacts, Bufs, Labels
    <3> HIDE DEF bp, r
    <3> QED
        BY <1>1, <1>6, <3>1, EffectType
  <2>3. /\ pc'[i][p] = l /\ pc'[i][q] = pc[i][q]
        /\ msg'[i][p] = m /\ msg'[i][q] = msg[i][q]
        /\ chan'[i][p].buf = <<>> /\ chan'[i][q].buf = <<>>
        /\ chan'[i][p].closed = xp /\ chan'[i][q].closed = xq
        /\ received'[i] = r /\ stage'[i] = stage[i]
        /\ \A j \in Pairs \ {i} : Untouched(j)
        /\ MainGoesOn /\ PerPair' = PerPair /\ ending' = ending /\ main' = main
      BY <1>1, <1>4, <1>6, EffectOf
  <2>4. PairFacts(i, p, q)
      BY <1>1
  <2> HIDE DEF q, next
  <2> USE <1>2, <1>4, <1>5, <1>6, <2>1, <2>3, <2>4 DEF PairFacts, PairInv, InChannel, InHand
  <2>6. Single(i)'
      BY DEF Single
  <2>7. Counts(i)'
      BY DEF Counts
  <2>8. Starts(i)'
      BY DEF Starts, Players
  <2>9. Closes(i)'
      BY DEF Closes
  <2>10. Releases(i)'
      BY DEF Releases
  <2>11. EndsLate(i)'
      BY DEF EndsLate
  <2> QED
      BY <2>2, <2>6, <2>7, <2>8, <2>9, <2>10, <2>11
<1>7. r \in Nat /\ r <= PerPair + 1 /\ r \in 0 .. PerPair + 1 /\ PerPair \in Nat
    BY <1>1, <1>5 DEF PairFacts
<1>8. msg[i][p] \in 0 .. PerPair + 1 /\ cp \in BOOLEAN /\ cq \in BOOLEAN
    BY <1>1 DEF PairFacts
<1>9. \/ /\ ending = "close" /\ next >= PerPair
         /\ TaskEffect(i, p, "done", msg[i][p], bp, <<>>, TRUE, cq, r)
      \/ /\ ending = "drop" /\ next >= PerPair
         /\ TaskEffect(i, p, "done", msg[i][p], bp, <<>>, TRUE, TRUE, r)
      \/ /\ ending = "release" /\ next >= PerPair
         /\ TaskEffect(i, p, "release", next, bp, <<>>, cp, cq, r)
      \/ /\ ~(next >= PerPair)
         /\ TaskEffect(i, p, "send", next, bp, <<>>, cp, cq, r)
    BY <1>1, ReceiveEffects
<1> HIDE DEF next, r, bp, cp, cq
<1> DEFINE G == TypeOK' /\ PairInv(i)' /\ MainGoesOn /\ \A j \in Pairs \ {i} : Untouched(j)
<1>10. CASE TaskEffect(i, p, "done", msg[i][p], bp, <<>>, TRUE, cq, r) /\ ending = "close" /\ r >= PerPair
  <2>1. G
      BY <1>6, <1>8, <1>10
  <2> QED
      BY <2>1
<1>11. CASE TaskEffect(i, p, "done", msg[i][p], bp, <<>>, TRUE, TRUE, r) /\ ending = "drop" /\ r >= PerPair
  <2>1. G
      BY <1>6, <1>8, <1>11
  <2> QED
      BY <2>1
<1>12. CASE TaskEffect(i, p, "release", r, bp, <<>>, cp, cq, r) /\ ending = "release" /\ r >= PerPair
  <2>1. G
      BY <1>4, <1>6, <1>7, <1>8, <1>12
  <2> QED
      BY <2>1
<1>13. CASE TaskEffect(i, p, "send", r, bp, <<>>, cp, cq, r) /\ ~(r >= PerPair)
  <2>1. r < PerPair
      BY <1>7, <1>13
  <2>2. G
      BY <1>4, <1>6, <1>7, <1>8, <1>13, <2>1
  <2> QED
      BY <2>2
<1> QED
    BY <1>3, <1>9, <1>10, <1>11, <1>12, <1>13

-----------------------------------------------------------------------------
(* main and pair                                                           *)

(* A step of main or of pair i that moves its stage; at most it starts a   *)
(* task.                                                                   *)
LEMMA StagePair ==
    ASSUME IndInv, NEW i \in Pairs, NEW p \in Players,
           Concurrent(i) \/ Async(i, p) \/ InlineEnds(i, p) \/ SpawnFails(i, p) \/ PairEnds(i)
    PROVE  TypeOK' /\ PairInv(i)' /\ MainGoesOn /\ \A j \in Pairs \ {i} : Untouched(j)
<1>1. PairFacts(i, p, Peer(p)) /\ TypeOK
    BY PairFactsHold DEF IndInv
<1>2. /\ UNCHANGED <<total, pairs, ending, inline>> /\ PerPair' = PerPair /\ ending' = ending
      /\ msg' = msg /\ chan' = chan /\ received' = received
    BY DEF Concurrent, Async, InlineEnds, SpawnFails, PairEnds, setting, PerPair, NumPairs
<1>3. /\ main \in {"canceling", "failed"} => main' \in {"canceling", "failed"}
      /\ main' \in {"canceling", "failed"} => main \in {"canceling", "failed"}
      /\ main' \in {"spawning", "awaiting", "canceling", "ok", "failed"}
    BY <1>1 DEF Concurrent, NextPair, Async, InlineEnds, SpawnFails, PairEnds, TypeOK
<1>4. TypeOK'
  <2>1. stage' \in [Pairs -> {"unborn", "asyncA", "inlineA", "asyncB", "inlineB", "await",
                              "failing", "failed", "returned"}]
      BY <1>1 DEF Concurrent, Async, InlineEnds, SpawnFails, PairEnds, TypeOK, AfterAsync, InlineStage
  <2>2. pc' \in [Pairs -> [Players -> {"unborn", "send", "recv", "release", "done"}]]
    <3>1. CASE Async(i, p)
      <4> DEFINE l == IF p = "A" THEN "send" ELSE "recv"
      <4>1. pc' = [pc EXCEPT ![i] = [pc[i] EXCEPT ![p] = l]] /\ l \in {"send", "recv"}
          BY <3>1 DEF Async
      <4> HIDE DEF l
      <4> QED
          BY <1>1, <4>1 DEF TypeOK
    <3>2. CASE ~Async(i, p)
        BY <1>1, <3>2 DEF Concurrent, InlineEnds, SpawnFails, PairEnds, TypeOK
    <3> QED
        BY <3>1, <3>2
  <2> QED
      BY <1>1, <1>2, <1>3, <2>1, <2>2 DEF TypeOK
<1>5. MainGoesOn /\ \A j \in Pairs \ {i} : Untouched(j)
    BY <1>1, <1>2, <1>3 DEF MainGoesOn, setting, Untouched, Concurrent, Async, InlineEnds, SpawnFails, PairEnds, TypeOK
<1>6. ASSUME pc' = pc,
             \/ stage[i] = "unborn" /\ stage'[i] = "asyncA"
             \/ stage[i] = "inlineA" /\ stage'[i] = "asyncB"
             \/ stage[i] = "inlineB" /\ stage'[i] = "await"
             \/ stage[i] \in {"asyncA", "asyncB"} /\ stage'[i] = "failing" /\ ending = "close"
             \/ stage[i] = "await" /\ stage'[i] = "returned" /\ \A x \in Players : pc[i][x] \in {"unborn", "done"}
             \/ stage[i] = "failing" /\ stage'[i] = "failed"
      PROVE  PairInv(i)'
  <2> USE <1>1, <1>2, <1>3, <1>6 DEF PairFacts, PairInv, InChannel, InHand
  <2>1. Single(i)' /\ Counts(i)'
      BY DEF Single, Counts
  <2>2. Starts(i)'
    <3>1. "A" \in Players /\ "B" \in Players
        BY DEF Players
    <3> QED
        BY <3>1 DEF Starts, Players
  <2>3. Closes(i)' /\ Releases(i)'
      BY DEF Closes, Releases
  <2>4. EndsLate(i)'
      BY DEF EndsLate
  <2> QED
      BY <2>1, <2>2, <2>3, <2>4
<1>7. CASE Concurrent(i) \/ InlineEnds(i, p) \/ SpawnFails(i, p) \/ PairEnds(i)
  <2>1. p = "A" \/ p = "B"
      BY DEF Players
  <2>2. pc' = pc
      BY <1>7 DEF Concurrent, InlineEnds, SpawnFails, PairEnds
  <2>3. PairInv(i)'
    <3>1. CASE Concurrent(i)
        BY <1>1, <1>6, <2>2, <3>1 DEF TypeOK, Concurrent, NextPair
    <3>2. CASE InlineEnds(i, p)
        BY <1>1, <1>6, <2>1, <2>2, <3>2 DEF TypeOK, InlineEnds, InlineStage, AfterAsync
    <3>3. CASE SpawnFails(i, p)
        BY <1>1, <1>6, <2>1, <2>2, <3>3 DEF TypeOK, SpawnFails, AsyncStage
    <3>4. CASE PairEnds(i)
        BY <1>1, <1>6, <2>2, <3>4 DEF TypeOK, PairEnds
    <3> QED
        BY <1>7, <3>1, <3>2, <3>3, <3>4
  <2> QED
      BY <1>4, <1>5, <2>3
<1>8. CASE Async(i, p)
  <2> DEFINE q == Peer(p)
             l == IF p = "A" THEN "send" ELSE "recv"
  <2>1. /\ pc'[i][p] = l /\ pc'[i][q] = pc[i][q]
        /\ p = "A" => stage[i] = "asyncA" /\ stage'[i] \in {"inlineA", "asyncB"}
        /\ p = "B" => stage[i] = "asyncB" /\ stage'[i] \in {"inlineB", "await"}
        /\ p \in {"A", "B"}
      BY <1>1, <1>8, TwoPlayers DEF Async, AsyncStage, InlineStage, AfterAsync, TypeOK, PairFacts, Players
  <2>2. PairFacts(i, p, q)
      BY <1>1
  <2>3. /\ pc[i][p] = "unborn" /\ received[i] = 0 /\ ~InChannel(i, p)
        /\ msg[i][p] = 0
        /\ p = "A" => pc[i][q] = "unborn" /\ ~InChannel(i, q) /\ q = "B"
        /\ p = "B" => pc[i][q] # "unborn" /\ q = "A"
      BY <2>1, <2>2 DEF PairFacts, PairInv, Starts, Players, Peer
  <2>4. ~chan[i][p].closed /\ ~chan[i][q].closed
      BY <2>2, <2>3 DEF PairFacts, PairInv, Closes
  <2> HIDE DEF q
  <2> USE <1>2, <1>3, <2>1, <2>2, <2>3, <2>4 DEF PairFacts, PairInv, InChannel, InHand
  <2>5. Single(i)'
      BY DEF Single
  <2>6. Counts(i)'
      BY DEF Counts
  <2>7. Starts(i)'
      BY DEF Starts
  <2>8. Closes(i)'
      BY DEF Closes
  <2>9. Releases(i)'
      BY DEF Releases
  <2>10. EndsLate(i)'
      BY DEF EndsLate
  <2> QED
      BY <1>4, <1>5, <2>5, <2>6, <2>7, <2>8, <2>9, <2>10
<1> QED
    BY <1>4, <1>5, <1>7, <1>8

(* What main has started and awaits. *)
LEMMA AwaitsStep ==
    ASSUME IndInv, Next
    PROVE  Awaits'
<1>0. TypeOK /\ Awaits /\ 1 .. NumPairs \in SUBSET Pairs /\ Pairs \in SUBSET Nat /\ NumPairs \in Nat
    BY Shares DEF IndInv, TypeOK
<1>1. ASSUME NEW i \in Pairs, Concurrent(i) PROVE Awaits'
  <2>1. NumPairs' = NumPairs /\ ending' = ending /\ main = "spawning"
      BY <1>1 DEF Concurrent, NextPair, NumPairs, setting
  <2>2. main' = (IF i = NumPairs THEN "awaiting" ELSE "spawning")
      BY <1>1 DEF Concurrent
  <2>3. stage' = [stage EXCEPT ![i] = "asyncA"] /\ \A j \in 1 .. i - 1 : stage[j] # "unborn"
      BY <1>1 DEF Concurrent, NextPair
  <2>4. ASSUME main' = "awaiting", NEW k \in 1 .. NumPairs PROVE stage'[k] # "unborn"
    <3>1. i = NumPairs
        BY <2>2, <2>4
    <3>2. CASE k = i
        BY <1>0, <2>3, <3>2 DEF TypeOK
    <3>3. CASE k # i
      <4>1. k \in 1 .. i - 1 /\ k \in Pairs
          BY <1>0, <3>1, <3>3
      <4> QED
          BY <1>0, <2>3, <3>3, <4>1 DEF TypeOK
    <3> QED
        BY <3>2, <3>3
  <2>5. main' # "ok" /\ main' # "canceling"
      BY <2>2
  <2> QED
      BY <2>1, <2>4, <2>5 DEF Awaits
<1>2. ASSUME NEW i \in Pairs, ConcurrentFails(i) PROVE Awaits'
    BY <1>2 DEF ConcurrentFails, Awaits, setting, NumPairs
<1>3. ASSUME MainEnds PROVE Awaits'
  <2>1. NumPairs' = NumPairs /\ ending' = ending /\ stage' = stage
        /\ \A i \in Pairs : stage[i] \in {"unborn", "failed", "returned"}
      BY <1>3 DEF MainEnds, setting, NumPairs
  <2>2. main' # "canceling" /\ (main' = "ok" => main = "awaiting") /\ main' # "awaiting"
      BY <1>3 DEF MainEnds
  <2> QED
      BY <1>0, <2>1, <2>2 DEF Awaits
<1>4. ASSUME NEW i \in Pairs, NEW p \in Players, Async(i, p) \/ InlineEnds(i, p) \/ SpawnFails(i, p) \/ PairEnds(i)
      PROVE  Awaits'
  <2>1. NumPairs' = NumPairs /\ ending' = ending /\ main' = main
      BY <1>4 DEF Async, InlineEnds, SpawnFails, PairEnds, setting, NumPairs
  <2>2. \E s : stage' = [stage EXCEPT ![i] = s] /\ s # "unborn"
      BY <1>4 DEF Async, InlineEnds, SpawnFails, PairEnds, AfterAsync, InlineStage
  <2>3. stage[i] \notin {"unborn", "failed", "returned"}
      BY <1>4 DEF Async, InlineEnds, SpawnFails, PairEnds, AsyncStage, InlineStage
  <2>4. main # "ok"
      BY <1>0, <2>3 DEF Awaits
  <2> QED
      BY <1>0, <2>1, <2>2, <2>4 DEF Awaits, TypeOK
<1>5. ASSUME NEW i \in Pairs, NEW p \in Players, Task(i, p)
      PROVE  Awaits'
  <2>1. NumPairs' = NumPairs /\ ending' = ending /\ main' = main /\ stage' = stage
      BY <1>5 DEF Task, Send, Receive, ReceiveClosed, Release, Canceled, setting, NumPairs
  <2> QED
      BY <1>0, <2>1 DEF Awaits
<1> QED
    BY <1>1, <1>2, <1>3, <1>4, <1>5 DEF Next, Main, Pair, Players

(* Steps of main that touch no pair. *)
LEMMA MainStep ==
    ASSUME IndInv, NEW i \in Pairs, MainEnds \/ ConcurrentFails(i)
    PROVE  TypeOK' /\ MainGoesOn /\ \A j \in Pairs : Untouched(j)
<1>1. /\ UNCHANGED <<total, pairs, ending, inline, stage, pc, msg, chan, received>>
      /\ PerPair' = PerPair /\ TypeOK
    BY DEF IndInv, MainEnds, ConcurrentFails, setting, PerPair, NumPairs
<1>2. main' \in {"canceling", "ok", "failed"} /\ (main \in {"canceling", "failed"} => main' \in {"canceling", "failed"})
    BY DEF MainEnds, ConcurrentFails, NextPair
<1>3. TypeOK'
    BY <1>1, <1>2 DEF TypeOK
<1>4. MainGoesOn /\ \A j \in Pairs : Untouched(j)
    BY <1>1, <1>2 DEF MainGoesOn, setting, Untouched
<1> QED
    BY <1>3, <1>4

(* What a step of one pair says of all of them. *)
LEMMA AllPairs ==
    ASSUME IndInv, NEW i \in Pairs, PairInv(i)', MainGoesOn, \A j \in Pairs \ {i} : Untouched(j)
    PROVE  \A j \in Pairs : PairInv(j)'
<1> SUFFICES ASSUME NEW j \in Pairs PROVE PairInv(j)'
    OBVIOUS
<1>1. CASE j = i
    BY <1>1
<1>2. CASE j # i
  <2>1. PairInv(j) /\ Untouched(j)
      BY <1>2 DEF IndInv
  <2> QED
      BY <2>1, OtherPairs
<1> QED
    BY <1>1, <1>2

LEMMA InitInv == Init => IndInv
<1> SUFFICES ASSUME Init PROVE IndInv
    OBVIOUS
<1>1. PerPair \in Nat \ {0} /\ total \in Totals /\ pairs \in PairsOptions
    BY Shares DEF Init
<1>2. TypeOK
  <2>1. 0 \in 0 .. PerPair + 1 /\ 0 \in 0 .. PerPair + 2
      BY <1>1
  <2>2. [buf |-> <<>>, closed |-> FALSE] \in [buf : {<<>>} \union {<<v>> : v \in 0 .. PerPair + 1}, closed : BOOLEAN]
      OBVIOUS
  <2>3. /\ chan = [i \in Pairs |-> [p \in Players |-> [buf |-> <<>>, closed |-> FALSE]]]
        /\ chan \in [Pairs -> [Players -> [buf : {<<>>} \union {<<v>> : v \in 0 .. PerPair + 1}, closed : BOOLEAN]]]
      BY <2>2 DEF Init
  <2> QED
      BY <2>1, <2>3 DEF Init, TypeOK
<1>3. Awaits
    BY DEF Init, Awaits
<1>4. ASSUME NEW i \in Pairs PROVE PairInv(i)
  <2>1. /\ "A" \in Players /\ "B" \in Players /\ stage[i] = "unborn" /\ received[i] = 0 /\ main = "spawning"
        /\ \A p \in Players : /\ pc[i][p] = "unborn" /\ msg[i][p] = 0
                              /\ chan[i][p].buf = <<>> /\ chan[i][p].closed = FALSE
      BY DEF Init, Players
  <2>2. \A p \in Players : Peer(p) \in Players
      BY TwoPlayers
  <2> USE <1>1, <2>1, <2>2 DEF InChannel, InHand
  <2>3. Single(i)
      BY DEF Single
  <2>4. Counts(i)
      BY DEF Counts
  <2>5. Starts(i)
      BY DEF Starts
  <2>6. Closes(i)
      BY DEF Closes
  <2>7. Releases(i)
      BY DEF Releases
  <2>8. EndsLate(i)
      BY DEF EndsLate
  <2> QED
      BY <2>3, <2>4, <2>5, <2>6, <2>7, <2>8 DEF PairInv
<1> QED
    BY <1>2, <1>3, <1>4 DEF IndInv

LEMMA StepInv == IndInv /\ [Next]_vars => IndInv'
<1> SUFFICES ASSUME IndInv, [Next]_vars PROVE IndInv'
    OBVIOUS
<1>1. CASE Next
  <2>1. Awaits'
      BY <1>1, AwaitsStep
  <2>2. ASSUME NEW i \in Pairs, NEW p \in Players,
               \/ Task(i, p) \/ Concurrent(i) \/ Async(i, p) \/ InlineEnds(i, p)
               \/ SpawnFails(i, p) \/ PairEnds(i)
        PROVE  TypeOK' /\ \A j \in Pairs : PairInv(j)'
    <3>1. TypeOK' /\ PairInv(i)' /\ MainGoesOn /\ \A j \in Pairs \ {i} : Untouched(j)
        BY <2>2, SendPair, ReleasePair, CanceledPair, ReceiveClosedPair, ReceivePair, StagePair DEF Task
    <3> QED
        BY <3>1, AllPairs
  <2>3. ASSUME NEW i \in Pairs, MainEnds \/ ConcurrentFails(i)
        PROVE  TypeOK' /\ \A j \in Pairs : PairInv(j)'
    <3>1. TypeOK' /\ MainGoesOn /\ \A j \in Pairs : Untouched(j)
        BY <2>3, MainStep
    <3> QED
        BY <3>1, OtherPairs DEF IndInv
  <2>4. 1 \in Pairs /\ "A" \in Players
      BY DEF Pairs, Players
  <2>5. TypeOK' /\ \A j \in Pairs : PairInv(j)'
    <3>1. CASE MainEnds
        BY <2>3, <2>4, <3>1
    <3>2. CASE \E i \in Pairs : Concurrent(i) \/ PairEnds(i)
        BY <2>2, <2>4, <3>2
    <3>3. CASE \E i \in Pairs : ConcurrentFails(i)
        BY <2>3, <3>3
    <3>4. CASE \E i \in Pairs, p \in Players : Task(i, p) \/ Async(i, p) \/ InlineEnds(i, p) \/ SpawnFails(i, p)
        BY <2>2, <3>4
    <3> QED
        BY <1>1, <3>1, <3>2, <3>3, <3>4 DEF Next, Main, Pair
  <2> QED
      BY <2>1, <2>5 DEF IndInv
<1>2. CASE UNCHANGED vars
  <2>1. TypeOK' /\ Awaits'
      BY <1>2 DEF IndInv, vars, setting, TypeOK, Awaits, PerPair, NumPairs
  <2>2. MainGoesOn /\ \A j \in Pairs : Untouched(j)
      BY <1>2 DEF vars, MainGoesOn, Untouched
  <2> QED
      BY <2>1, <2>2, OtherPairs DEF IndInv
<1> QED
    BY <1>1, <1>2

(* The invariant of main and its pairs. *)
THEOREM Invariance == Spec => []IndInv
BY InitInv, StepInv, PTL DEF Spec

(* A pair has one counter, in one channel or in the hands of one task: in  *)
(* every program, with any number of pairs, whatever main or a spawn does. *)
THEOREM OneCounter == Spec => []OneMessageInFlight
<1>1. ASSUME IndInv PROVE OneMessageInFlight
  <2>1. ASSUME NEW i \in Pairs, NEW x \in Token(i), NEW y \in Token(i) PROVE x = y
    <3>1. \A z \in Token(i) :
              \E p \in Players : (z = <<p, "channel">> /\ InChannel(i, p)) \/ (z = <<p, "task">> /\ InHand(i, p))
      <4> DEFINE C == {p \in Players : InChannel(i, p)}
                 H == {p \in Players : InHand(i, p)}
      <4>1. Token(i) = C \X {"channel"} \union H \X {"task"}
          BY DEF Token, InChannel, InHand
      <4>2. /\ \A z \in C \X {"channel"} : \E p \in C : z = <<p, "channel">>
            /\ \A z \in H \X {"task"} : \E p \in H : z = <<p, "task">>
          OBVIOUS
      <4> QED
          BY <4>1, <4>2
    <3>2. Single(i)
        BY <1>1 DEF IndInv, PairInv
    <3>3. PICK p \in Players : (x = <<p, "channel">> /\ InChannel(i, p)) \/ (x = <<p, "task">> /\ InHand(i, p))
        BY <3>1
    <3>4. PICK q \in Players : (y = <<q, "channel">> /\ InChannel(i, q)) \/ (y = <<q, "task">> /\ InHand(i, q))
        BY <3>1
    <3>5. q = p
        BY <3>2, <3>3, <3>4, TwoPlayers DEF Single
    <3> QED
        BY <3>2, <3>3, <3>4, <3>5 DEF Single
  <2> QED
      BY <1>1, <2>1 DEF OneMessageInFlight, IndInv
<1> QED
    BY <1>1, Invariance, PTL

(* No task ever sends on a channel its peer or itself has closed, which is *)
(* why the sends of the model need no error branch.                        *)
THEOREM SendsAccepted == Spec => []NoSendRefused
<1>1. IndInv => NoSendRefused
    BY DEF IndInv, PairInv, Closes, NoSendRefused, InHand
<1> QED
    BY <1>1, Invariance, PTL

(* When the program ends normally every pair that started both its tasks   *)
(* has bounced total / pairs messages, for every total and number of pairs.*)
THEOREM SharesBounced == Spec => []BouncesItsShare
<1>1. ASSUME IndInv, main = "ok", NEW i \in 1 .. NumPairs, stage[i] # "failed"
      PROVE  received[i] - (IF ending = "release" THEN 1 ELSE 0) = PerPair
  <2>1. i \in Pairs /\ PerPair \in Nat \ {0} /\ received[i] \in 0 .. PerPair + 2 /\ PairInv(i)
      BY <1>1, Shares DEF IndInv, TypeOK
  <2>2. stage[i] = "returned" /\ \A p \in Players : pc[i][p] = "done"
      BY <1>1, <2>1 DEF IndInv, Awaits, PairInv, Starts
  <2>3. "A" \in Players /\ \A p \in Players : Peer(p) \in Players
      BY TwoPlayers DEF Players
  <2>4. CASE ending = "release"
    <3>1. received[i] <= PerPair + 1 /\ ~(received[i] < PerPair) /\ received[i] # PerPair
        BY <2>1, <2>2, <2>3, <2>4 DEF PairInv, Releases
    <3> QED
        BY <2>1, <2>4, <3>1
  <2>5. CASE ending # "release"
      BY <1>1, <2>1, <2>2, <2>3, <2>5 DEF PairInv, EndsLate
  <2> QED
      BY <2>4, <2>5
<1>2. ASSUME IndInv PROVE BouncesItsShare
  <2>1. /\ PerPair \in Nat \ {0} /\ (PerPair = 1 \/ NumPairs * PerPair <= total)
        /\ NumPairs * (PerPair + 1) > total
      BY <1>2, Shares DEF IndInv, TypeOK
  <2> QED
      BY <1>1, <1>2, <2>1 DEF BouncesItsShare
<1> QED
    BY <1>2, Invariance, PTL
=============================================================================
