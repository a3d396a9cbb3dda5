------------------------- MODULE FutexChannelProofs -------------------------
(* Theorems about FutexChannel, for every set of tasks and every capacity. *)
EXTENDS FutexChannel, SequenceTheorems, TLAPS

-----------------------------------------------------------------------------
(* Waiter lists: popFirst, append and remove.                              *)

(* popFirst returns an element of the list, and the rest holds the others. *)
LEMMA PopFirst ==
    ASSUME NEW S, NEW q \in Seq(S), q # <<>>, IsInjective(q)
    PROVE  /\ Head(q) \in S
           /\ Head(q) \in Range(q)
           /\ Tail(q) \in Seq(S)
           /\ IsInjective(Tail(q))
           /\ Range(Tail(q)) = Range(q) \ {Head(q)}
<1> DEFINE r == Tail(q)
<1>1. /\ Len(q) \in Nat \ {0} /\ DOMAIN q = 1 .. Len(q)
      /\ Head(q) = q[1] /\ Head(q) \in S
    BY EmptySeq, LenProperties, ElementOfSeq, HeadTailProperties
<1>2. /\ r \in Seq(S) /\ Len(r) = Len(q) - 1 /\ DOMAIN r = 1 .. Len(r)
      /\ \A i \in 1 .. Len(r) : r[i] = q[i + 1]
    BY HeadTailProperties, LenProperties
<1>3. IsInjective(r)
    BY <1>1, <1>2 DEF IsInjective
<1>4. Range(r) = Range(q) \ {Head(q)}
  <2>1. ASSUME NEW x \in Range(r) PROVE x \in Range(q) \ {Head(q)}
    <3>1. PICK i \in 1 .. Len(r) : x = r[i]
        BY <1>2 DEF Range
    <3>2. i + 1 \in 1 .. Len(q) /\ x = q[i + 1] /\ i + 1 # 1
        BY <3>1, <1>1, <1>2
    <3> QED
        BY <3>2, <1>1 DEF Range, IsInjective
  <2>2. ASSUME NEW x \in Range(q), x # Head(q) PROVE x \in Range(r)
    <3>1. PICK i \in 1 .. Len(q) : x = q[i]
        BY <1>1 DEF Range
    <3>2. i - 1 \in 1 .. Len(r) /\ x = r[i - 1]
        BY <3>1, <2>2, <1>1, <1>2
    <3> QED
        BY <3>2, <1>2 DEF Range
  <2> QED
      BY <2>1, <2>2
<1>5. Head(q) \in Range(q)
    BY <1>1 DEF Range
<1> QED
    BY <1>1, <1>2, <1>3, <1>4, <1>5

(* append keeps a list free of duplicates when the new element is not in it. *)
LEMMA AppendNew ==
    ASSUME NEW S, NEW q \in Seq(S), NEW x \in S, IsInjective(q), x \notin Range(q)
    PROVE  /\ Append(q, x) \in Seq(S)
           /\ Append(q, x) # <<>>
           /\ IsInjective(Append(q, x))
           /\ Range(Append(q, x)) = Range(q) \union {x}
<1> DEFINE r == Append(q, x)
<1>1. /\ r \in Seq(S) /\ Len(r) = Len(q) + 1 /\ r[Len(q) + 1] = x
      /\ \A i \in 1 .. Len(q) : r[i] = q[i]
    BY AppendProperties
<1>2. DOMAIN q = 1 .. Len(q) /\ DOMAIN r = 1 .. Len(r) /\ Len(q) \in Nat
    BY <1>1, LenProperties
<1>3. IsInjective(r)
  <2>1. SUFFICES ASSUME NEW i \in 1 .. Len(r), NEW j \in 1 .. Len(r), r[i] = r[j]
                 PROVE  i = j
      BY <1>2 DEF IsInjective
  <2>2. \A k \in 1 .. Len(q) : r[k] \in Range(q)
      BY <1>1, <1>2 DEF Range
  <2> QED
      BY <1>1, <1>2, <2>1, <2>2 DEF IsInjective
<1>4. Range(r) = Range(q) \union {x}
    BY <1>1, <1>2 DEF Range
<1>5. r # <<>>
    BY <1>1, <1>2, EmptySeq
<1> QED
    BY <1>1, <1>3, <1>4, <1>5

(* remove takes out exactly the given element. *)
LEMMA RemoveOne ==
    ASSUME NEW S, NEW q \in Seq(S), NEW k \in DOMAIN q, IsInjective(q)
    PROVE  /\ RemoveAt(q, k) \in Seq(S)
           /\ IsInjective(RemoveAt(q, k))
           /\ Range(RemoveAt(q, k)) = Range(q) \ {q[k]}
<1> DEFINE r == RemoveAt(q, k)
           a == SubSeq(q, 1, k - 1)
           b == SubSeq(q, k + 1, Len(q))
<1>1. Len(q) \in Nat /\ DOMAIN q = 1 .. Len(q) /\ k \in 1 .. Len(q)
    BY LenProperties
<1>2. /\ a \in Seq(S) /\ Len(a) = k - 1
      /\ \A i \in 1 .. k - 1 : a[i] = q[i]
  <2>1. \A i \in 1 .. k - 1 : q[i] \in S
      BY <1>1, ElementOfSeq
  <2> QED
      BY <1>1, <2>1, SubSeqProperties
<1>3. /\ b \in Seq(S) /\ Len(b) = Len(q) - k
      /\ \A i \in 1 .. Len(q) - k : b[i] = q[k + i]
  <2>1. \A i \in k + 1 .. Len(q) : q[i] \in S
      BY <1>1, ElementOfSeq
  <2> QED
      BY <1>1, <2>1, SubSeqProperties
<1>4. r = a \o b
    BY DEF RemoveAt
<1>5. /\ r \in Seq(S) /\ Len(r) = Len(q) - 1 /\ DOMAIN r = 1 .. Len(r)
      /\ \A i \in 1 .. Len(r) : i < k => r[i] = q[i]
      /\ \A i \in 1 .. Len(r) : i >= k => r[i] = q[i + 1]
  <2> HIDE DEF a, b, r
  <2>1. /\ r \in Seq(S) /\ Len(r) = Len(a) + Len(b)
        /\ \A i \in 1 .. Len(a) + Len(b) :
               r[i] = IF i <= Len(a) THEN a[i] ELSE b[i - Len(a)]
      BY <1>2, <1>3, <1>4, ConcatProperties
  <2>2. Len(r) = Len(q) - 1
      BY <1>1, <1>2, <1>3, <2>1
  <2>3. ASSUME NEW i \in 1 .. Len(r), i < k PROVE r[i] = q[i]
    <3>1. i \in 1 .. Len(a) + Len(b) /\ i <= Len(a) /\ i \in 1 .. k - 1
        BY <1>1, <1>2, <1>3, <2>1, <2>2, <2>3
    <3>2. r[i] = a[i]
        BY <3>1, <2>1
    <3> QED
        BY <3>1, <3>2, <1>2
  <2>4. ASSUME NEW i \in 1 .. Len(r), i >= k PROVE r[i] = q[i + 1]
    <3>1. /\ i \in 1 .. Len(a) + Len(b) /\ ~(i <= Len(a))
          /\ i - Len(a) \in 1 .. Len(q) - k /\ k + (i - Len(a)) = i + 1
      <4>1. Len(a) = k - 1 /\ Len(b) = Len(q) - k /\ Len(r) = Len(q) - 1
          BY <1>2, <1>3, <2>2
      <4>2. i \in Nat /\ k \in Nat /\ Len(q) \in Nat /\ k <= i /\ i <= Len(q) - 1 /\ 1 <= k
          BY <1>1, <4>1, <2>4
      <4> QED
          BY <4>1, <4>2
    <3>2. r[i] = b[i - Len(a)]
        BY <3>1, <2>1
    <3>3. b[i - Len(a)] = q[k + (i - Len(a))]
        BY <3>1, <1>3
    <3> QED
        BY <3>1, <3>2, <3>3
  <2> QED
      BY <2>1, <2>2, <2>3, <2>4, LenProperties
<1> HIDE DEF a, b, r
<1>6. IsInjective(r)
  <2>1. SUFFICES ASSUME NEW i \in 1 .. Len(r), NEW j \in 1 .. Len(r), r[i] = r[j]
                 PROVE  i = j
      BY <1>5 DEF IsInjective
  <2>2. PICK m \in DOMAIN q : r[i] = q[m] /\ m = IF i < k THEN i ELSE i + 1
      BY <1>1, <1>5
  <2>3. PICK n \in DOMAIN q : r[j] = q[n] /\ n = IF j < k THEN j ELSE j + 1
      BY <1>1, <1>5
  <2>4. m = n
      BY <2>1, <2>2, <2>3 DEF IsInjective
  <2> QED
      BY <2>2, <2>3, <2>4, <1>1, <1>5
<1>7. Range(r) = Range(q) \ {q[k]}
  <2>1. ASSUME NEW x \in Range(r) PROVE x \in Range(q) \ {q[k]}
    <3>1. PICK i \in 1 .. Len(r) : x = r[i]
        BY <1>5 DEF Range
    <3>2. PICK j \in 1 .. Len(q) : x = q[j] /\ j # k
        BY <3>1, <1>1, <1>5
    <3> QED
        BY <3>2, <1>1 DEF Range, IsInjective
  <2>2. ASSUME NEW x \in Range(q), x # q[k] PROVE x \in Range(r)
    <3>1. PICK j \in 1 .. Len(q) : x = q[j] /\ j # k
        BY <2>2, <1>1 DEF Range
    <3>2. \E i \in 1 .. Len(r) : x = r[i]
      <4>1. CASE j < k
          BY <4>1, <3>1, <1>1, <1>5
      <4>2. CASE j > k
        <5>1. j - 1 \in 1 .. Len(r) /\ x = r[j - 1]
            BY <4>2, <3>1, <1>1, <1>5
        <5> QED
            BY <5>1
      <4> QED
          BY <4>1, <4>2, <3>1, <1>1
    <3> QED
        BY <3>2, <1>5 DEF Range
  <2> QED
      BY <2>1, <2>2
<1> QED
    BY <1>5, <1>6, <1>7 DEF r
-----------------------------------------------------------------------------
(* The steps of the channel preserve its invariant.                        *)

(* The invariant holds in a fresh channel, before any call (init, line 205). *)
LEMMA InitInv == Init => IndInv
<1> SUFFICES ASSUME Init PROVE IndInv
    OBVIOUS
<1> USE FutexChannelAssumption DEF Init
<1>1. TypeOK
  <2>1. senders \in Seq(Tasks) /\ receivers \in Seq(Tasks)
      BY EmptySeq
  <2>2. /\ head \in Nat /\ tail \in Nat /\ count \in 0 .. Capacity
        /\ Capacity > 0 => head \in Slots /\ tail \in Slots
      BY DEF Slots
  <2> QED
      BY <2>1, <2>2 DEF TypeOK, PCs
<1>2. MutexHeld
    BY DEF MutexHeld, Holding
<1>3. ControlState
    BY DEF ControlState, Waiting, Parking
<1>4. ListsHoldLiveWaiters
  <2>1. DOMAIN <<>> = {}
      OBVIOUS
  <2>2. IsInjective(<<>>) /\ Range(<<>>) = {}
      BY <2>1 DEF IsInjective, Range
  <2> QED
      BY <2>2 DEF ListsHoldLiveWaiters, Waiting
<1>5. WakeInProgress /\ ClaimedIsWoken
    BY DEF WakeInProgress, ClaimedIsWoken, Parking
<1>6. WaitersJustified
    BY DEF WaitersJustified
<1> QED
    BY <1>1, <1>2, <1>3, <1>4, <1>5, <1>6 DEF IndInv

(* A slot index stays one when it is advanced. *)
LEMMA SuccInSlots ==
    ASSUME NEW i \in Slots, Capacity > 0
    PROVE  Succ(i) \in Slots
BY FutexChannelAssumption DEF Succ, Slots

(* What a task that holds, or just took, the mutex finds at the front of   *)
(* the list of receivers: a parked task other than itself.                 *)
LEMMA FirstReceiver ==
    ASSUME IndInv, receivers # <<>>,
           NEW t \in Tasks, pc[t] \in {"lock", "closing"}, mutex \in {NoTask, t}
    PROVE  /\ Head(receivers) \in Tasks \ {t}
           /\ queued[Head(receivers)]
           /\ op[Head(receivers)] = "receive"
           /\ pc[Head(receivers)] \in Parking
           /\ futex[Head(receivers)] = 0
           /\ Tail(receivers) \in Seq(Tasks)
           /\ IsInjective(Tail(receivers))
           /\ Range(Tail(receivers)) = Range(receivers) \ {Head(receivers)}
<1> DEFINE w == Head(receivers)
<1>1. /\ w \in Tasks /\ w \in Range(receivers)
      /\ Tail(receivers) \in Seq(Tasks)
      /\ IsInjective(Tail(receivers))
      /\ Range(Tail(receivers)) = Range(receivers) \ {w}
    BY PopFirst DEF IndInv, TypeOK, ListsHoldLiveWaiters
<1>2. queued[w] /\ op[w] = "receive" /\ Waiting(w)
    BY <1>1 DEF IndInv, ListsHoldLiveWaiters
<1>3. w # t /\ pc[w] \in Parking /\ futex[w] = 0
    BY <1>1, <1>2, FutexChannelAssumption
    DEF IndInv, MutexHeld, ControlState, Waiting, Holding, Parking
<1> QED
    BY <1>1, <1>2, <1>3

(* The same for the list of senders. *)
LEMMA FirstSender ==
    ASSUME IndInv, senders # <<>>,
           NEW t \in Tasks, pc[t] \in {"lock", "closing"}, mutex \in {NoTask, t}
    PROVE  /\ Head(senders) \in Tasks \ {t}
           /\ queued[Head(senders)]
           /\ op[Head(senders)] = "send"
           /\ pc[Head(senders)] \in Parking
           /\ futex[Head(senders)] = 0
           /\ Tail(senders) \in Seq(Tasks)
           /\ IsInjective(Tail(senders))
           /\ Range(Tail(senders)) = Range(senders) \ {Head(senders)}
<1> DEFINE w == Head(senders)
<1>1. /\ w \in Tasks /\ w \in Range(senders)
      /\ Tail(senders) \in Seq(Tasks)
      /\ IsInjective(Tail(senders))
      /\ Range(Tail(senders)) = Range(senders) \ {w}
    BY PopFirst DEF IndInv, TypeOK, ListsHoldLiveWaiters
<1>2. queued[w] /\ op[w] = "send" /\ Waiting(w)
    BY <1>1 DEF IndInv, ListsHoldLiveWaiters
<1>3. w # t /\ pc[w] \in Parking /\ futex[w] = 0
    BY <1>1, <1>2, FutexChannelAssumption
    DEF IndInv, MutexHeld, ControlState, Waiting, Holding, Parking
<1> QED
    BY <1>1, <1>2, <1>3


(* A call of send, receive or close preserves the invariant. *)
LEMMA CallInv ==
    ASSUME IndInv, NEW t \in Tasks, NEW o \in {"send", "receive", "close"},
           NEW v \in Items \union {Undefined}, Invoke(t, o, v)
    PROVE  IndInv'
<1> USE FutexChannelAssumption DEF IndInv, Invoke, ring, lists, waiter
<1>1. TypeOK'
    BY DEF TypeOK, PCs, Parking, Holding, Results
<1>2. MutexHeld'
    BY DEF TypeOK, MutexHeld, Parking, Holding
<1>3. ControlState'
    BY DEF TypeOK, MutexHeld, ControlState, Waiting, Parking, Holding, ListsHoldLiveWaiters, WakeInProgress
<1>4. ListsHoldLiveWaiters'
    BY DEF TypeOK, MutexHeld, ControlState, ListsHoldLiveWaiters, Waiting, Parking, Holding
<1>5. WakeInProgress'
    BY DEF TypeOK, MutexHeld, ControlState, ListsHoldLiveWaiters, Waiting, WakeInProgress, Parking, Holding
<1>6. ClaimedIsWoken'
    BY DEF TypeOK, MutexHeld, ControlState, WakeInProgress, ClaimedIsWoken, Parking, Holding
<1>7. WaitersJustified'
    BY DEF TypeOK, MutexHeld, ControlState, WakeInProgress, WaitersJustified, Parking, Holding
<1> QED
    BY <1>1, <1>2, <1>3, <1>4, <1>5, <1>6, <1>7

(* Cancellation and spurious wake-ups preserve the invariant (lines 74-75, 96). *)
LEMMA RuntimeInv ==
    ASSUME IndInv, NEW t \in Tasks, Runtime(t)
    PROVE  IndInv'
<1> USE FutexChannelAssumption DEF IndInv, ring, lists, waiter
<1>1. CASE LockCanceled(t)
  <2> USE <1>1 DEF LockCanceled
  <2>1. TypeOK'
      BY DEF TypeOK, PCs, Parking, Holding, Results
  <2>2. MutexHeld'
      BY DEF TypeOK, MutexHeld, Parking, Holding
  <2>3. ControlState'
      BY DEF TypeOK, MutexHeld, ControlState, Waiting, Parking, Holding, ListsHoldLiveWaiters, WakeInProgress
  <2>4. ListsHoldLiveWaiters'
      BY DEF TypeOK, MutexHeld, ControlState, ListsHoldLiveWaiters, Waiting, Parking, Holding
  <2>5. WakeInProgress'
      BY DEF TypeOK, MutexHeld, ControlState, ListsHoldLiveWaiters, Waiting, WakeInProgress, Parking, Holding
  <2>6. ClaimedIsWoken'
      BY DEF TypeOK, MutexHeld, ControlState, WakeInProgress, ClaimedIsWoken, Parking, Holding
  <2>7. WaitersJustified'
      BY DEF TypeOK, MutexHeld, ControlState, WakeInProgress, WaitersJustified, Parking, Holding
  <2> QED
      BY <2>1, <2>2, <2>3, <2>4, <2>5, <2>6, <2>7
<1>2. CASE SpuriousWake(t)
  <2> USE <1>2 DEF SpuriousWake, Move
  <2>1. TypeOK'
      BY DEF TypeOK, PCs, Parking, Holding, Results
  <2>2. MutexHeld'
      BY DEF TypeOK, MutexHeld, Parking, Holding
  <2>3. ControlState'
      BY DEF TypeOK, MutexHeld, ControlState, Waiting, Parking, Holding, ListsHoldLiveWaiters, WakeInProgress
  <2>4. ListsHoldLiveWaiters'
      BY DEF TypeOK, MutexHeld, ControlState, ListsHoldLiveWaiters, Waiting, Parking, Holding
  <2>5. WakeInProgress'
      BY DEF TypeOK, MutexHeld, ControlState, ListsHoldLiveWaiters, Waiting, WakeInProgress, Parking, Holding
  <2>6. ClaimedIsWoken'
      BY DEF TypeOK, MutexHeld, ControlState, WakeInProgress, ClaimedIsWoken, Parking, Holding
  <2>7. WaitersJustified'
      BY DEF TypeOK, MutexHeld, ControlState, WakeInProgress, WaitersJustified, Parking, Holding
  <2> QED
      BY <2>1, <2>2, <2>3, <2>4, <2>5, <2>6, <2>7
<1>3. CASE FutexCanceled(t)
  <2> USE <1>3 DEF FutexCanceled, Move
  <2>1. TypeOK'
      BY DEF TypeOK, PCs, Parking, Holding, Results
  <2>2. MutexHeld'
      BY DEF TypeOK, MutexHeld, Parking, Holding
  <2>3. ControlState'
      BY DEF TypeOK, MutexHeld, ControlState, Waiting, Parking, Holding, ListsHoldLiveWaiters, WakeInProgress
  <2>4. ListsHoldLiveWaiters'
      BY DEF TypeOK, MutexHeld, ControlState, ListsHoldLiveWaiters, Waiting, Parking, Holding
  <2>5. WakeInProgress'
      BY DEF TypeOK, MutexHeld, ControlState, ListsHoldLiveWaiters, Waiting, WakeInProgress, Parking, Holding
  <2>6. ClaimedIsWoken'
      BY DEF TypeOK, MutexHeld, ControlState, WakeInProgress, ClaimedIsWoken, Parking, Holding
  <2>7. WaitersJustified'
      BY DEF TypeOK, MutexHeld, ControlState, WakeInProgress, WaitersJustified, Parking, Holding
  <2> QED
      BY <2>1, <2>2, <2>3, <2>4, <2>5, <2>6, <2>7
<1> QED
    BY <1>1, <1>2, <1>3 DEF Runtime

(* The critical section of send preserves the invariant (lines 96-126). *)
LEMMA SendInv ==
    ASSUME IndInv, NEW t \in Tasks, Send(t)
    PROVE  IndInv'
<1> USE FutexChannelAssumption DEF IndInv, ring, lists, waiter
<1>1. CASE SendClosed(t)
  <2> USE <1>1 DEF SendClosed, Enter, Acquire, Finish
  <2>1. TypeOK'
      BY DEF TypeOK, PCs, Parking, Holding, Results
  <2>2. MutexHeld'
      BY DEF TypeOK, MutexHeld, Parking, Holding
  <2>3. ControlState'
      BY DEF TypeOK, MutexHeld, ControlState, Waiting, Parking, Holding, ListsHoldLiveWaiters, WakeInProgress
  <2>4. ListsHoldLiveWaiters'
      BY DEF TypeOK, MutexHeld, ControlState, ListsHoldLiveWaiters, Waiting, Parking, Holding
  <2>5. WakeInProgress'
      BY DEF TypeOK, MutexHeld, ControlState, ListsHoldLiveWaiters, Waiting, WakeInProgress, Parking, Holding
  <2>6. ClaimedIsWoken'
      BY DEF TypeOK, MutexHeld, ControlState, WakeInProgress, ClaimedIsWoken, Parking, Holding
  <2>7. WaitersJustified'
      BY DEF TypeOK, MutexHeld, ControlState, WakeInProgress, WaitersJustified, Parking, Holding
  <2> QED
      BY <2>1, <2>2, <2>3, <2>4, <2>5, <2>6, <2>7
<1>2. CASE SendHandoff(t)
  <2> USE <1>2 DEF SendHandoff, Enter, Acquire, Claim
  <2>1. TypeOK'
      BY FirstReceiver DEF TypeOK, PCs, Parking, Holding, Results
  <2>2. MutexHeld'
      BY DEF TypeOK, MutexHeld, Parking, Holding
  <2>3. ControlState'
      BY FirstReceiver DEF TypeOK, MutexHeld, ControlState, Waiting, Parking, Holding, ListsHoldLiveWaiters, WakeInProgress
  <2>4. ListsHoldLiveWaiters'
      BY FirstReceiver DEF TypeOK, MutexHeld, ControlState, ListsHoldLiveWaiters, Waiting, Parking, Holding
  <2>5. WakeInProgress'
      BY FirstReceiver DEF TypeOK, MutexHeld, ControlState, ListsHoldLiveWaiters, Waiting, WakeInProgress, Parking, Holding
  <2>6. ClaimedIsWoken'
      BY FirstReceiver DEF TypeOK, MutexHeld, ControlState, WakeInProgress, ClaimedIsWoken, Parking, Holding
  <2>7. WaitersJustified'
      BY DEF TypeOK, MutexHeld, ControlState, WakeInProgress, WaitersJustified, Parking, Holding
  <2> QED
      BY <2>1, <2>2, <2>3, <2>4, <2>5, <2>6, <2>7
<1>3. CASE SendBuffer(t)
  <2> USE <1>3 DEF SendBuffer, Enter, Acquire, Finish, Put
  <2>1. TypeOK'
    <3>1. count \in Nat /\ Capacity \in Nat /\ Capacity > 0 /\ Succ(tail) \in Slots /\ Succ(tail) \in Nat
        BY SuccInSlots DEF TypeOK, Slots
    <3> QED
        BY <3>1 DEF TypeOK, PCs, Parking, Holding, Results
  <2>2. MutexHeld'
      BY DEF TypeOK, MutexHeld, Parking, Holding
  <2>3. ControlState'
      BY DEF TypeOK, MutexHeld, ControlState, Waiting, Parking, Holding, ListsHoldLiveWaiters, WakeInProgress
  <2>4. ListsHoldLiveWaiters'
      BY DEF TypeOK, MutexHeld, ControlState, ListsHoldLiveWaiters, Waiting, Parking, Holding
  <2>5. WakeInProgress'
      BY DEF TypeOK, MutexHeld, ControlState, ListsHoldLiveWaiters, Waiting, WakeInProgress, Parking, Holding
  <2>6. ClaimedIsWoken'
      BY DEF TypeOK, MutexHeld, ControlState, WakeInProgress, ClaimedIsWoken, Parking, Holding
  <2>7. WaitersJustified'
      BY DEF TypeOK, MutexHeld, ControlState, WakeInProgress, WaitersJustified, Parking, Holding
  <2> QED
      BY <2>1, <2>2, <2>3, <2>4, <2>5, <2>6, <2>7
<1>4. CASE SendBlock(t)
  <2> USE <1>4 DEF SendBlock, Enter, Acquire, Block
  <2>1. TypeOK'
      BY AppendProperties DEF TypeOK, PCs, Parking, Holding, Results
  <2>2. MutexHeld'
      BY DEF TypeOK, MutexHeld, Parking, Holding
  <2>3. ControlState'
      BY DEF TypeOK, MutexHeld, ControlState, Waiting, Parking, Holding, ListsHoldLiveWaiters, WakeInProgress
  <2>4. ListsHoldLiveWaiters'
    <3>1. ~queued[t] /\ t \notin Range(senders)
        BY DEF ListsHoldLiveWaiters, Waiting, Parking
    <3>2. /\ senders' \in Seq(Tasks) /\ IsInjective(senders')
          /\ Range(senders') = Range(senders) \union {t}
        BY <3>1, AppendNew DEF TypeOK, ListsHoldLiveWaiters
    <3>3. ret[t] = "none"
        BY DEF ControlState
    <3> QED
        BY <3>1, <3>2, <3>3 DEF TypeOK, ListsHoldLiveWaiters, Waiting, Parking
  <2>5. WakeInProgress'
      BY DEF TypeOK, MutexHeld, ControlState, ListsHoldLiveWaiters, Waiting, WakeInProgress, Parking, Holding
  <2>6. ClaimedIsWoken'
      BY DEF TypeOK, MutexHeld, ControlState, WakeInProgress, ClaimedIsWoken, Parking, Holding
  <2>7. WaitersJustified'
      BY DEF TypeOK, MutexHeld, ControlState, WakeInProgress, WaitersJustified, Parking, Holding
  <2> QED
      BY <2>1, <2>2, <2>3, <2>4, <2>5, <2>6, <2>7
<1> QED
    BY <1>1, <1>2, <1>3, <1>4 DEF Send

(* The critical section of receive preserves the invariant (lines 133-173). *)
LEMMA ReceiveInv ==
    ASSUME IndInv, NEW t \in Tasks, Receive(t)
    PROVE  IndInv'
<1> USE FutexChannelAssumption DEF IndInv, ring, lists, waiter
<1>1. CASE ReceiveBuffered(t)
  <2> USE <1>1 DEF ReceiveBuffered, Enter, Acquire, Finish
  <2>1. TypeOK'
    <3>1. /\ count \in Nat /\ Capacity \in Nat /\ Capacity > 0
          /\ Succ(head) \in Slots /\ Succ(head) \in Nat /\ buffer[head] \in Items \union {Undefined}
        BY SuccInSlots DEF TypeOK, Slots
    <3> QED
        BY <3>1 DEF TypeOK, PCs, Parking, Holding, Results
  <2>2. MutexHeld'
      BY DEF TypeOK, MutexHeld, Parking, Holding
  <2>3. ControlState'
      BY DEF TypeOK, MutexHeld, ControlState, Waiting, Parking, Holding, ListsHoldLiveWaiters, WakeInProgress
  <2>4. ListsHoldLiveWaiters'
      BY DEF TypeOK, MutexHeld, ControlState, ListsHoldLiveWaiters, Waiting, Parking, Holding
  <2>5. WakeInProgress'
      BY DEF TypeOK, MutexHeld, ControlState, ListsHoldLiveWaiters, Waiting, WakeInProgress, Parking, Holding
  <2>6. ClaimedIsWoken'
      BY DEF TypeOK, MutexHeld, ControlState, WakeInProgress, ClaimedIsWoken, Parking, Holding
  <2>7. WaitersJustified'
      BY DEF TypeOK, MutexHeld, ControlState, WakeInProgress, WaitersJustified, Parking, Holding
  <2> QED
      BY <2>1, <2>2, <2>3, <2>4, <2>5, <2>6, <2>7
<1>2. CASE ReceiveAndRefill(t)
  <2> USE <1>2 DEF ReceiveAndRefill, Enter, Acquire, Claim, Put
  <2>1. TypeOK'
    <3>1. /\ count \in Nat /\ Capacity \in Nat /\ Capacity > 0
          /\ Succ(head) \in Slots /\ Succ(head) \in Nat /\ buffer[head] \in Items \union {Undefined}
          /\ Succ(tail) \in Slots /\ Succ(tail) \in Nat
        BY SuccInSlots DEF TypeOK, Slots
    <3> QED
        BY <3>1, FirstSender DEF TypeOK, PCs, Parking, Holding, Results
  <2>2. MutexHeld'
      BY DEF TypeOK, MutexHeld, Parking, Holding
  <2>3. ControlState'
      BY FirstSender DEF TypeOK, MutexHeld, ControlState, Waiting, Parking, Holding, ListsHoldLiveWaiters, WakeInProgress
  <2>4. ListsHoldLiveWaiters'
      BY FirstSender DEF TypeOK, MutexHeld, ControlState, ListsHoldLiveWaiters, Waiting, Parking, Holding
  <2>5. WakeInProgress'
      BY FirstSender DEF TypeOK, MutexHeld, ControlState, ListsHoldLiveWaiters, Waiting, WakeInProgress, Parking, Holding
  <2>6. ClaimedIsWoken'
      BY FirstSender DEF TypeOK, MutexHeld, ControlState, WakeInProgress, ClaimedIsWoken, Parking, Holding
  <2>7. WaitersJustified'
      BY DEF TypeOK, MutexHeld, ControlState, WakeInProgress, WaitersJustified, Parking, Holding
  <2> QED
      BY <2>1, <2>2, <2>3, <2>4, <2>5, <2>6, <2>7
<1>3. CASE ReceiveFromSender(t)
  <2> USE <1>3 DEF ReceiveFromSender, Enter, Acquire, Claim
  <2>1. TypeOK'
      BY FirstSender DEF TypeOK, PCs, Parking, Holding, Results
  <2>2. MutexHeld'
      BY DEF TypeOK, MutexHeld, Parking, Holding
  <2>3. ControlState'
      BY FirstSender DEF TypeOK, MutexHeld, ControlState, Waiting, Parking, Holding, ListsHoldLiveWaiters, WakeInProgress
  <2>4. ListsHoldLiveWaiters'
    <3>1. /\ senders' = Tail(senders) /\ receivers' = receivers /\ op' = op
          /\ queued' = [queued EXCEPT ![Head(senders)] = FALSE]
          /\ Head(senders) \in Tasks \ {t} /\ op[Head(senders)] = "send"
          /\ IsInjective(Tail(senders))
          /\ Range(Tail(senders)) = Range(senders) \ {Head(senders)}
        BY FirstSender
    <3>2. ~queued[t] /\ \A x \in Tasks \ {t} : pc'[x] = pc[x] /\ ret'[x] = ret[x]
        BY DEF TypeOK, ListsHoldLiveWaiters, Waiting, Parking
    <3> QED
        BY <3>1, <3>2 DEF TypeOK, ListsHoldLiveWaiters, Waiting
  <2>5. WakeInProgress'
      BY FirstSender DEF TypeOK, MutexHeld, ControlState, ListsHoldLiveWaiters, Waiting, WakeInProgress, Parking, Holding
  <2>6. ClaimedIsWoken'
      BY FirstSender DEF TypeOK, MutexHeld, ControlState, WakeInProgress, ClaimedIsWoken, Parking, Holding
  <2>7. WaitersJustified'
      BY DEF TypeOK, MutexHeld, ControlState, WakeInProgress, WaitersJustified, Parking, Holding
  <2> QED
      BY <2>1, <2>2, <2>3, <2>4, <2>5, <2>6, <2>7
<1>4. CASE ReceiveClosed(t)
  <2> USE <1>4 DEF ReceiveClosed, Enter, Acquire, Finish
  <2>1. TypeOK'
      BY DEF TypeOK, PCs, Parking, Holding, Results
  <2>2. MutexHeld'
      BY DEF TypeOK, MutexHeld, Parking, Holding
  <2>3. ControlState'
      BY DEF TypeOK, MutexHeld, ControlState, Waiting, Parking, Holding, ListsHoldLiveWaiters, WakeInProgress
  <2>4. ListsHoldLiveWaiters'
      BY DEF TypeOK, MutexHeld, ControlState, ListsHoldLiveWaiters, Waiting, Parking, Holding
  <2>5. WakeInProgress'
      BY DEF TypeOK, MutexHeld, ControlState, ListsHoldLiveWaiters, Waiting, WakeInProgress, Parking, Holding
  <2>6. ClaimedIsWoken'
      BY DEF TypeOK, MutexHeld, ControlState, WakeInProgress, ClaimedIsWoken, Parking, Holding
  <2>7. WaitersJustified'
      BY DEF TypeOK, MutexHeld, ControlState, WakeInProgress, WaitersJustified, Parking, Holding
  <2> QED
      BY <2>1, <2>2, <2>3, <2>4, <2>5, <2>6, <2>7
<1>5. CASE ReceiveBlock(t)
  <2> USE <1>5 DEF ReceiveBlock, Enter, Acquire, Block
  <2>1. TypeOK'
      BY AppendProperties DEF TypeOK, PCs, Parking, Holding, Results
  <2>2. MutexHeld'
      BY DEF TypeOK, MutexHeld, Parking, Holding
  <2>3. ControlState'
      BY DEF TypeOK, MutexHeld, ControlState, Waiting, Parking, Holding, ListsHoldLiveWaiters, WakeInProgress
  <2>4. ListsHoldLiveWaiters'
    <3>1. ~queued[t] /\ t \notin Range(receivers)
        BY DEF ListsHoldLiveWaiters, Waiting, Parking
    <3>2. /\ receivers' \in Seq(Tasks) /\ IsInjective(receivers')
          /\ Range(receivers') = Range(receivers) \union {t}
        BY <3>1, AppendNew DEF TypeOK, ListsHoldLiveWaiters
    <3>3. ret[t] = "none"
        BY DEF ControlState
    <3> QED
        BY <3>1, <3>2, <3>3 DEF TypeOK, ListsHoldLiveWaiters, Waiting, Parking
  <2>5. WakeInProgress'
      BY DEF TypeOK, MutexHeld, ControlState, ListsHoldLiveWaiters, Waiting, WakeInProgress, Parking, Holding
  <2>6. ClaimedIsWoken'
      BY DEF TypeOK, MutexHeld, ControlState, WakeInProgress, ClaimedIsWoken, Parking, Holding
  <2>7. WaitersJustified'
      BY DEF TypeOK, MutexHeld, ControlState, WakeInProgress, WaitersJustified, Parking, Holding
  <2> QED
      BY <2>1, <2>2, <2>3, <2>4, <2>5, <2>6, <2>7
<1> QED
    BY <1>1, <1>2, <1>3, <1>4, <1>5 DEF Receive

(* Every iteration of close preserves the invariant (lines 179-196). *)
LEMMA CloseInv ==
    ASSUME IndInv, NEW t \in Tasks, Close(t)
    PROVE  IndInv'
<1> USE FutexChannelAssumption DEF IndInv, ring, lists, waiter
<1>1. CASE CloseAgain(t)
  <2> USE <1>1 DEF CloseAgain, Enter, Acquire, Finish
  <2>1. TypeOK'
      BY DEF TypeOK, PCs, Parking, Holding, Results
  <2>2. MutexHeld'
      BY DEF TypeOK, MutexHeld, Parking, Holding
  <2>3. ControlState'
      BY DEF TypeOK, MutexHeld, ControlState, Waiting, Parking, Holding, ListsHoldLiveWaiters, WakeInProgress
  <2>4. ListsHoldLiveWaiters'
      BY DEF TypeOK, MutexHeld, ControlState, ListsHoldLiveWaiters, Waiting, Parking, Holding
  <2>5. WakeInProgress'
      BY DEF TypeOK, MutexHeld, ControlState, ListsHoldLiveWaiters, Waiting, WakeInProgress, Parking, Holding
  <2>6. ClaimedIsWoken'
      BY DEF TypeOK, MutexHeld, ControlState, WakeInProgress, ClaimedIsWoken, Parking, Holding
  <2>7. WaitersJustified'
      BY DEF TypeOK, MutexHeld, ControlState, WakeInProgress, WaitersJustified, Parking, Holding
  <2> QED
      BY <2>1, <2>2, <2>3, <2>4, <2>5, <2>6, <2>7
<1>2. CASE CloseStart(t)
  <2> USE <1>2 DEF CloseStart, Enter, Acquire
  <2>1. TypeOK'
      BY DEF TypeOK, PCs, Parking, Holding, Results
  <2>2. MutexHeld'
      BY DEF TypeOK, MutexHeld, Parking, Holding
  <2>3. ControlState'
      BY DEF TypeOK, MutexHeld, ControlState, Waiting, Parking, Holding, ListsHoldLiveWaiters, WakeInProgress
  <2>4. ListsHoldLiveWaiters'
      BY DEF TypeOK, MutexHeld, ControlState, ListsHoldLiveWaiters, Waiting, Parking, Holding
  <2>5. WakeInProgress'
      BY DEF TypeOK, MutexHeld, ControlState, ListsHoldLiveWaiters, Waiting, WakeInProgress, Parking, Holding
  <2>6. ClaimedIsWoken'
      BY DEF TypeOK, MutexHeld, ControlState, WakeInProgress, ClaimedIsWoken, Parking, Holding
  <2>7. WaitersJustified'
      BY DEF TypeOK, MutexHeld, ControlState, WakeInProgress, WaitersJustified, Parking, Holding
  <2> QED
      BY <2>1, <2>2, <2>3, <2>4, <2>5, <2>6, <2>7
<1>3. CASE CloseReceiver(t)
  <2> USE <1>3 DEF CloseReceiver, Claim
  <2>1. TypeOK'
      BY FirstReceiver DEF TypeOK, PCs, Parking, Holding, Results
  <2>2. MutexHeld'
      BY DEF TypeOK, MutexHeld, Parking, Holding
  <2>3. ControlState'
      BY FirstReceiver DEF TypeOK, MutexHeld, ControlState, Waiting, Parking, Holding, ListsHoldLiveWaiters, WakeInProgress
  <2>4. ListsHoldLiveWaiters'
      BY FirstReceiver DEF TypeOK, MutexHeld, ControlState, ListsHoldLiveWaiters, Waiting, Parking, Holding
  <2>5. WakeInProgress'
      BY FirstReceiver DEF TypeOK, MutexHeld, ControlState, ListsHoldLiveWaiters, Waiting, WakeInProgress, Parking, Holding
  <2>6. ClaimedIsWoken'
      BY FirstReceiver DEF TypeOK, MutexHeld, ControlState, WakeInProgress, ClaimedIsWoken, Parking, Holding
  <2>7. WaitersJustified'
      BY DEF TypeOK, MutexHeld, ControlState, WakeInProgress, WaitersJustified, Parking, Holding
  <2> QED
      BY <2>1, <2>2, <2>3, <2>4, <2>5, <2>6, <2>7
<1>4. CASE CloseSender(t)
  <2> USE <1>4 DEF CloseSender, Claim
  <2>1. TypeOK'
      BY FirstSender DEF TypeOK, PCs, Parking, Holding, Results
  <2>2. MutexHeld'
      BY DEF TypeOK, MutexHeld, Parking, Holding
  <2>3. ControlState'
      BY FirstSender DEF TypeOK, MutexHeld, ControlState, Waiting, Parking, Holding, ListsHoldLiveWaiters, WakeInProgress
  <2>4. ListsHoldLiveWaiters'
      BY FirstSender DEF TypeOK, MutexHeld, ControlState, ListsHoldLiveWaiters, Waiting, Parking, Holding
  <2>5. WakeInProgress'
      BY FirstSender DEF TypeOK, MutexHeld, ControlState, ListsHoldLiveWaiters, Waiting, WakeInProgress, Parking, Holding
  <2>6. ClaimedIsWoken'
      BY FirstSender DEF TypeOK, MutexHeld, ControlState, WakeInProgress, ClaimedIsWoken, Parking, Holding
  <2>7. WaitersJustified'
      BY DEF TypeOK, MutexHeld, ControlState, WakeInProgress, WaitersJustified, Parking, Holding
  <2> QED
      BY <2>1, <2>2, <2>3, <2>4, <2>5, <2>6, <2>7
<1>5. CASE CloseEnd(t)
  <2> USE <1>5 DEF CloseEnd, Move
  <2>1. TypeOK'
      BY DEF TypeOK, PCs, Parking, Holding, Results
  <2>2. MutexHeld'
      BY DEF TypeOK, MutexHeld, Parking, Holding
  <2>3. ControlState'
      BY DEF TypeOK, MutexHeld, ControlState, Waiting, Parking, Holding, ListsHoldLiveWaiters, WakeInProgress
  <2>4. ListsHoldLiveWaiters'
      BY DEF TypeOK, MutexHeld, ControlState, ListsHoldLiveWaiters, Waiting, Parking, Holding
  <2>5. WakeInProgress'
      BY DEF TypeOK, MutexHeld, ControlState, ListsHoldLiveWaiters, Waiting, WakeInProgress, Parking, Holding
  <2>6. ClaimedIsWoken'
      BY DEF TypeOK, MutexHeld, ControlState, WakeInProgress, ClaimedIsWoken, Parking, Holding
  <2>7. WaitersJustified'
      BY DEF TypeOK, MutexHeld, ControlState, WakeInProgress, WaitersJustified, Parking, Holding
  <2> QED
      BY <2>1, <2>2, <2>3, <2>4, <2>5, <2>6, <2>7
<1> QED
    BY <1>1, <1>2, <1>3, <1>4, <1>5 DEF Close

(* The two halves of wake (lines 65-68) and the unlock preserve the invariant. *)
LEMMA WakeInv ==
    ASSUME IndInv, NEW t \in Tasks, WakeStore(t) \/ WakeFutex(t) \/ Unlock(t)
    PROVE  IndInv'
<1> USE FutexChannelAssumption DEF IndInv, ring, lists, waiter
<1>1. CASE WakeStore(t)
  <2> USE <1>1 DEF WakeStore
  <2>1. TypeOK'
      BY DEF TypeOK, PCs, Parking, Holding, Results
  <2>2. MutexHeld'
      BY DEF TypeOK, MutexHeld, Parking, Holding
  <2>3. ControlState'
      BY DEF TypeOK, MutexHeld, ControlState, Waiting, Parking, Holding, ListsHoldLiveWaiters, WakeInProgress
  <2>4. ListsHoldLiveWaiters'
      BY DEF TypeOK, MutexHeld, ControlState, ListsHoldLiveWaiters, Waiting, Parking, Holding
  <2>5. WakeInProgress'
      BY DEF TypeOK, MutexHeld, ControlState, ListsHoldLiveWaiters, Waiting, WakeInProgress, Parking, Holding
  <2>6. ClaimedIsWoken'
      BY DEF TypeOK, MutexHeld, ControlState, WakeInProgress, ClaimedIsWoken, Parking, Holding
  <2>7. WaitersJustified'
      BY DEF TypeOK, MutexHeld, ControlState, WakeInProgress, WaitersJustified, Parking, Holding
  <2> QED
      BY <2>1, <2>2, <2>3, <2>4, <2>5, <2>6, <2>7
<1>2. CASE WakeFutex(t)
  <2> USE <1>2 DEF WakeFutex, AfterWake
  <2>1. TypeOK'
      BY DEF TypeOK, PCs, Parking, Holding, Results
  <2>2. MutexHeld'
      BY DEF TypeOK, MutexHeld, Parking, Holding
  <2>3. ControlState'
      BY DEF TypeOK, MutexHeld, ControlState, Waiting, Parking, Holding, ListsHoldLiveWaiters, WakeInProgress
  <2>4. ListsHoldLiveWaiters'
      BY DEF TypeOK, MutexHeld, ControlState, ListsHoldLiveWaiters, Waiting, Parking, Holding
  <2>5. WakeInProgress'
      BY DEF TypeOK, MutexHeld, ControlState, ListsHoldLiveWaiters, Waiting, WakeInProgress, Parking, Holding
  <2>6. ClaimedIsWoken'
      BY DEF TypeOK, MutexHeld, ControlState, WakeInProgress, ClaimedIsWoken, Parking, Holding
  <2>7. WaitersJustified'
      BY DEF TypeOK, MutexHeld, ControlState, WakeInProgress, WaitersJustified, Parking, Holding
  <2> QED
      BY <2>1, <2>2, <2>3, <2>4, <2>5, <2>6, <2>7
<1>3. CASE Unlock(t)
  <2> USE <1>3 DEF Unlock
  <2>1. TypeOK'
      BY DEF TypeOK, PCs, Parking, Holding, Results
  <2>2. MutexHeld'
      BY DEF TypeOK, MutexHeld, Parking, Holding
  <2>3. ControlState'
      BY DEF TypeOK, MutexHeld, ControlState, Waiting, Parking, Holding, ListsHoldLiveWaiters, WakeInProgress
  <2>4. ListsHoldLiveWaiters'
      BY DEF TypeOK, MutexHeld, ControlState, ListsHoldLiveWaiters, Waiting, Parking, Holding
  <2>5. WakeInProgress'
      BY DEF TypeOK, MutexHeld, ControlState, ListsHoldLiveWaiters, Waiting, WakeInProgress, Parking, Holding
  <2>6. ClaimedIsWoken'
      BY DEF TypeOK, MutexHeld, ControlState, WakeInProgress, ClaimedIsWoken, Parking, Holding
  <2>7. WaitersJustified'
      BY DEF TypeOK, MutexHeld, ControlState, WakeInProgress, WaitersJustified, Parking, Holding
  <2> QED
      BY <2>1, <2>2, <2>3, <2>4, <2>5, <2>6, <2>7
<1> QED
    BY <1>1, <1>2, <1>3

(* The steps of park, cancellation included, preserve the invariant (lines 72-93). *)
LEMMA ParkInv ==
    ASSUME IndInv, NEW t \in Tasks, Park(t)
    PROVE  IndInv'
<1> USE FutexChannelAssumption DEF IndInv, ring, lists, waiter
<1>1. CASE ParkLoad(t)
  <2> USE <1>1 DEF ParkLoad, Move
  <2>1. TypeOK'
      BY DEF TypeOK, PCs, Parking, Holding, Results
  <2>2. MutexHeld'
      BY DEF TypeOK, MutexHeld, Parking, Holding
  <2>3. ControlState'
      BY DEF TypeOK, MutexHeld, ControlState, Waiting, Parking, Holding, ListsHoldLiveWaiters, WakeInProgress
  <2>4. ListsHoldLiveWaiters'
      BY DEF TypeOK, MutexHeld, ControlState, ListsHoldLiveWaiters, Waiting, Parking, Holding
  <2>5. WakeInProgress'
      BY DEF TypeOK, MutexHeld, ControlState, ListsHoldLiveWaiters, Waiting, WakeInProgress, Parking, Holding
  <2>6. ClaimedIsWoken'
      BY DEF TypeOK, MutexHeld, ControlState, WakeInProgress, ClaimedIsWoken, Parking, Holding
  <2>7. WaitersJustified'
      BY DEF TypeOK, MutexHeld, ControlState, WakeInProgress, WaitersJustified, Parking, Holding
  <2> QED
      BY <2>1, <2>2, <2>3, <2>4, <2>5, <2>6, <2>7
<1>2. CASE FutexWait(t)
  <2> USE <1>2 DEF FutexWait, Move
  <2>1. TypeOK'
      BY DEF TypeOK, PCs, Parking, Holding, Results
  <2>2. MutexHeld'
      BY DEF TypeOK, MutexHeld, Parking, Holding
  <2>3. ControlState'
      BY DEF TypeOK, MutexHeld, ControlState, Waiting, Parking, Holding, ListsHoldLiveWaiters, WakeInProgress
  <2>4. ListsHoldLiveWaiters'
      BY DEF TypeOK, MutexHeld, ControlState, ListsHoldLiveWaiters, Waiting, Parking, Holding
  <2>5. WakeInProgress'
      BY DEF TypeOK, MutexHeld, ControlState, ListsHoldLiveWaiters, Waiting, WakeInProgress, Parking, Holding
  <2>6. ClaimedIsWoken'
      BY DEF TypeOK, MutexHeld, ControlState, WakeInProgress, ClaimedIsWoken, Parking, Holding
  <2>7. WaitersJustified'
      BY DEF TypeOK, MutexHeld, ControlState, WakeInProgress, WaitersJustified, Parking, Holding
  <2> QED
      BY <2>1, <2>2, <2>3, <2>4, <2>5, <2>6, <2>7
<1>3. CASE CancelUnlink(t)
  <2> USE <1>3 DEF CancelUnlink, Acquire, Unlinked
  <2>1. TypeOK'
    <3>1. /\ senders' \in Seq(Tasks) /\ IsInjective(senders')
          /\ receivers' \in Seq(Tasks) /\ IsInjective(receivers')
        BY RemoveOne DEF Unlinked, TypeOK, ListsHoldLiveWaiters
    <3> QED
        BY <3>1 DEF TypeOK, PCs, Parking, Holding, Results
  <2>2. MutexHeld'
      BY DEF TypeOK, MutexHeld, Parking, Holding
  <2>3. ControlState'
      BY DEF TypeOK, MutexHeld, ControlState, Waiting, Parking, Holding, ListsHoldLiveWaiters, WakeInProgress
  <2>4. ListsHoldLiveWaiters'
    <3>1. CASE op[t] = "send"
      <4>1. /\ IsInjective(senders') /\ Range(senders') = Range(senders) \ {t}
            /\ receivers' = receivers
          BY <3>1, RemoveOne DEF Unlinked, TypeOK, ListsHoldLiveWaiters
      <4> QED
          BY <3>1, <4>1 DEF TypeOK, ListsHoldLiveWaiters, Waiting, Parking
    <3>2. CASE op[t] = "receive"
      <4>1. /\ IsInjective(receivers') /\ Range(receivers') = Range(receivers) \ {t}
            /\ senders' = senders
          BY <3>2, RemoveOne DEF Unlinked, TypeOK, ListsHoldLiveWaiters
      <4> QED
          BY <3>2, <4>1 DEF TypeOK, ListsHoldLiveWaiters, Waiting, Parking
    <3> QED
        BY <3>1, <3>2
  <2>5. WakeInProgress'
      BY DEF TypeOK, MutexHeld, ControlState, ListsHoldLiveWaiters, Waiting, WakeInProgress, Parking, Holding
  <2>6. ClaimedIsWoken'
      BY DEF TypeOK, MutexHeld, ControlState, WakeInProgress, ClaimedIsWoken, Parking, Holding
  <2>7. WaitersJustified'
      BY DEF TypeOK, MutexHeld, ControlState, WakeInProgress, WaitersJustified, Parking, Holding
  <2> QED
      BY <2>1, <2>2, <2>3, <2>4, <2>5, <2>6, <2>7
<1>4. CASE CancelLost(t)
  <2> USE <1>4 DEF CancelLost, Acquire, Finish, Outcome
  <2>1. TypeOK'
      BY DEF TypeOK, PCs, Parking, Holding, Results
  <2>2. MutexHeld'
      BY DEF TypeOK, MutexHeld, Parking, Holding
  <2>3. ControlState'
      BY DEF TypeOK, MutexHeld, ControlState, Waiting, Parking, Holding, ListsHoldLiveWaiters, WakeInProgress
  <2>4. ListsHoldLiveWaiters'
      BY DEF TypeOK, MutexHeld, ControlState, ListsHoldLiveWaiters, Waiting, Parking, Holding
  <2>5. WakeInProgress'
      BY DEF TypeOK, MutexHeld, ControlState, ListsHoldLiveWaiters, Waiting, WakeInProgress, Parking, Holding
  <2>6. ClaimedIsWoken'
      BY DEF TypeOK, MutexHeld, ControlState, WakeInProgress, ClaimedIsWoken, Parking, Holding
  <2>7. WaitersJustified'
      BY DEF TypeOK, MutexHeld, ControlState, WakeInProgress, WaitersJustified, Parking, Holding
  <2> QED
      BY <2>1, <2>2, <2>3, <2>4, <2>5, <2>6, <2>7
<1>5. CASE ParkSync(t)
  <2> USE <1>5 DEF ParkSync, Acquire, Finish, Outcome
  <2>1. TypeOK'
      BY DEF TypeOK, PCs, Parking, Holding, Results
  <2>2. MutexHeld'
      BY DEF TypeOK, MutexHeld, Parking, Holding
  <2>3. ControlState'
      BY DEF TypeOK, MutexHeld, ControlState, Waiting, Parking, Holding, ListsHoldLiveWaiters, WakeInProgress
  <2>4. ListsHoldLiveWaiters'
      BY DEF TypeOK, MutexHeld, ControlState, ListsHoldLiveWaiters, Waiting, Parking, Holding
  <2>5. WakeInProgress'
      BY DEF TypeOK, MutexHeld, ControlState, ListsHoldLiveWaiters, Waiting, WakeInProgress, Parking, Holding
  <2>6. ClaimedIsWoken'
      BY DEF TypeOK, MutexHeld, ControlState, WakeInProgress, ClaimedIsWoken, Parking, Holding
  <2>7. WaitersJustified'
      BY DEF TypeOK, MutexHeld, ControlState, WakeInProgress, WaitersJustified, Parking, Holding
  <2> QED
      BY <2>1, <2>2, <2>3, <2>4, <2>5, <2>6, <2>7
<1> QED
    BY <1>1, <1>2, <1>3, <1>4, <1>5 DEF Park

(* The end of a call, and of the waiter in its frame, preserves the invariant. *)
LEMMA ReturnInv ==
    ASSUME IndInv, NEW t \in Tasks, Return(t)
    PROVE  IndInv'
<1> USE FutexChannelAssumption DEF IndInv, ring, lists, waiter
<1>1. CASE Return(t)
  <2> USE <1>1 DEF Return
  <2>1. TypeOK'
      BY DEF TypeOK, PCs, Parking, Holding, Results
  <2>2. MutexHeld'
      BY DEF TypeOK, MutexHeld, Parking, Holding
  <2>3. ControlState'
      BY DEF TypeOK, MutexHeld, ControlState, Waiting, Parking, Holding, ListsHoldLiveWaiters, WakeInProgress
  <2>4. ListsHoldLiveWaiters'
      BY DEF TypeOK, MutexHeld, ControlState, ListsHoldLiveWaiters, Waiting, Parking, Holding
  <2>5. WakeInProgress'
      BY DEF TypeOK, MutexHeld, ControlState, ListsHoldLiveWaiters, Waiting, WakeInProgress, Parking, Holding
  <2>6. ClaimedIsWoken'
      BY DEF TypeOK, MutexHeld, ControlState, WakeInProgress, ClaimedIsWoken, Parking, Holding
  <2>7. WaitersJustified'
      BY DEF TypeOK, MutexHeld, ControlState, WakeInProgress, WaitersJustified, Parking, Holding
  <2> QED
      BY <2>1, <2>2, <2>3, <2>4, <2>5, <2>6, <2>7
<1> QED
    BY <1>1 DEF Return

-----------------------------------------------------------------------------
(* The theorems                                                            *)

(* Every step preserves the invariant: one lemma above per group of actions. *)
LEMMA StepInv == IndInv /\ [Next]_vars => IndInv'
<1> SUFFICES ASSUME IndInv, [Next]_vars PROVE IndInv'
    OBVIOUS
<1>1. ASSUME NEW t \in Tasks, Call(t) PROVE IndInv'
    BY <1>1, CallInv DEF Call, InvokeSend, InvokeReceive, InvokeClose
<1>2. ASSUME NEW t \in Tasks, Runtime(t) PROVE IndInv'
    BY <1>2, RuntimeInv
<1>3. ASSUME NEW t \in Tasks, Step(t) PROVE IndInv'
    BY <1>3, SendInv, ReceiveInv, CloseInv, WakeInv, ParkInv, ReturnInv DEF Step
<1>4. CASE UNCHANGED vars
  <2> USE <1>4 DEF vars, ring, lists, waiter
  <2>1. TypeOK' /\ MutexHeld' /\ ControlState'
      BY DEF IndInv, TypeOK, MutexHeld, ControlState, Waiting
  <2>2. ListsHoldLiveWaiters' /\ WakeInProgress'
      BY DEF IndInv, ListsHoldLiveWaiters, WakeInProgress, Waiting
  <2>3. ClaimedIsWoken' /\ WaitersJustified'
      BY DEF IndInv, ClaimedIsWoken, WaitersJustified
  <2> QED
      BY <2>1, <2>2, <2>3 DEF IndInv
<1> QED
    BY <1>1, <1>2, <1>3, <1>4 DEF Next

(***************************************************************************)
(* The inductive invariant of send, receive, close, wake and park holds in *)
(* every reachable state, whatever the number of tasks and the capacity.   *)
(***************************************************************************)
THEOREM Invariance == Spec => []IndInv
<1>1. Init => IndInv
    BY InitInv
<1>2. IndInv /\ [Next]_vars => IndInv'
    BY StepInv
<1> QED
    BY <1>1, <1>2, PTL DEF Spec

(***************************************************************************)
(* Type correctness: the ring indices stay inside the buffer, count never  *)
(* exceeds the capacity, and the lists hold tasks.                         *)
(***************************************************************************)
THEOREM Typing == Spec => []TypeOK
<1>1. IndInv => TypeOK
    BY DEF IndInv
<1> QED
    BY <1>1, Invariance, PTL

(***************************************************************************)
(* No wake-up is lost: a waiter asleep in futexWait (line 74) that is no   *)
(* longer linked has a waker inside wake (lines 65-68).                    *)
(***************************************************************************)
THEOREM NoSleeperForgotten == Spec => []NoLostWakeup
<1>1. IndInv => NoLostWakeup
  <2> SUFFICES ASSUME IndInv, NEW t \in Tasks, pc[t] = "asleep", ~queued[t]
               PROVE  \E u \in Tasks : Waking(u, t)
      BY DEF NoLostWakeup
  <2>1. mutex \in Tasks /\ pc[mutex] \in {"store", "wake"} /\ wakee[mutex] = t
      BY DEF IndInv, TypeOK, ClaimedIsWoken, Parking
  <2> QED
      BY <2>1 DEF Waking
<1> QED
    BY <1>1, Invariance, PTL

(***************************************************************************)
(* The lifetime note of the source (lines 21-25): wake only touches the    *)
(* futex word of a task that is still inside park.                         *)
(***************************************************************************)
THEOREM WakeTargetsLive == Spec => []WakeOnLiveFrame
<1>1. IndInv => WakeOnLiveFrame
    BY DEF IndInv, WakeInProgress, WakeOnLiveFrame
<1> QED
    BY <1>1, Invariance, PTL

(***************************************************************************)
(* The intrusive lists hold the live, unclaimed waiters, each exactly      *)
(* once (lines 80, 104, 125, 141, 155, 172, 184, 190).                     *)
(***************************************************************************)
THEOREM ListsSound == Spec => []ListsHoldLiveWaiters
<1>1. IndInv => ListsHoldLiveWaiters
    BY DEF IndInv
<1> QED
    BY <1>1, Invariance, PTL

(***************************************************************************)
(* No sender or receiver is blocked while the channel could serve it, and  *)
(* none at all once close has released the mutex (lines 104-126, 136-176,  *)
(* 179-196).                                                               *)
(***************************************************************************)
THEOREM NobodyStranded == Spec => []NoStrandedWaiter
<1>1. IndInv => NoStrandedWaiter
    BY FutexChannelAssumption DEF IndInv, WaitersJustified, NoStrandedWaiter
<1> QED
    BY <1>1, Invariance, PTL

-----------------------------------------------------------------------------
(***************************************************************************)
(* FutexChannel implements Channel, for every capacity and every number of *)
(* tasks.  The values held are read off the ring, so the first part shows  *)
(* that the ring, seen as a sequence, grows at its end and shrinks at its  *)
(* beginning however its indices wrap.  The second part takes the steps of *)
(* the code one by one and names the step of Channel each one is.          *)
(***************************************************************************)

-----------------------------------------------------------------------------
(* The ring as a sequence                                                  *)

(* The slot behind the n values from slot h on. *)
LEMMA SlotBehind ==
    ASSUME NEW h \in Slots, NEW n \in 0 .. Capacity
    PROVE  /\ (h + n) % Capacity = IF h + n < Capacity THEN h + n ELSE h + n - Capacity
           /\ (h + n) % Capacity \in Slots
BY FutexChannelAssumption DEF Slots

(* The slot of the i-th value. *)
LEMMA SlotOf ==
    ASSUME NEW h \in Slots, NEW i \in 1 .. Capacity
    PROVE  /\ (h + i - 1) % Capacity = IF h + i - 1 < Capacity THEN h + i - 1 ELSE h + i - 1 - Capacity
           /\ (h + i - 1) % Capacity \in Slots
BY FutexChannelAssumption DEF Slots

(* What a slot may hold. *)
Cell == Items \union {Undefined}

(* Advancing either index by one. *)
LEMMA SuccBehind ==
    ASSUME NEW h \in Slots, NEW n \in 0 .. Capacity - 1
    PROVE  /\ Succ((h + n) % Capacity) = (h + (n + 1)) % Capacity
           /\ Succ(h) \in Slots
<1>1. Capacity \in Nat \ {0} /\ n \in 0 .. Capacity
    BY FutexChannelAssumption
<1> DEFINE e == (h + n) % Capacity
           m == n + 1
<1>2. e = (IF h + n < Capacity THEN h + n ELSE h + n - Capacity) /\ e \in Slots
    BY <1>1, SlotBehind
<1>3. m \in 0 .. Capacity /\ 1 \in 0 .. Capacity
    BY <1>1
<1> HIDE DEF e, m
<1>4. (h + m) % Capacity = IF h + m < Capacity THEN h + m ELSE h + m - Capacity
    BY <1>3, SlotBehind
<1>5. (e + 1) % Capacity = IF e + 1 < Capacity THEN e + 1 ELSE e + 1 - Capacity
    BY <1>2, <1>3, SlotBehind
<1>6. Succ(e) = (h + m) % Capacity
    BY <1>1, <1>2, <1>4, <1>5 DEF Slots, Succ, m
<1>7. (h + 1) % Capacity \in Slots
    BY <1>3, SlotBehind
<1> QED
    BY <1>6, <1>7 DEF Succ, e, m

(* The n values from slot h on, oldest first. *)
Contents(b, h, n) == [i \in 1 .. n |-> b[(h + i - 1) % Capacity]]

(* They are a sequence of what the ring holds. *)
LEMMA ContentsType ==
    ASSUME NEW b \in [Slots -> Cell], NEW n \in 0 .. Capacity, NEW h \in Slots
    PROVE  /\ Contents(b, h, n) \in Seq(Cell)
           /\ Len(Contents(b, h, n)) = n
           /\ \A i \in 1 .. n : Contents(b, h, n)[i] = b[(h + i - 1) % Capacity]
<1>1. Capacity \in Nat /\ n \in Nat /\ \A i \in 1 .. n : i \in 1 .. Capacity
    BY FutexChannelAssumption
<1>2. \A i \in 1 .. n : b[(h + i - 1) % Capacity] \in Cell
    BY <1>1, SlotOf
<1>3. Contents(b, h, n) \in [1 .. n -> Cell]
    BY <1>2 DEF Contents
<1>4. Contents(b, h, n) \in Seq(Cell) /\ Len(Contents(b, h, n)) = n
    BY <1>1, <1>3, IsASeq, LenProperties
<1> QED
    BY <1>4 DEF Contents

(* A channel that holds nothing. *)
LEMMA EmptyContents == \A b, h : Contents(b, h, 0) = <<>>
BY DEF Contents

(* Writing behind the last value appends it (send, lines 115-118). *)
LEMMA PutContents ==
    ASSUME NEW b \in [Slots -> Cell], NEW n \in 0 .. Capacity - 1, NEW h \in Slots,
           NEW c \in [Slots -> Cell],
           \A j \in Slots : j # (h + n) % Capacity => c[j] = b[j]
    PROVE  Contents(c, h, n + 1) = Append(Contents(b, h, n), c[(h + n) % Capacity])
<1> DEFINE e == (h + n) % Capacity
           q == Contents(b, h, n)
           r == Contents(c, h, n + 1)
<1>1. Capacity \in Nat \ {0} /\ n \in Nat /\ n \in 0 .. Capacity /\ n + 1 \in 0 .. Capacity
    BY FutexChannelAssumption
<1>2. e \in Slots /\ c[e] \in Cell
    BY <1>1, SlotBehind
<1>3. q \in Seq(Cell) /\ Len(q) = n /\ \A i \in 1 .. n : q[i] = b[(h + i - 1) % Capacity]
    BY <1>1, ContentsType
<1>4. r \in Seq(Cell) /\ Len(r) = n + 1 /\ \A i \in 1 .. n + 1 : r[i] = c[(h + i - 1) % Capacity]
    BY <1>1, <1>2, ContentsType
<1> HIDE DEF q, r
<1>5. /\ Append(q, c[e]) \in Seq(Cell) /\ Len(Append(q, c[e])) = n + 1
      /\ \A i \in 1 .. n : Append(q, c[e])[i] = q[i]
      /\ Append(q, c[e])[n + 1] = c[e]
    BY <1>2, <1>3, AppendProperties
<1>6. r[n + 1] = c[e]
  <2>1. n + 1 \in 1 .. n + 1 /\ (h + (n + 1) - 1) % Capacity = e
      BY <1>1 DEF Slots
  <2> QED
      BY <2>1, <1>2, <1>4
<1>7. ASSUME NEW i \in 1 .. n PROVE r[i] = q[i]
  <2>1. i \in 1 .. Capacity /\ i \in 1 .. n + 1
      BY <1>1
  <2>2. (h + i - 1) % Capacity \in Slots /\ (h + i - 1) % Capacity # e
      BY <1>1, <2>1, SlotOf, SlotBehind DEF Slots
  <2> QED
      BY <2>1, <2>2, <1>2, <1>3, <1>4
<1>8. \A i \in 1 .. n + 1 : r[i] = Append(q, c[e])[i]
    BY <1>1, <1>5, <1>6, <1>7
<1> QED
    BY <1>4, <1>5, <1>8, SeqEqual DEF q, r

(* Advancing the head takes the oldest value (receive, lines 136-139). *)
LEMMA TakeContents ==
    ASSUME NEW b \in [Slots -> Cell], NEW n \in 1 .. Capacity, NEW h \in Slots
    PROVE  /\ Contents(b, h, n) # <<>>
           /\ Head(Contents(b, h, n)) = b[h]
           /\ Contents(b, Succ(h), n - 1) = Tail(Contents(b, h, n))
           /\ (Succ(h) + (n - 1)) % Capacity = (h + n) % Capacity
           /\ Succ(h) \in Slots
<1> DEFINE k == Succ(h)
           q == Contents(b, h, n)
           r == Contents(b, k, n - 1)
<1>1. /\ Capacity \in Nat \ {0} /\ n \in Nat /\ n - 1 \in Nat
      /\ n \in 0 .. Capacity /\ n - 1 \in 0 .. Capacity
    BY FutexChannelAssumption
<1>2. k = IF h + 1 < Capacity THEN h + 1 ELSE 0
  <2>1. 1 \in 0 .. Capacity
      BY <1>1
  <2>2. (h + 1) % Capacity = IF h + 1 < Capacity THEN h + 1 ELSE h + 1 - Capacity
      BY <2>1, SlotBehind
  <2> QED
      BY <1>1, <2>2 DEF Slots, Succ
<1>3. k \in Slots
    BY <1>1, <1>2 DEF Slots
<1> HIDE DEF k
<1>4. q \in Seq(Cell) /\ Len(q) = n /\ \A i \in 1 .. n : q[i] = b[(h + i - 1) % Capacity]
    BY <1>1, ContentsType
<1>5. r \in Seq(Cell) /\ Len(r) = n - 1 /\ \A i \in 1 .. n - 1 : r[i] = b[(k + i - 1) % Capacity]
    BY <1>1, <1>3, ContentsType
<1> HIDE DEF q, r
<1>6. q # <<>> /\ Head(q) = q[1]
  <2>1. q # <<>>
      BY <1>1, <1>4, EmptySeq
  <2> QED
      BY <2>1, <1>4, HeadTailProperties
<1>7. Head(q) = b[h]
  <2>1. 1 \in 1 .. n /\ 1 \in 1 .. Capacity
      BY <1>1
  <2>2. (h + 1 - 1) % Capacity = h
      BY <1>1, <2>1, SlotOf DEF Slots
  <2> QED
      BY <2>1, <2>2, <1>4, <1>6
<1>8. r = Tail(q)
  <2>1. /\ Tail(q) \in Seq(Cell) /\ Len(Tail(q)) = n - 1
        /\ \A i \in 1 .. n - 1 : Tail(q)[i] = q[i + 1]
      BY <1>1, <1>4, <1>6, HeadTailProperties
  <2>2. ASSUME NEW i \in 1 .. n - 1 PROVE r[i] = Tail(q)[i]
    <3>1. i + 1 \in 1 .. n /\ i \in 1 .. Capacity /\ i + 1 \in 1 .. Capacity
        BY <1>1
    <3>2. (k + i - 1) % Capacity = (h + (i + 1) - 1) % Capacity
        BY <1>1, <1>2, <1>3, <3>1, SlotOf DEF Slots
    <3> QED
        BY <3>1, <3>2, <2>1, <1>4, <1>5
  <2> QED
      BY <2>1, <2>2, <1>5, SeqEqual
<1>9. (k + (n - 1)) % Capacity = (h + n) % Capacity
  <2>1. (h + n) % Capacity = IF h + n < Capacity THEN h + n ELSE h + n - Capacity
      BY <1>1, SlotBehind
  <2> DEFINE m == n - 1
  <2>2. m \in 0 .. Capacity
      BY <1>1
  <2> HIDE DEF m
  <2>3. (k + m) % Capacity = IF k + m < Capacity THEN k + m ELSE k + m - Capacity
      BY <1>3, <2>2, SlotBehind
  <2> QED
      BY <1>1, <1>2, <2>1, <2>3 DEF Slots, m
<1> QED
    BY <1>3, <1>6, <1>7, <1>8, <1>9 DEF k, q, r

-----------------------------------------------------------------------------
(* The invariant of the refinement                                         *)

(* The steps that move a value through the ring. *)
RingStep(t) == SendBuffer(t) \/ ReceiveBuffered(t) \/ ReceiveAndRefill(t)

(* No other step touches it. *)
LEMMA RingUnchanged ==
    ASSUME NEW t \in Tasks, Call(t) \/ Runtime(t) \/ Step(t), ~RingStep(t)
    PROVE  UNCHANGED ring
<1> USE DEF ring
<1>1. CASE Call(t)
    BY <1>1 DEF Call, InvokeSend, InvokeReceive, InvokeClose, Invoke
<1>2. CASE Runtime(t)
    BY <1>2 DEF Runtime, LockCanceled, SpuriousWake, FutexCanceled, Move
<1>3. CASE Send(t)
    BY <1>3 DEF Send, RingStep, SendClosed, SendHandoff, SendBlock
<1>4. CASE Receive(t)
    BY <1>4 DEF Receive, RingStep, ReceiveFromSender, ReceiveClosed, ReceiveBlock
<1>5. CASE Close(t)
    BY <1>5 DEF Close, CloseAgain, CloseStart, CloseReceiver, CloseSender, CloseEnd, Move
<1>6. CASE WakeStore(t) \/ WakeFutex(t) \/ Unlock(t) \/ Return(t)
    BY <1>6 DEF WakeStore, WakeFutex, Unlock, Return
<1>7. CASE Park(t)
    BY <1>7 DEF Park, ParkLoad, FutexWait, CancelUnlink, CancelLost, ParkSync, Move
<1> QED
    BY <1>1, <1>2, <1>3, <1>4, <1>5, <1>6, <1>7 DEF Step

(* The values held, as a function of the ring. *)
LEMMA HeldIsContents == Held = Contents(buffer, head, count)
BY DEF Held, Contents

(* What a step of the ring does to the values held and to its indices:     *)
(* lines 115-118, 136-139 and 136-150.                                     *)
LEMMA RingStepEffect ==
    ASSUME IndInv, RingInOrder, NEW t \in Tasks
    PROVE  /\ SendBuffer(t) => /\ Held' = Append(Held, data[t]) /\ Len(Held) < Capacity
                               /\ RingInOrder'
           /\ ReceiveBuffered(t) => /\ Held # <<>> /\ buffer[head] = Head(Held)
                                    /\ Held' = Tail(Held)
                                    /\ RingInOrder'
           /\ ReceiveAndRefill(t) => /\ Held # <<>> /\ buffer[head] = Head(Held)
                                     /\ Held' = Append(Tail(Held), data[Head(senders)])
                                     /\ RingInOrder'
<1>1. /\ buffer \in [Slots -> Cell] /\ count \in 0 .. Capacity /\ Capacity \in Nat
      /\ Capacity > 0 => head \in Slots /\ tail \in Slots
      /\ data \in [Tasks -> Cell]
    BY FutexChannelAssumption DEF IndInv, TypeOK, Cell
<1>2. ASSUME SendBuffer(t)
      PROVE  Held' = Append(Held, data[t]) /\ Len(Held) < Capacity /\ RingInOrder'
  <2>1. /\ buffer' = [buffer EXCEPT ![tail] = data[t]] /\ tail' = Succ(tail)
        /\ count' = count + 1 /\ head' = head /\ count < Capacity
      BY <1>2 DEF SendBuffer, Put
  <2>2. /\ count \in 0 .. Capacity - 1 /\ head \in Slots /\ tail \in Slots
        /\ tail = (head + count) % Capacity /\ Capacity > 0
      BY <1>1, <2>1 DEF RingInOrder
  <2>3. Contents(buffer', head, count + 1) = Append(Contents(buffer, head, count), data[t])
    <3>1. /\ buffer' \in [Slots -> Cell] /\ buffer'[tail] = data[t]
          /\ \A j \in Slots : j # tail => buffer'[j] = buffer[j]
        BY <1>1, <2>1, <2>2
    <3>2. Contents(buffer', head, count + 1) = Append(Contents(buffer, head, count), buffer'[tail])
        BY <1>1, <2>2, <3>1, PutContents
    <3> QED
        BY <3>1, <3>2
  <2>4. Len(Contents(buffer, head, count)) = count
      BY <1>1, <2>2, ContentsType
  <2>5. tail' = (head' + count') % Capacity
      BY <2>1, <2>2, SuccBehind
  <2> QED
      BY <2>1, <2>3, <2>4, <2>5, HeldIsContents DEF RingInOrder, Held, Contents
<1>3. ASSUME ReceiveBuffered(t)
      PROVE  Held # <<>> /\ buffer[head] = Head(Held) /\ Held' = Tail(Held) /\ RingInOrder'
  <2>1. /\ buffer' = buffer /\ tail' = tail /\ head' = Succ(head)
        /\ count' = count - 1 /\ count > 0
      BY <1>3 DEF ReceiveBuffered
  <2>2. count \in 1 .. Capacity /\ head \in Slots /\ tail = (head + count) % Capacity
      BY <1>1, <2>1 DEF RingInOrder
  <2>3. /\ Contents(buffer, head, count) # <<>>
        /\ Head(Contents(buffer, head, count)) = buffer[head]
        /\ Contents(buffer, Succ(head), count - 1) = Tail(Contents(buffer, head, count))
        /\ (Succ(head) + (count - 1)) % Capacity = (head + count) % Capacity
      BY <1>1, <2>2, TakeContents
  <2> QED
      BY <2>1, <2>2, <2>3, HeldIsContents DEF RingInOrder, Held, Contents
<1>4. ASSUME ReceiveAndRefill(t)
      PROVE  /\ Held # <<>> /\ buffer[head] = Head(Held)
             /\ Held' = Append(Tail(Held), data[Head(senders)]) /\ RingInOrder'
  <2> DEFINE v == data[Head(senders)]
  <2>1. /\ buffer' = [buffer EXCEPT ![tail] = v] /\ tail' = Succ(tail)
        /\ head' = Succ(head) /\ count' = count /\ count > 0
      BY <1>4 DEF ReceiveAndRefill, Put
  <2>2. /\ count \in 1 .. Capacity /\ head \in Slots /\ tail \in Slots
        /\ tail = (head + count) % Capacity
      BY <1>1, <2>1 DEF RingInOrder
  <2>3. /\ Contents(buffer, head, count) # <<>>
        /\ Head(Contents(buffer, head, count)) = buffer[head]
        /\ Contents(buffer, Succ(head), count - 1) = Tail(Contents(buffer, head, count))
        /\ (Succ(head) + (count - 1)) % Capacity = tail
        /\ Succ(head) \in Slots
      BY <1>1, <2>2, TakeContents
  <2>4. v \in Cell
    <3>1. Head(senders) \in Tasks
        BY <1>4, FirstSender DEF ReceiveAndRefill, Enter, Acquire
    <3> QED
        BY <3>1, <1>1
  <2> HIDE DEF v
  <2>5. Contents(buffer', Succ(head), (count - 1) + 1) = Append(Contents(buffer, Succ(head), count - 1), v)
    <3>1. count - 1 \in 0 .. Capacity - 1
        BY <1>1, <2>2
    <3>2. /\ buffer' \in [Slots -> Cell] /\ buffer'[tail] = v
          /\ \A j \in Slots : j # tail => buffer'[j] = buffer[j]
        BY <1>1, <2>1, <2>2, <2>4
    <3> DEFINE m == count - 1
               k == Succ(head)
    <3> HIDE DEF m, k
    <3>3. Contents(buffer', k, m + 1) = Append(Contents(buffer, k, m), buffer'[tail])
        BY <1>1, <2>3, <3>1, <3>2, PutContents DEF m, k
    <3> QED
        BY <3>2, <3>3 DEF m, k
  <2>6. (count - 1) + 1 = count
      BY <2>2, <1>1
  <2>7. tail' = (head' + count') % Capacity
    <3> DEFINE m == count - 1
    <3>1. m \in 0 .. Capacity - 1 /\ m + 1 = count /\ tail = (Succ(head) + m) % Capacity
        BY <1>1, <2>2, <2>3
    <3> HIDE DEF m
    <3> QED
        BY <2>1, <2>3, <3>1, SuccBehind
  <2> QED
      BY <2>1, <2>3, <2>5, <2>6, <2>7, HeldIsContents DEF RingInOrder, Held, Contents, v
<1> QED
    BY <1>2, <1>3, <1>4

(* A call is given its outcome before it returns (lines 92-196). *)
LEMMA CallsSettledStep ==
    ASSUME RefinementInv, NEW t \in Tasks, Call(t) \/ Runtime(t) \/ Step(t)
    PROVE  CallsSettled'
<1> USE DEF RefinementInv, CallsSettled, IndInv, TypeOK
<1>1. CASE Call(t)
    BY <1>1 DEF Call, InvokeSend, InvokeReceive, InvokeClose, Invoke
<1>2. CASE Runtime(t)
    BY <1>2 DEF Runtime, LockCanceled, SpuriousWake, FutexCanceled, Move
<1>3. CASE Send(t)
    BY <1>3 DEF Send, SendClosed, SendHandoff, SendBuffer, SendBlock, Enter, Finish, Claim, Block
<1>4. CASE Receive(t)
    BY <1>4 DEF Receive, ReceiveBuffered, ReceiveAndRefill, ReceiveFromSender, ReceiveClosed,
                ReceiveBlock, Enter, Finish, Claim, Block
<1>5. CASE Close(t)
    BY <1>5 DEF Close, CloseAgain, CloseStart, CloseReceiver, CloseSender, CloseEnd, Move,
                Enter, Finish, Claim
<1>6. CASE WakeStore(t) \/ Unlock(t) \/ Return(t)
    BY <1>6 DEF WakeStore, Unlock, Return
<1>7. CASE WakeFutex(t)
    BY <1>7 DEF WakeFutex, AfterWake
<1>8. CASE Park(t)
    BY <1>8 DEF Park, ParkLoad, FutexWait, CancelUnlink, CancelLost, ParkSync, Move, Finish, Outcome
<1> QED
    BY <1>1, <1>2, <1>3, <1>4, <1>5, <1>6, <1>7, <1>8 DEF Step

(***************************************************************************)
(* The invariant of the refinement holds in every reachable state.         *)
(***************************************************************************)
THEOREM RefinementInvariance == Spec => []RefinementInv
<1>1. Init => RefinementInv
  <2> SUFFICES ASSUME Init PROVE RingInOrder /\ CallsSettled
      BY InitInv DEF RefinementInv
  <2> QED
      BY FutexChannelAssumption DEF Init, RingInOrder, CallsSettled
<1>2. RefinementInv /\ [Next]_vars => RefinementInv'
  <2> SUFFICES ASSUME RefinementInv, [Next]_vars PROVE RefinementInv'
      OBVIOUS
  <2>1. IndInv'
      BY StepInv DEF RefinementInv
  <2>2. CASE UNCHANGED vars
      BY <2>1, <2>2 DEF RefinementInv, RingInOrder, CallsSettled, vars, ring
  <2>3. ASSUME NEW t \in Tasks, Call(t) \/ Runtime(t) \/ Step(t) PROVE RefinementInv'
    <3>1. CallsSettled'
        BY <2>3, CallsSettledStep
    <3>2. RingInOrder'
      <4>1. CASE RingStep(t)
          BY <4>1, RingStepEffect DEF RingStep, RefinementInv
      <4>2. CASE ~RingStep(t)
        <5>1. UNCHANGED ring
            BY <2>3, <4>2, RingUnchanged
        <5> QED
            BY <5>1 DEF ring, RingInOrder, RefinementInv
      <4> QED
          BY <4>1, <4>2
    <3> QED
        BY <2>1, <3>1, <3>2 DEF RefinementInv
  <2> QED
      BY <2>2, <2>3 DEF Next
<1> QED
    BY <1>1, <1>2, PTL DEF Spec

-----------------------------------------------------------------------------
(* The outcome a caller of the channel observes for task u. *)
SettledAt(u) == IF Waiting(u) /\ ~queued[u] THEN Outcome(u) ELSE ret[u]

(* Settled is determined by its values. *)
LEMMA SettledPointwise ==
    /\ (\A u \in Tasks : SettledAt(u)' = SettledAt(u)) => Settled' = Settled
    /\ \A t \in Tasks, r \in Results \union {"none"} :
           (\A u \in Tasks : SettledAt(u)' = IF u = t THEN r ELSE SettledAt(u))
               => Settled' = [Settled EXCEPT ![t] = r]
    /\ \A s, t \in Tasks :
           (\A u \in Tasks : SettledAt(u)' = IF u \in {s, t} THEN "ok" ELSE SettledAt(u))
               => Settled' = [Settled EXCEPT ![s] = "ok", ![t] = "ok"]
    /\ \A t \in Tasks : Settled[t] = SettledAt(t)
BY DEF Settled, SettledAt, Waiting, Outcome

(* The calls (lines 72-91, 123-131): a task starts to execute nothing but  *)
(* its new operation, and forgets it when it returns.                      *)
LEMMA CallRefines ==
    ASSUME RefinementInv, NEW t \in Tasks, Call(t) \/ Return(t)
    PROVE  Abstract!Next
<1> USE DEF RefinementInv, CallsSettled, IndInv, TypeOK, MutexHeld, ControlState, Results
<1>0. ASSUME UNCHANGED ring PROVE Held' = Held
    BY <1>0 DEF ring, Held
<1>1. ASSUME NEW o \in {"send", "receive", "close"}, NEW v \in Items \union {Undefined}, o = "send" <=> v \in Items,
             Invoke(t, o, v)
      PROVE  Abstract!Next
  <2>1. \A u \in Tasks : SettledAt(u)' = SettledAt(u)
      BY <1>1 DEF Invoke, SettledAt, Waiting, Outcome, Parking, waiter
  <2>2. Settled' = Settled
      BY <2>1, SettledPointwise
  <2>3. Abstract!Call(t, o, v)
      BY <1>0, <1>1, <2>2 DEF Invoke, Abstract!Call
  <2> QED
      BY <2>3, <1>1 DEF Abstract!Next, Abstract!Ops
<1>2. CASE Call(t)
    BY <1>1, <1>2, FutexChannelAssumption DEF Call, InvokeSend, InvokeReceive, InvokeClose
<1>3. CASE Return(t)
  <2>1. \A u \in Tasks : SettledAt(u)' = IF u = t THEN "none" ELSE SettledAt(u)
      BY <1>3 DEF Return, SettledAt, Waiting, Outcome, Parking, waiter
  <2>2. Settled' = [Settled EXCEPT ![t] = "none"]
      BY <2>1, SettledPointwise
  <2>3. Settled[t] # "none"
      BY <1>3, SettledPointwise DEF Return, SettledAt, Outcome
  <2>4. Abstract!Return(t)
      BY <1>0, <1>3, <2>2, <2>3 DEF Return, Abstract!Return
  <2> QED
      BY <2>4 DEF Abstract!Next
<1> QED
    BY <1>2, <1>3

(* The observable state that no caller sees change. *)
Unseen == UNCHANGED <<Held, closed, op, data, Settled>>

(* Blocking, waking, parking and the mutex are invisible to the callers    *)
(* (lines 65-74, 94-110, 160-196).                                         *)
LEMMA InvisibleSteps ==
    ASSUME RefinementInv, NEW t \in Tasks,
           \/ SendBlock(t) \/ ReceiveBlock(t) \/ CloseEnd(t)
           \/ WakeStore(t) \/ WakeFutex(t) \/ Unlock(t)
           \/ ParkLoad(t) \/ FutexWait(t) \/ SpuriousWake(t) \/ FutexCanceled(t)
           \/ CancelLost(t) \/ ParkSync(t)
    PROVE  Unseen
<1> USE DEF RefinementInv, CallsSettled, IndInv, TypeOK, MutexHeld, ControlState, SettledAt, Waiting, Outcome, Parking
<1> SUFFICES UNCHANGED <<ring, closed, op, data>> /\ \A u \in Tasks : SettledAt(u)' = SettledAt(u)
  <2>1. ASSUME UNCHANGED ring PROVE Held' = Held
      BY <2>1 DEF ring, Held
  <2> QED
      BY <2>1, SettledPointwise DEF Unseen
<1>1. CASE SendBlock(t)
    BY <1>1 DEF SendBlock, Enter, Block, ring
<1>2. CASE ReceiveBlock(t)
    BY <1>2 DEF ReceiveBlock, Enter, Block, ring
<1>3. CASE CloseEnd(t)
    BY <1>3 DEF CloseEnd, Move, ring, waiter
<1>4. CASE WakeStore(t)
    BY <1>4 DEF WakeStore, ring
<1>5. CASE WakeFutex(t)
    BY <1>5 DEF WakeFutex, AfterWake, ring, waiter
<1>6. CASE Unlock(t)
    BY <1>6 DEF Unlock, ring, waiter
<1>7. CASE ParkLoad(t)
    BY <1>7 DEF ParkLoad, Move, ring, waiter
<1>8. CASE FutexWait(t)
    BY <1>8 DEF FutexWait, Move, ring, waiter
<1>9. CASE SpuriousWake(t) \/ FutexCanceled(t)
    BY <1>9 DEF SpuriousWake, FutexCanceled, Move, ring, waiter
<1>10. CASE CancelLost(t)
    BY <1>10 DEF CancelLost, Finish, ring, waiter
<1>11. CASE ParkSync(t)
  <2>1. ~queued[t]
      BY <1>11 DEF ParkSync
  <2> QED
      BY <1>11, <2>1 DEF ParkSync, Finish, ring, waiter
<1> QED
    BY <1>1, <1>2, <1>3, <1>4, <1>5, <1>6, <1>7, <1>8, <1>9, <1>10, <1>11

(* The outcomes that leave the values held alone: a cancellation, a        *)
(* refusal, and close (lines 92-98, 156-159, 170-196).                     *)
LEMMA RefusalRefines ==
    ASSUME RefinementInv, NEW t \in Tasks,
           \/ LockCanceled(t) \/ CancelUnlink(t) \/ SendClosed(t) \/ ReceiveClosed(t)
           \/ CloseAgain(t) \/ CloseStart(t) \/ CloseReceiver(t) \/ CloseSender(t)
    PROVE  Abstract!Next
<1> USE DEF RefinementInv, IndInv, TypeOK, ControlState, SettledAt, Waiting, Outcome, Parking, Results
<1>0. /\ UNCHANGED ring => Held' = Held
      /\ count = 0 => Held = <<>>
    BY DEF ring, Held
<1>1. CASE LockCanceled(t)
  <2>1. \A u \in Tasks : SettledAt(u)' = IF u = t THEN "Canceled" ELSE SettledAt(u)
      BY <1>1 DEF LockCanceled, waiter
  <2>2. Settled' = [Settled EXCEPT ![t] = "Canceled"] /\ Settled[t] = "none"
      BY <1>1, <2>1, SettledPointwise DEF LockCanceled
  <2>3. Abstract!Cancel(t)
      BY <1>0, <1>1, <2>2 DEF LockCanceled, Abstract!Cancel, Abstract!Pending
  <2> QED
      BY <2>3 DEF Abstract!Next
<1>2. CASE CancelUnlink(t)
  <2>1. \A u \in Tasks : SettledAt(u)' = IF u = t THEN "Canceled" ELSE SettledAt(u)
      BY <1>2 DEF CancelUnlink
  <2>2. Settled' = [Settled EXCEPT ![t] = "Canceled"] /\ Settled[t] = "none"
      BY <1>2, <2>1, SettledPointwise DEF CancelUnlink
  <2>3. Abstract!Cancel(t)
      BY <1>0, <1>2, <2>2 DEF CancelUnlink, Abstract!Cancel, Abstract!Pending
  <2> QED
      BY <2>3 DEF Abstract!Next
<1>3. CASE SendClosed(t) \/ ReceiveClosed(t)
  <2>1. \A u \in Tasks : SettledAt(u)' = IF u = t THEN "Closed" ELSE SettledAt(u)
      BY <1>3 DEF SendClosed, ReceiveClosed, Enter, Finish, waiter
  <2>2. Settled' = [Settled EXCEPT ![t] = "Closed"] /\ Settled[t] = "none"
    <3>1. pc[t] = "lock"
        BY <1>3 DEF SendClosed, ReceiveClosed, Enter
    <3> QED
        BY <2>1, <3>1, SettledPointwise
  <2>3. Abstract!Refuse(t)
      BY <1>0, <1>3, <2>2 DEF SendClosed, ReceiveClosed, Enter, Finish, Abstract!Refuse, Abstract!Pending
  <2> QED
      BY <2>3 DEF Abstract!Next
<1>4. CASE CloseAgain(t) \/ CloseStart(t)
  <2>1. \A u \in Tasks : SettledAt(u)' = IF u = t THEN "ok" ELSE SettledAt(u)
      BY <1>4 DEF CloseAgain, CloseStart, Enter, Finish, waiter
  <2>2. Settled' = [Settled EXCEPT ![t] = "ok"] /\ Settled[t] = "none"
    <3>1. pc[t] = "lock"
        BY <1>4 DEF CloseAgain, CloseStart, Enter
    <3>2. SettledAt(t) = "none"
        BY <3>1
    <3>3. Settled[t] = "none"
        BY <3>2, SettledPointwise
    <3>4. "ok" \in Results \union {"none"}
        OBVIOUS
    <3> HIDE DEF RefinementInv, CallsSettled, IndInv, TypeOK, MutexHeld, ControlState, Results, SettledAt
    <3> QED
        BY <2>1, <3>3, <3>4, SettledPointwise
  <2>3. Abstract!Close(t)
      BY <1>0, <1>4, <2>2 DEF CloseAgain, CloseStart, Enter, Finish, Abstract!Close, Abstract!Pending
  <2> QED
      BY <2>3 DEF Abstract!Next
<1>5. CASE CloseReceiver(t)
  <2> DEFINE w == Head(receivers)
  <2>1. /\ w \in Tasks \ {t} /\ queued[w] /\ op[w] = "receive" /\ pc[w] \in Parking
        /\ count = 0 /\ closed
    <3>1. mutex \in {NoTask, t} /\ pc[t] = "closing"
        BY <1>5 DEF CloseReceiver, MutexHeld, Holding
    <3>2. count = 0
        BY <1>5 DEF CloseReceiver, WaitersJustified
    <3>3. closed
        BY <1>5, <3>1 DEF CallsSettled
    <3> QED
        BY <1>5, <3>1, <3>2, <3>3, FirstReceiver DEF CloseReceiver
  <2> HIDE DEF w
  <2>2. \A u \in Tasks : SettledAt(u)' = IF u = w THEN "Closed" ELSE SettledAt(u)
      BY <1>5, <2>1 DEF CloseReceiver, Claim, w
  <2>3. Settled' = [Settled EXCEPT ![w] = "Closed"] /\ Settled[w] = "none"
      BY <2>1, <2>2, SettledPointwise
  <2>4. Abstract!Refuse(w)
      BY <1>0, <1>5, <2>1, <2>3 DEF CloseReceiver, Claim, Abstract!Refuse, Abstract!Pending
  <2> QED
      BY <2>1, <2>4 DEF Abstract!Next
<1>6. CASE CloseSender(t)
  <2> DEFINE w == Head(senders)
  <2>1. /\ w \in Tasks \ {t} /\ queued[w] /\ op[w] = "send" /\ pc[w] \in Parking
        /\ closed
    <3>1. mutex \in {NoTask, t} /\ pc[t] = "closing"
        BY <1>6 DEF CloseSender, MutexHeld, Holding
    <3>3. closed
        BY <1>6, <3>1 DEF CallsSettled
    <3> QED
        BY <1>6, <3>1, <3>3, FirstSender DEF CloseSender
  <2> HIDE DEF w
  <2>2. \A u \in Tasks : SettledAt(u)' = IF u = w THEN "Closed" ELSE SettledAt(u)
      BY <1>6, <2>1 DEF CloseSender, Claim, w
  <2>3. Settled' = [Settled EXCEPT ![w] = "Closed"] /\ Settled[w] = "none"
      BY <2>1, <2>2, SettledPointwise
  <2>4. Abstract!Refuse(w)
      BY <1>0, <1>6, <2>1, <2>3 DEF CloseSender, Claim, Abstract!Refuse, Abstract!Pending
  <2> QED
      BY <2>1, <2>4 DEF Abstract!Next
<1> QED
    BY <1>1, <1>2, <1>3, <1>4, <1>5, <1>6

(* The steps in which a value moves (lines 99-118, 132-155): each is one   *)
(* step of the abstract channel, in the order in which values entered it.  *)
LEMMA TransferRefines ==
    ASSUME RefinementInv, NEW t \in Tasks,
           \/ SendHandoff(t) \/ SendBuffer(t)
           \/ ReceiveBuffered(t) \/ ReceiveAndRefill(t) \/ ReceiveFromSender(t)
    PROVE  Abstract!Next
<1> USE DEF RefinementInv, IndInv, TypeOK, ControlState, SettledAt, Waiting, Outcome, Parking, Results
<1>0. /\ UNCHANGED ring => Held' = Held
      /\ count = 0 => Held = <<>>
      /\ pc[t] = "lock" /\ mutex = NoTask
  <2>1. pc[t] = "lock" /\ mutex = NoTask
      BY DEF SendHandoff, SendBuffer, ReceiveBuffered, ReceiveAndRefill,
             ReceiveFromSender, Enter, Acquire
  <2>2. (UNCHANGED ring => Held' = Held) /\ (count = 0 => Held = <<>>)
      BY DEF ring, Held
  <2> QED
      BY <2>1, <2>2
<1>1. Settled[t] = "none"
    BY <1>0, SettledPointwise
<1>2. ASSUME senders # <<>>
      PROVE  /\ Head(senders) \in Tasks \ {t} /\ queued[Head(senders)]
             /\ op[Head(senders)] = "send" /\ pc[Head(senders)] \in Parking
             /\ Settled[Head(senders)] = "none" /\ ~closed
  <2>1. /\ Head(senders) \in Tasks \ {t} /\ queued[Head(senders)]
        /\ op[Head(senders)] = "send" /\ pc[Head(senders)] \in Parking
      BY <1>0, <1>2, FirstSender
  <2>2. ~closed
      BY <1>0, <1>2, FutexChannelAssumption DEF WaitersJustified
  <2> QED
      BY <2>1, <2>2, SettledPointwise
<1>3. CASE SendHandoff(t)
  <2> DEFINE w == Head(receivers)
  <2>1. /\ w \in Tasks \ {t} /\ queued[w] /\ op[w] = "receive" /\ pc[w] \in Parking
        /\ count = 0
    <3>1. count = 0
        BY <1>3 DEF SendHandoff, WaitersJustified
    <3> QED
        BY <1>0, <1>3, <3>1, FirstReceiver DEF SendHandoff
  <2>2. \A u \in Tasks : SettledAt(u)' = IF u \in {t, w} THEN "ok" ELSE SettledAt(u)
    <3> HIDE DEF w
    <3> QED
        BY <1>0, <1>3, <2>1 DEF SendHandoff, Claim, w
  <2>3. Settled' = [Settled EXCEPT ![t] = "ok", ![w] = "ok"] /\ Settled[w] = "none"
    <3> HIDE DEF w
    <3> QED
        BY <2>1, <2>2, SettledPointwise
  <2>4. Abstract!Handoff(t, w)
      BY <1>0, <1>1, <1>3, <2>1, <2>3 DEF SendHandoff, Enter, Claim, Abstract!Handoff, Abstract!Pending
  <2> QED
      BY <2>1, <2>4 DEF Abstract!Next
<1>4. CASE SendBuffer(t)
  <2>1. \A u \in Tasks : SettledAt(u)' = IF u = t THEN "ok" ELSE SettledAt(u)
      BY <1>0, <1>4 DEF SendBuffer, Finish, waiter
  <2>2. Settled' = [Settled EXCEPT ![t] = "ok"]
      BY <2>1, SettledPointwise
  <2>3. Held' = Append(Held, data[t]) /\ Len(Held) < Capacity
      BY <1>4, RingStepEffect
  <2>4. Abstract!Accept(t)
      BY <1>1, <1>4, <2>2, <2>3 DEF SendBuffer, Enter, Finish, Abstract!Accept, Abstract!Pending
  <2> QED
      BY <2>4 DEF Abstract!Next
<1>5. CASE ReceiveBuffered(t)
  <2>1. \A u \in Tasks : SettledAt(u)' = IF u = t THEN "ok" ELSE SettledAt(u)
      BY <1>0, <1>5 DEF ReceiveBuffered, Finish, waiter
  <2>2. Settled' = [Settled EXCEPT ![t] = "ok"]
      BY <2>1, SettledPointwise
  <2>3. Held # <<>> /\ buffer[head] = Head(Held) /\ Held' = Tail(Held)
      BY <1>5, RingStepEffect
  <2>4. Abstract!Take(t)
      BY <1>1, <1>5, <2>2, <2>3 DEF ReceiveBuffered, Enter, Finish, Abstract!Take, Abstract!Pending
  <2> QED
      BY <2>4 DEF Abstract!Next
<1>6. CASE ReceiveAndRefill(t)
  <2> DEFINE w == Head(senders)
  <2>1. /\ w \in Tasks \ {t} /\ queued[w] /\ op[w] = "send" /\ pc[w] \in Parking
        /\ Settled[w] = "none" /\ ~closed
      BY <1>2, <1>6 DEF ReceiveAndRefill
  <2>2. \A u \in Tasks : SettledAt(u)' = IF u \in {w, t} THEN "ok" ELSE SettledAt(u)
    <3> HIDE DEF w
    <3> QED
        BY <1>0, <1>6, <2>1 DEF ReceiveAndRefill, Claim, w
  <2>3. Settled' = [Settled EXCEPT ![w] = "ok", ![t] = "ok"]
    <3> HIDE DEF w
    <3> QED
        BY <2>1, <2>2, SettledPointwise
  <2>4. Held # <<>> /\ buffer[head] = Head(Held) /\ Held' = Append(Tail(Held), data[w])
      BY <1>6, RingStepEffect
  <2>5. Abstract!TakeAndAccept(t, w)
      BY <1>1, <1>6, <2>1, <2>3, <2>4
         DEF ReceiveAndRefill, Enter, Claim, Abstract!TakeAndAccept, Abstract!Pending
  <2> QED
      BY <2>1, <2>5 DEF Abstract!Next
<1>7. CASE ReceiveFromSender(t)
  <2> DEFINE w == Head(senders)
  <2>1. /\ w \in Tasks \ {t} /\ queued[w] /\ op[w] = "send" /\ pc[w] \in Parking
        /\ Settled[w] = "none" /\ ~closed
      BY <1>2, <1>7 DEF ReceiveFromSender
  <2>2. \A u \in Tasks : SettledAt(u)' = IF u \in {w, t} THEN "ok" ELSE SettledAt(u)
    <3> HIDE DEF w
    <3> QED
        BY <1>0, <1>7, <2>1 DEF ReceiveFromSender, Claim, w
  <2>3. Settled' = [Settled EXCEPT ![w] = "ok", ![t] = "ok"]
    <3> HIDE DEF w
    <3> QED
        BY <2>1, <2>2, SettledPointwise
  <2>4. Abstract!Handoff(w, t)
      BY <1>0, <1>1, <1>7, <2>1, <2>3
         DEF ReceiveFromSender, Enter, Claim, Abstract!Handoff, Abstract!Pending
  <2> QED
      BY <2>1, <2>4 DEF Abstract!Next
<1> QED
    BY <1>3, <1>4, <1>5, <1>6, <1>7

(***************************************************************************)
(* FutexChannel implements Channel for every set of tasks and items and    *)
(* every capacity, zero included: through any interleaving of send,        *)
(* receive, close, park and cancellation (lines 65-196) every operation    *)
(* takes effect at one moment, values come out in order, once, and a       *)
(* canceled operation has had no effect.                                   *)
(***************************************************************************)
THEOREM Refinement == Spec => ImplementsChannel
<1>1. Init => Abstract!Init
    BY FutexChannelAssumption DEF Init, Abstract!Init, Held, Settled, Waiting, Outcome, Parking
<1>2. RefinementInv /\ [Next]_vars => [Abstract!Next]_(Abstract!vars)
  <2> SUFFICES ASSUME RefinementInv, [Next]_vars
               PROVE  Abstract!Next \/ UNCHANGED Abstract!vars
      OBVIOUS
  <2>1. CASE UNCHANGED vars
      BY <2>1 DEF vars, ring, lists, waiter, Abstract!vars, Held, Settled, Waiting, Outcome
  <2>2. ASSUME NEW t \in Tasks, Call(t) \/ Runtime(t) \/ Step(t)
        PROVE  Abstract!Next \/ UNCHANGED Abstract!vars
    <3>1. Unseen => UNCHANGED Abstract!vars
        BY DEF Unseen, Abstract!vars
    <3> QED
        BY <2>2, <3>1, CallRefines, InvisibleSteps, RefusalRefines, TransferRefines
           DEF Runtime, Step, Send, Receive, Close, Park
  <2> QED
      BY <2>1, <2>2 DEF Next
<1> QED
    BY <1>1, <1>2, RefinementInvariance, PTL DEF Spec, ImplementsChannel, Abstract!Spec
=============================================================================
