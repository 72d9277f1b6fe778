------------------------- MODULE ConservativeSlots --------------------------
(***************************************************************************)
(* What the semaphore operations of a request do to the slots: each keeps  *)
(* the agreement of slots, owners and queues.                              *)
(***************************************************************************)
EXTENDS ConservativeTypes

-----------------------------------------------------------------------------
(* Slots *)

Away == Pcs \ (HoldPcs \cup {"waiting"})

\* What Slots says of one node.
QueueOK(n) ==
  /\ waiters[n] # <<>> => semSize[n] > 0 /\ inUse[n] = semSize[n]
  /\ \A i \in DOMAIN waiters[n] :
       /\ pc[waiters[n][i]] = "waiting" /\ cur[waiters[n][i]] = n
       /\ \A j \in DOMAIN waiters[n] : waiters[n][i] = waiters[n][j] => i = j
CountOK(n) ==
  semSize[n] > 0 => inUse[n] = Cardinality(Holders(n)) /\ inUse[n] <= semSize[n]

\* A node whose semaphore and waiting requests are left alone.
LEMMA QueueElsewhere ==
  ASSUME NEW m, QueueOK(m),
         semSize'[m] = semSize[m], inUse'[m] = inUse[m], waiters'[m] = waiters[m],
         \A i \in DOMAIN waiters[m] :
           pc'[waiters[m][i]] = pc[waiters[m][i]] /\ cur'[waiters[m][i]] = cur[waiters[m][i]]
  PROVE  QueueOK(m)'
BY ZenonT(60) DEF QueueOK

\* The owners of a node's slots are finitely many.
LEMMA HoldersFinite ==
  ASSUME FiniteSetFacts, NEW n
  PROVE  IsFiniteSet(Holders(n)) /\ Cardinality(Holders(n)) \in Nat
<1>1. IsFiniteSet(Requests) /\ Holders(n) \subseteq Requests
  BY StrategyOptions DEF Holders
<1>2. IsFiniteSet(Holders(n))
  BY <1>1, SubsetFinite
<1> QED
  BY <1>2, CardinalityType

\* A queue's members are requests that wait for its node.
LEMMA QueueMembers ==
  ASSUME TypeOK, Slots, NEW n \in 1..made, NEW i \in DOMAIN waiters[n]
  PROVE  /\ waiters[n][i] \in Requests /\ pc[waiters[n][i]] = "waiting"
         /\ cur[waiters[n][i]] = n /\ Queued(n, waiters[n][i])
<1>1. waiters[n] \in Seq(Requests)
  BY NodesInRange, ZenonT(60) DEF TypeOK, ThrottleTypeOK
<1>2. waiters[n][i] \in Requests
  BY <1>1, SeqIsFunction
<1> QED
  BY <1>2 DEF Slots, NoIdleSlotWhileQueued, Queued

\* A slot that is taken gets an owner (TryAcquire, the fast path of Acquire).
LEMMA TakeKeepsSlots ==
  ASSUME FiniteSetFacts, TypeOK, Slots, NEW r \in Requests, NEW n \in 1..made, made' = made,
         pc[r] \in Away, cur[r] = n, cur' = cur,
         NEW h \in HoldPcs, pc' = [pc EXCEPT ![r] = h],
         SlotFree(n), TakeSlot(n)
  PROVE  Slots'
<1>1. /\ pc \in [Requests -> Pcs] /\ inUse \in [Nodes -> Int] /\ semSize \in [Nodes -> Nat]
      /\ 1..made \subseteq Nodes
  BY NodesInRange DEF TypeOK, ThrottleTypeOK
<1>2. semSize' = semSize /\ waiters' = waiters
  BY DEF TakeSlot
<1>3. \A q \in Requests : q # r => pc'[q] = pc[q]
  BY <1>1
<1>4. pc'[r] \in HoldPcs /\ pc[r] \notin HoldPcs /\ pc[r] # "waiting"
  BY <1>1, SMTT(60) DEF Away
<1>5. ASSUME NEW m \in 1..made
      PROVE  QueueOK(m)'
  <2>1. QueueOK(m)
    BY SMTT(60) DEF Slots, NoIdleSlotWhileQueued, QueueOK
  <2>2. \A i \in DOMAIN waiters[m] : waiters[m][i] \in Requests /\ waiters[m][i] # r
    BY <1>4, QueueMembers, SMTT(60)
  <2>3. waiters[m] # <<>> => inUse'[m] = inUse[m]
    BY <1>1, <2>1, SMTT(60) DEF SlotFree, TakeSlot, QueueOK
  <2> QED
    BY <1>2, <1>3, <2>1, <2>2, <2>3, SMTT(60) DEF QueueOK
<1>6. ASSUME NEW m \in 1..made
      PROVE  CountOK(m)'
  <2>1. CountOK(m)
    BY ZenonT(60) DEF Slots, SlotsMatchHolders, CountOK
  <2>2. ASSUME NEW q \in Requests, q # r
        PROVE  Holds(q, m)' <=> Holds(q, m)
    BY <1>2, <1>3, <2>2, SMTT(60) DEF Holds, Queued
  <2>3. ~Holds(r, m) /\ (Holds(r, m)' <=> m = n)
    BY <1>4, SMTT(60) DEF Holds, HoldPcs
  <2>4. CASE m # n
    <3>1. Holders(m)' = Holders(m)
      BY <2>2, <2>3, <2>4 DEF Holders
    <3>2. inUse'[m] = inUse[m]
      BY <1>1, <2>4 DEF TakeSlot
    <3> QED
      BY <1>2, <2>1, <3>1, <3>2, SMTT(60) DEF CountOK
  <2>5. CASE m = n /\ semSize[n] > 0
    <3>1. Holders(n)' = Holders(n) \cup {r} /\ r \notin Holders(n)
      BY <2>2, <2>3, <2>5, SMTT(60) DEF Holders
    <3>2. Cardinality(Holders(n)') = Cardinality(Holders(n)) + 1
      BY <3>1, HoldersFinite, CardinalityAdd, SMTT(60)
    <3>3. inUse'[n] = inUse[n] + 1 /\ inUse[n] < semSize[n]
      BY <1>1, <2>5, SMTT(60) DEF TakeSlot, SlotFree
    <3> QED
      BY <1>1, <1>2, <2>1, <2>5, <3>2, <3>3, SMTT(60) DEF CountOK
  <2>6. CASE m = n /\ ~(semSize[n] > 0)
    BY <1>2, <2>6, SMTT(60) DEF CountOK
  <2> QED
    BY <2>4, <2>5, <2>6, SMTT(60)
<1> QED
  BY <1>5, <1>6 DEF Slots, NoIdleSlotWhileQueued, SlotsMatchHolders, QueueOK, CountOK

\* A slot that is given back has no owner, or the head of the queue for one
\* (Release).
LEMMA ReleaseKeepsSlots ==
  ASSUME FiniteSetFacts, TypeOK, Slots, NEW r \in Requests, NEW n \in 1..made, made' = made,
         Holds(r, n), Release(n),
         NEW p \in Away, pc' = [pc EXCEPT ![r] = p], cur' = [cur EXCEPT ![r] = NoNode]
  PROVE  Slots'
<1>1. /\ pc \in [Requests -> Pcs] /\ inUse \in [Nodes -> Int] /\ semSize \in [Nodes -> Nat]
      /\ cur \in [Requests -> 0..made]
      /\ 1..made \subseteq Nodes /\ waiters \in [Nodes -> Seq(Requests)]
  BY NodesInRange DEF TypeOK, ThrottleTypeOK
<1>2. semSize' = semSize /\ \A m \in 1..made : m # n => waiters'[m] = waiters[m] /\ inUse'[m] = inUse[m]
  BY <1>1 DEF Release
<1>3. \A q \in Requests : q # r => pc'[q] = pc[q] /\ cur'[q] = cur[q]
  BY <1>1
<1>4. pc'[r] \notin HoldPcs /\ pc'[r] # "waiting"
  BY <1>1, SMTT(60) DEF Away
<1>5. QueueOK(n) /\ CountOK(n)
  BY DEF Slots, NoIdleSlotWhileQueued, SlotsMatchHolders, QueueOK, CountOK
<1>6. ~Queued(n, r) /\ cur[r] = n
  <2>1. CASE pc[r] = "waiting"
    BY <2>1, SMTT(60) DEF Holds, HoldPcs
  <2>2. CASE pc[r] # "waiting"
    BY <2>2, QueueMembers DEF Holds, Queued
  <2> QED
    BY <2>1, <2>2
<1>7. \A m : ~Holds(r, m)'
  BY <1>4, SMTT(60) DEF Holds, HoldPcs
<1>8. ASSUME NEW m \in 1..made, m # n
      PROVE  QueueOK(m)' /\ CountOK(m)'
  <2>1. QueueOK(m) /\ CountOK(m)
    BY DEF Slots, NoIdleSlotWhileQueued, SlotsMatchHolders, QueueOK, CountOK
  <2>2. \A i \in DOMAIN waiters[m] : waiters[m][i] \in Requests /\ waiters[m][i] # r
    BY <1>6, <1>8, QueueMembers, SMTT(60)
  <2>3. QueueOK(m)'
    BY <1>2, <1>3, <1>8, <2>1, <2>2 DEF QueueOK
  <2>4. ASSUME NEW q \in Requests
        PROVE  Holds(q, m)' <=> Holds(q, m)
    <3>1. CASE q = r
      BY <1>6, <1>7, <1>8, <3>1, SMTT(60) DEF Holds
    <3>2. CASE q # r
      BY <1>2, <1>3, <1>8, <3>2 DEF Holds, Queued
    <3> QED
      BY <3>1, <3>2
  <2>5. Holders(m)' = Holders(m)
    BY <2>4, SMTT(60) DEF Holders
  <2> QED
    BY <1>2, <1>8, <2>1, <2>3, <2>5, SMTT(60) DEF CountOK
<1>9. CASE waiters[n] = <<>>
  <2>1. waiters'[n] = <<>>
    BY <1>1, <1>9, SMTT(60) DEF Release
  <2>2. QueueOK(n)'
    BY <2>1 DEF QueueOK
  <2>3. Holders(n)' = Holders(n) \ {r} /\ r \in Holders(n)
    <3>1. ASSUME NEW q \in Requests, q # r
          PROVE  Holds(q, n)' <=> Holds(q, n)
      BY <1>3, <1>9, <2>1, <3>1, SMTT(60) DEF Holds, Queued
    <3> QED
      BY <1>7, <3>1, SMTT(60) DEF Holders
  <2>4. Cardinality(Holders(n)') = Cardinality(Holders(n)) - 1
    BY <2>3, HoldersFinite, CardinalityRemove, ZenonT(60)
  <2>5. semSize[n] > 0 => inUse'[n] = inUse[n] - 1
    <3>1. n \in Nodes /\ semSize[n] \in Nat
      BY <1>1, ZenonT(60)
    <3>2. inUse' = [inUse EXCEPT ![n] = IF semSize[n] = 0 THEN @ ELSE @ - 1]
      BY <1>9 DEF Release
    <3> QED
      BY <1>1, <3>1, <3>2
  <2>6. CountOK(n)'
    <3>1. inUse[n] \in Int /\ semSize[n] \in Nat /\ semSize'[n] = semSize[n]
      BY <1>1, <1>2, ZenonT(60)
    <3> QED
      BY <1>5, <2>4, <2>5, <3>1, HoldersFinite DEF CountOK
  <2> QED
    BY <1>8, <2>2, <2>6, SMTT(60)
       DEF Slots, NoIdleSlotWhileQueued, SlotsMatchHolders, QueueOK, CountOK
<1>10. CASE waiters[n] # <<>>
  <2>0. waiters[n] \in Seq(Requests)
    BY <1>1
  <2>1. waiters[n] \in Seq(Requests) /\ Len(waiters[n]) \in Nat \ {0}
        /\ DOMAIN waiters[n] = 1..Len(waiters[n])
    BY <1>10, <2>0, SeqIsFunction
  <2>1a. PICK q1 \in Requests : q1 = waiters[n][1]
    BY <2>1, QueueMembers, SMTT(60)
  <2>2. waiters'[n] = Tail(waiters[n]) /\ inUse'[n] = inUse[n]
    BY <1>1, <1>10, ZenonT(60) DEF Release
  <2>3. /\ DOMAIN waiters'[n] = 1..(Len(waiters[n]) - 1)
        /\ \A i \in DOMAIN waiters'[n] : waiters'[n][i] = waiters[n][i + 1]
    BY <2>1, <2>2, SMTT(60)
  <2>4. \A i \in DOMAIN waiters'[n] : i + 1 \in DOMAIN waiters[n] /\ i \in Nat
    BY <2>1, <2>3, SMTT(60)
  <2>5. q1 \in Requests /\ pc[q1] = "waiting" /\ cur[q1] = n /\ Queued(n, q1) /\ q1 # r
    BY <1>6, <2>1, <2>1a, QueueMembers, SMTT(60)
  <2>6. ~Queued(n, q1)'
    <3> SUFFICES ASSUME NEW i \in DOMAIN waiters'[n], waiters'[n][i] = q1
                 PROVE  FALSE
      BY SMTT(60) DEF Queued
    <3>1. waiters[n][i + 1] = waiters[n][1] /\ i + 1 \in DOMAIN waiters[n] /\ i \in 1..(Len(waiters[n]) - 1)
      BY <2>3, <2>4, <2>1a, SMTT(60)
    <3>2. i + 1 = 1
      BY <1>5, <2>1, <3>1, SMTT(60) DEF QueueOK
    <3> QED
      BY <2>1, <3>1, <3>2
  <2>7. ASSUME NEW q, q # q1
        PROVE  Queued(n, q)' <=> Queued(n, q)
    <3>1. ASSUME NEW i \in DOMAIN waiters'[n], waiters'[n][i] = q
          PROVE  Queued(n, q)
      BY <2>3, <2>4, <3>1, SMTT(60) DEF Queued
    <3>2. ASSUME NEW i \in DOMAIN waiters[n], waiters[n][i] = q
          PROVE  Queued(n, q)'
      <4>1. i # 1 /\ i \in 1..Len(waiters[n])
        BY <2>1, <2>7, <2>1a, <3>2, SMTT(60)
      <4>2. i - 1 \in DOMAIN waiters'[n] /\ (i - 1) + 1 = i
        BY <2>1, <2>3, <4>1, SMTT(60)
      <4>3. waiters'[n][i - 1] = q
        BY <2>3, <3>2, <4>2, SMTT(60)
      <4> QED
        BY <4>2, <4>3, SMTT(60) DEF Queued
    <3> QED
      BY <3>1, <3>2, SMTT(60) DEF Queued
  <2>8. QueueOK(n)'
    <3>1. ASSUME NEW i \in DOMAIN waiters'[n]
          PROVE  /\ pc'[waiters'[n][i]] = "waiting" /\ cur'[waiters'[n][i]] = n
                 /\ \A j \in DOMAIN waiters'[n] : waiters'[n][i] = waiters'[n][j] => i = j
      <4>1. /\ waiters'[n][i] = waiters[n][i + 1] /\ i + 1 \in DOMAIN waiters[n]
            /\ waiters[n][i + 1] \in Requests /\ waiters[n][i + 1] # r
        BY <1>6, <2>3, <2>4, QueueMembers, SMTT(60)
      <4>2. pc'[waiters'[n][i]] = "waiting" /\ cur'[waiters'[n][i]] = n
        BY <1>3, <1>5, <4>1, SMTT(60) DEF QueueOK
      <4>3. ASSUME NEW j \in DOMAIN waiters'[n], waiters'[n][i] = waiters'[n][j]
            PROVE  i = j
        <5>1. waiters[n][i + 1] = waiters[n][j + 1] /\ j + 1 \in DOMAIN waiters[n]
              /\ i \in Nat /\ j \in Nat
          BY <2>3, <2>4, <4>3, SMTT(60)
        <5>2. i + 1 = j + 1
          BY <1>5, <4>1, <5>1, SMTT(60) DEF QueueOK
        <5> QED
          BY <5>1, <5>2, SMTT(60)
      <4> QED
        BY <4>2, <4>3, SMTT(60)
    <3>2. semSize'[n] > 0 /\ inUse'[n] = semSize'[n]
      BY <1>2, <1>5, <1>10, <2>2, ZenonT(60) DEF QueueOK
    <3> QED
      BY <3>1, <3>2, SMTT(60) DEF QueueOK
  <2>9. Holders(n)' = (Holders(n) \ {r}) \cup {q1} /\ r \in Holders(n) /\ q1 \notin Holders(n)
    <3>1. ASSUME NEW q \in Requests, q # r, q # q1
          PROVE  Holds(q, n)' <=> Holds(q, n)
      <4>1. Queued(n, q)' <=> Queued(n, q)
        BY <2>7, <3>1, SMTT(60)
      <4> QED
        BY <1>3, <3>1, <4>1 DEF Holds
    <3>2. Holds(q1, n)' /\ ~Holds(q1, n)
      <4>1. pc'[q1] = "waiting" /\ cur'[q1] = n
        BY <1>3, <2>5, SMTT(60)
      <4> QED
        BY <2>5, <2>6, <4>1, SMTT(60) DEF Holds, HoldPcs
    <3> QED
      BY <1>7, <2>5, <3>1, <3>2, SMTT(60) DEF Holders
  <2>10. Cardinality(Holders(n)') = Cardinality(Holders(n))
    <3>1. IsFiniteSet(Holders(n) \ {r}) /\ Cardinality(Holders(n) \ {r}) = Cardinality(Holders(n)) - 1
      BY <2>9, HoldersFinite, CardinalityRemove, SMTT(60)
    <3>2. q1 \notin Holders(n) \ {r}
      BY <2>9, SMTT(60)
    <3>3. Cardinality((Holders(n) \ {r}) \cup {q1}) = Cardinality(Holders(n) \ {r}) + 1
      BY <3>1, <3>2, CardinalityAdd, SMTT(60)
    <3> QED
      BY <2>9, <3>1, <3>3, HoldersFinite, SMTT(60)
  <2>11. CountOK(n)'
    BY <1>2, <1>5, <2>2, <2>10, SMTT(60) DEF CountOK
  <2> QED
    BY <1>8, <2>8, <2>11, SMTT(60)
       DEF Slots, NoIdleSlotWhileQueued, SlotsMatchHolders, QueueOK, CountOK
<1> QED
  BY <1>9, <1>10, SMTT(60)

\* A request that queues finds every slot taken (the slow path of Acquire).
LEMMA EnqueueKeepsSlots ==
  ASSUME TypeOK, Slots, NEW r \in Requests, NEW n \in 1..made, made' = made,
         pc[r] \in Away, cur[r] = n, cur' = cur,
         pc' = [pc EXCEPT ![r] = "waiting"],
         ~SlotFree(n), Enqueue(n, r)
  PROVE  Slots'
<1>1. /\ pc \in [Requests -> Pcs] /\ inUse \in [Nodes -> Int] /\ semSize \in [Nodes -> Nat]
      /\ 1..made \subseteq Nodes /\ waiters \in [Nodes -> Seq(Requests)]
  BY NodesInRange DEF TypeOK, ThrottleTypeOK
<1>2. /\ semSize' = semSize /\ inUse' = inUse
      /\ \A m \in 1..made : m # n => waiters'[m] = waiters[m]
      /\ waiters'[n] = Append(waiters[n], r)
  BY <1>1, ZenonT(60) DEF Enqueue
<1>3. \A q \in Requests : q # r => pc'[q] = pc[q]
  BY <1>1
<1>4. pc'[r] = "waiting" /\ pc[r] \notin HoldPcs /\ pc[r] # "waiting"
  BY <1>1 DEF Away
<1>5. QueueOK(n) /\ CountOK(n)
  BY ZenonT(60) DEF Slots, NoIdleSlotWhileQueued, SlotsMatchHolders, QueueOK, CountOK
<1>6. ASSUME NEW m \in 1..made, NEW i \in DOMAIN waiters[m]
      PROVE  waiters[m][i] \in Requests /\ waiters[m][i] # r
  BY <1>4, QueueMembers, SMTT(60)
<1>7. /\ waiters[n] \in Seq(Requests) /\ Len(waiters[n]) \in Nat
      /\ DOMAIN waiters[n] = 1..Len(waiters[n])
      /\ DOMAIN waiters'[n] = 1..(Len(waiters[n]) + 1)
      /\ waiters'[n][Len(waiters[n]) + 1] = r
      /\ \A i \in 1..Len(waiters[n]) : waiters'[n][i] = waiters[n][i]
  <2>1. waiters[n] \in Seq(Requests)
    BY <1>1
  <2>2. /\ Len(waiters[n]) \in Nat /\ DOMAIN waiters[n] = 1..Len(waiters[n])
        /\ DOMAIN Append(waiters[n], r) = 1..(Len(waiters[n]) + 1)
        /\ Append(waiters[n], r)[Len(waiters[n]) + 1] = r
        /\ \A i \in 1..Len(waiters[n]) : Append(waiters[n], r)[i] = waiters[n][i]
    BY <2>1, SeqAppend, SeqIsFunction
  <2> QED
    BY <1>2, <2>1, <2>2, Zenon
<1>8. ASSUME NEW q \in Requests, NEW m \in 1..made
      PROVE  Holds(q, m)' <=> Holds(q, m)
  <2>1. CASE q = r
    <3>1. Queued(n, r)'
      BY <1>7, SMTT(60) DEF Queued
    <3> QED
      BY <1>4, <2>1, <3>1 DEF Holds, HoldPcs
  <2>2. CASE q # r /\ m # n
    BY <1>2, <1>3, <2>2, SMTT(60) DEF Holds, Queued
  <2>3. CASE q # r /\ m = n
    <3>1. Queued(n, q)' <=> Queued(n, q)
      <4>1. \A i \in 1..(Len(waiters[n]) + 1) :
              i \in 1..Len(waiters[n]) \/ i = Len(waiters[n]) + 1
        BY <1>7, SMTT(60)
      <4>2. 1..Len(waiters[n]) \subseteq 1..(Len(waiters[n]) + 1)
        BY <1>7, SMTT(60)
      <4> QED
        BY <1>7, <2>3, <4>1, <4>2, ZenonT(60) DEF Queued
    <3> QED
      BY <1>3, <2>3, <3>1, SMTT(60) DEF Holds
  <2> QED
    BY <2>1, <2>2, <2>3
<1>9. ASSUME NEW m \in 1..made
      PROVE  CountOK(m)'
  <2>1. Holders(m)' = Holders(m)
    BY <1>8, SMTT(60) DEF Holders
  <2> QED
    BY <1>2, <2>1, SMTT(60) DEF Slots, SlotsMatchHolders, CountOK
<1>10. ASSUME NEW m \in 1..made, m # n
       PROVE  QueueOK(m)'
  <2>1. QueueOK(m)
    BY ZenonT(60) DEF Slots, NoIdleSlotWhileQueued, QueueOK
  <2>2. semSize'[m] = semSize[m] /\ inUse'[m] = inUse[m] /\ waiters'[m] = waiters[m]
    BY <1>2, <1>10
  <2>3. \A i \in DOMAIN waiters[m] : waiters[m][i] \in Requests /\ waiters[m][i] # r
    BY <1>6, ZenonT(60)
  <2> QED
    BY <1>3, <2>1, <2>2, <2>3, QueueElsewhere, ZenonT(60)
<1>11. QueueOK(n)'
  <2>1. semSize[n] > 0 /\ inUse[n] = semSize[n]
    <3>1. semSize[n] \in Nat /\ inUse[n] \in Int
      BY <1>1, SMTT(60)
    <3> QED
      BY <1>5, <3>1 DEF QueueOK, CountOK, SlotFree
  <2>2. ASSUME NEW i \in DOMAIN waiters'[n]
        PROVE  /\ pc'[waiters'[n][i]] = "waiting" /\ cur'[waiters'[n][i]] = n
               /\ \A j \in DOMAIN waiters'[n] : waiters'[n][i] = waiters'[n][j] => i = j
    <3>1. i \in 1..Len(waiters[n]) \/ i = Len(waiters[n]) + 1
      BY <1>7, SMTT(60)
    <3>2. \A j \in DOMAIN waiters'[n] : j \in 1..Len(waiters[n]) \/ j = Len(waiters[n]) + 1
      BY <1>7, SMTT(60)
    <3>3. CASE i \in 1..Len(waiters[n])
      <4>1. waiters'[n][i] = waiters[n][i] /\ waiters[n][i] \in Requests /\ waiters[n][i] # r
        BY <1>6, <1>7, <3>3
      <4>2. pc'[waiters'[n][i]] = "waiting" /\ cur'[waiters'[n][i]] = n
        BY <1>3, <1>5, <1>7, <3>3, <4>1 DEF QueueOK
      <4>3. ASSUME NEW j \in DOMAIN waiters'[n], waiters'[n][i] = waiters'[n][j]
            PROVE  i = j
        <5>1. CASE j \in 1..Len(waiters[n])
          <6>1. waiters[n][i] = waiters[n][j]
            BY <1>7, <3>3, <4>3, <5>1, ZenonT(60)
          <6>2. i \in DOMAIN waiters[n] /\ j \in DOMAIN waiters[n]
            BY <1>7, <3>3, <5>1, ZenonT(60)
          <6> QED
            BY <1>5, <6>1, <6>2, ZenonT(60) DEF QueueOK
        <5>2. CASE j = Len(waiters[n]) + 1
          BY <1>7, <4>1, <4>3, <5>2, ZenonT(60)
        <5> QED
          BY <3>2, <5>1, <5>2, ZenonT(60)
      <4> QED
        BY <4>2, <4>3, ZenonT(60)
    <3>4. CASE i = Len(waiters[n]) + 1
      <4>1. waiters'[n][i] = r
        BY <1>7, <3>4, ZenonT(60)
      <4>2. ASSUME NEW j \in DOMAIN waiters'[n], waiters'[n][j] = r, j \in 1..Len(waiters[n])
            PROVE  FALSE
        BY <1>6, <1>7, <4>2, ZenonT(60)
      <4> QED
        BY <1>4, <3>2, <3>4, <4>1, <4>2, ZenonT(60)
    <3> QED
      BY <3>1, <3>3, <3>4, ZenonT(60)
  <2> QED
    BY <1>2, <2>1, <2>2 DEF QueueOK
<1> QED
  BY <1>9, <1>10, <1>11, SMTT(60) DEF Slots, NoIdleSlotWhileQueued, SlotsMatchHolders, QueueOK, CountOK

\* A request that gives up waiting takes nothing with it.
LEMMA LeaveKeepsSlots ==
  ASSUME FiniteSetFacts, TypeOK, Slots, NEW r \in Requests, NEW n \in 1..made, made' = made,
         pc[r] = "waiting", cur[r] = n, LeaveQueue(n, r),
         NEW p \in Away, pc' = [pc EXCEPT ![r] = p], cur' = [cur EXCEPT ![r] = NoNode]
  PROVE  Slots'
<1>1. /\ pc \in [Requests -> Pcs] /\ cur \in [Requests -> 0..made]
      /\ 1..made \subseteq Nodes /\ waiters \in [Nodes -> Seq(Requests)]
  BY NodesInRange DEF TypeOK, ThrottleTypeOK
<1>2. PICK k \in DOMAIN waiters[n] :
        /\ waiters[n][k] = r
        /\ waiters' = [waiters EXCEPT ![n] =
             [j \in 1..(Len(@) - 1) |-> IF j < k THEN @[j] ELSE @[j + 1]]]
  BY ZenonT(60) DEF LeaveQueue
<1>3. /\ semSize' = semSize /\ inUse' = inUse
      /\ \A m \in 1..made : m # n => waiters'[m] = waiters[m]
  BY <1>1, <1>2 DEF LeaveQueue
<1> DEFINE L == Len(waiters[n])
           From(j) == IF j < k THEN j ELSE j + 1
<1>4. L \in Nat /\ DOMAIN waiters[n] = 1..L /\ k \in 1..L
  BY <1>1, <1>2, SeqIsFunction, SMTT(60)
<1>5. /\ DOMAIN waiters'[n] = 1..(L - 1)
      /\ \A j \in 1..(L - 1) : waiters'[n][j] = waiters[n][From(j)]
  BY <1>1, <1>2, SMTT(60)
<1>6. \A j \in 1..(L - 1) : From(j) \in 1..L /\ From(j) # k
  BY <1>4, SMTT(60)
<1>7. \A i, j \in 1..(L - 1) : From(i) = From(j) => i = j
  BY <1>4, SMTT(60)
<1>8. \A i \in 1..L : i # k => \E j \in 1..(L - 1) : From(j) = i
  <2> SUFFICES ASSUME NEW i \in 1..L, i # k
               PROVE  \E j \in 1..(L - 1) : From(j) = i
    BY SMTT(60)
  <2>1. CASE i < k
    BY <1>4, <2>1, SMTT(60)
  <2>2. CASE i > k
    <3>1. i - 1 \in 1..(L - 1) /\ From(i - 1) = i
      BY <1>4, <2>2, SMTT(60)
    <3> QED
      BY <3>1, SMTT(60)
  <2> QED
    BY <1>4, <2>1, <2>2, SMTT(60)
<1> HIDE DEF From
<1>9. \A q \in Requests : q # r => pc'[q] = pc[q] /\ cur'[q] = cur[q]
  BY <1>1, SMTT(60)
<1>10. pc'[r] \notin HoldPcs /\ pc'[r] # "waiting"
  BY <1>1, SMTT(60) DEF Away
<1>11. QueueOK(n)
  BY SMTT(60) DEF Slots, NoIdleSlotWhileQueued, QueueOK
<1>12. ASSUME NEW q \in Requests, q # r
       PROVE  Queued(n, q)' <=> Queued(n, q)
  <2>1. ASSUME NEW i \in DOMAIN waiters'[n], waiters'[n][i] = q
        PROVE  Queued(n, q)
    BY <1>4, <1>5, <1>6, <2>1, ZenonT(60) DEF Queued
  <2>2. ASSUME NEW i \in DOMAIN waiters[n], waiters[n][i] = q
        PROVE  Queued(n, q)'
    <3>1. i \in 1..L /\ i # k
      BY <1>2, <1>4, <1>12, <2>2
    <3>2. PICK j \in 1..(L - 1) : From(j) = i
      BY <1>8, <3>1, SMTT(60)
    <3> QED
      BY <1>5, <2>2, <3>2, ZenonT(60) DEF Queued
  <2> QED
    BY <2>1, <2>2, SMTT(60) DEF Queued
<1>13. ASSUME NEW q \in Requests, NEW m \in 1..made
       PROVE  Holds(q, m)' <=> Holds(q, m)
  <2>1. CASE q = r
    <3>1. Queued(n, r)
      BY <1>2, SMTT(60) DEF Queued
    <3> QED
      BY <1>10, <2>1, <3>1 DEF Holds, HoldPcs
  <2>2. CASE q # r /\ m # n
    BY <1>3, <1>9, <2>2, SMTT(60) DEF Holds, Queued
  <2>3. CASE q # r /\ m = n
    <3>1. Queued(n, q)' <=> Queued(n, q)
      BY <1>12, <2>3, SMTT(60)
    <3> QED
      BY <1>9, <2>3, <3>1, SMTT(60) DEF Holds
  <2> QED
    BY <2>1, <2>2, <2>3
<1>14. ASSUME NEW m \in 1..made
       PROVE  CountOK(m)'
  <2>1. Holders(m)' = Holders(m)
    BY <1>13, SMTT(60) DEF Holders
  <2> QED
    BY <1>3, <2>1, SMTT(60) DEF Slots, SlotsMatchHolders, CountOK
<1>15. ASSUME NEW m \in 1..made, m # n
       PROVE  QueueOK(m)'
  <2>1. \A i \in DOMAIN waiters[m] : waiters[m][i] \in Requests /\ waiters[m][i] # r
    BY <1>15, QueueMembers
  <2>2. QueueOK(m)
    BY ZenonT(60) DEF Slots, NoIdleSlotWhileQueued, QueueOK
  <2>3. semSize'[m] = semSize[m] /\ inUse'[m] = inUse[m] /\ waiters'[m] = waiters[m]
    BY <1>3, <1>15
  <2> QED
    BY <1>9, <2>1, <2>2, <2>3, QueueElsewhere, ZenonT(60)
<1>16. QueueOK(n)'
  <2>1. waiters[n] # <<>>
    BY <1>1, <1>2, SMTT(60)
  <2>2. semSize'[n] > 0 /\ inUse'[n] = semSize'[n]
    BY <1>3, <1>11, <2>1, ZenonT(60) DEF QueueOK
  <2>3. ASSUME NEW i \in DOMAIN waiters'[n]
        PROVE  /\ pc'[waiters'[n][i]] = "waiting" /\ cur'[waiters'[n][i]] = n
               /\ \A j \in DOMAIN waiters'[n] : waiters'[n][i] = waiters'[n][j] => i = j
    <3>1. /\ waiters'[n][i] = waiters[n][From(i)] /\ From(i) \in DOMAIN waiters[n]
          /\ From(i) # k
      BY <1>4, <1>5, <1>6, ZenonT(60)
    <3>2. waiters[n][From(i)] \in Requests /\ waiters[n][From(i)] # r
      <4>1. waiters[n][From(i)] \in Requests
        BY <3>1, QueueMembers, ZenonT(60)
      <4>2. waiters[n][From(i)] # waiters[n][k]
        BY <1>2, <1>11, <3>1, ZenonT(60) DEF QueueOK
      <4> QED
        BY <1>2, <4>1, <4>2, ZenonT(60)
    <3>3. pc'[waiters'[n][i]] = "waiting" /\ cur'[waiters'[n][i]] = n
      BY <1>9, <1>11, <3>1, <3>2, SMTT(60) DEF QueueOK
    <3>4. ASSUME NEW j \in DOMAIN waiters'[n], waiters'[n][i] = waiters'[n][j]
          PROVE  i = j
      <4>1. waiters[n][From(i)] = waiters[n][From(j)] /\ From(j) \in DOMAIN waiters[n]
        BY <1>4, <1>5, <1>6, <3>1, <3>4
      <4>2. From(i) = From(j)
        BY <1>11, <3>1, <4>1, SMTT(60) DEF QueueOK
      <4> QED
        BY <1>5, <1>7, <4>2
    <3> QED
      BY <3>3, <3>4, ZenonT(60)
  <2> QED
    BY <2>2, <2>3, ZenonT(60) DEF QueueOK
<1> QED
  BY <1>14, <1>15, <1>16, SMTT(60) DEF Slots, NoIdleSlotWhileQueued, SlotsMatchHolders, QueueOK, CountOK

\* A step that leaves the semaphores alone, of a request that owns no slot
\* before or after it, or owns the same one.
LEMMA QuietKeepsSlots ==
  ASSUME TypeOK, Slots, NEW r \in Requests, made' = made, UNCHANGED throttle,
         NEW p \in Pcs, pc' = [pc EXCEPT ![r] = p],
         NEW m \in 0..made, cur' = [cur EXCEPT ![r] = m],
         \/ pc[r] \in Away /\ p \in Away
         \/ cur[r] \in 1..made /\ Holds(r, cur[r]) /\ p \in HoldPcs /\ m = cur[r]
  PROVE  Slots'
<1>1. pc \in [Requests -> Pcs] /\ cur \in [Requests -> 0..made]
  BY SMTT(60) DEF TypeOK
<1>2. UNCHANGED <<semSize, inUse, waiters>>
  BY SMTT(60) DEF throttle
<1>3. \A q \in Requests : q # r => pc'[q] = pc[q] /\ cur'[q] = cur[q]
  BY <1>1
<1>4. pc'[r] = p /\ cur'[r] = m
  BY <1>1, SMTT(60)
<1>5. ASSUME NEW n \in 1..made
      PROVE  Holds(r, n)' <=> Holds(r, n)
  <2>1. CASE pc[r] \in Away /\ p \in Away
    BY <1>4, <2>1, SMTT(60) DEF Holds, Away, HoldPcs
  <2>2. CASE Holds(r, cur[r]) /\ p \in HoldPcs /\ m = cur[r]
    BY <1>4, <2>2, SMTT(60) DEF Holds, HoldPcs
  <2> QED
    BY <2>1, <2>2, SMTT(60)
<1>6. ASSUME NEW n \in 1..made, NEW i \in DOMAIN waiters[n]
      PROVE  waiters[n][i] \in Requests /\ waiters[n][i] # r
  <2>1. /\ waiters[n][i] \in Requests /\ pc[waiters[n][i]] = "waiting"
        /\ cur[waiters[n][i]] = n /\ Queued(n, waiters[n][i])
    BY QueueMembers, SMTT(60)
  <2> QED
    BY <2>1, ZenonT(60) DEF Holds, Away, HoldPcs
<1>7. ASSUME NEW n \in 1..made
      PROVE  Holders(n)' = Holders(n)
  <2>1. \A q \in Requests : q # r => (Holds(q, n)' <=> Holds(q, n))
    BY <1>2, <1>3, ZenonT(60) DEF Holds, Queued
  <2> QED
    BY <1>5, <2>1, SMTT(60) DEF Holders
<1>8. ASSUME NEW n \in 1..made
      PROVE  QueueOK(n)' /\ CountOK(n)'
  <2>1. QueueOK(n) /\ CountOK(n)
    BY ZenonT(60) DEF Slots, NoIdleSlotWhileQueued, SlotsMatchHolders, QueueOK, CountOK
  <2>2. QueueOK(n)'
    BY <1>2, <1>3, <1>6, <2>1, ZenonT(60) DEF QueueOK
  <2> QED
    BY <1>2, <1>7, <2>1, <2>2, SMTT(60) DEF CountOK
<1> QED
  BY <1>8, ZenonT(60) DEF Slots, NoIdleSlotWhileQueued, SlotsMatchHolders, QueueOK, CountOK
=============================================================================
