------------------------- MODULE ConservativeProofs -------------------------
(***************************************************************************)
(* Safety of the conservative strategy for any number of requests, nodes,  *)
(* retries and slots: slots are neither lost nor invented, no slot is idle *)
(* while a request is queued for it, and circuits agree with the streaks.  *)
(***************************************************************************)
EXTENDS ConservativeSlots, FiniteSetTheorems

\* The facts about finite sets that the lemmas take as a hypothesis.
LEMMA FiniteSetFactsHold == FiniteSetFacts
<1>1. \A n \in Nat : IsFiniteSet(1..n)
  BY FS_Interval
<1>2. \A S : IsFiniteSet(S) => Cardinality(S) \in Nat
  BY FS_CardinalityType
<1>3. \A S : \A T \in SUBSET S : IsFiniteSet(S) => IsFiniteSet(T)
  BY FS_Subset
<1>4. Cardinality({}) = 0
  BY FS_EmptySet
<1>5. \A S, x : IsFiniteSet(S) =>
        /\ IsFiniteSet(S \cup {x})
        /\ Cardinality(S \cup {x}) = IF x \in S THEN Cardinality(S) ELSE Cardinality(S) + 1
  BY FS_AddElement
<1>6. \A S, x : IsFiniteSet(S) =>
        /\ IsFiniteSet(S \ {x})
        /\ Cardinality(S \ {x}) = IF x \in S THEN Cardinality(S) - 1 ELSE Cardinality(S)
  BY FS_RemoveElement
<1> QED
  BY <1>1, <1>2, <1>3, <1>4, <1>5, <1>6 DEF FiniteSetFacts

-----------------------------------------------------------------------------
(* Steps *)

\* Every step of a request keeps the slots and their owners in step.
LEMMA StepKeepsSlots ==
  ASSUME FiniteSetFacts, TypeOK, CurValid, Slots, NEW r \in Requests, Start(r) \/ Step(r) \/ Cancel(r)
  PROVE  Slots'
<1>1. made' = made
  BY StepPoolType DEF members
<1>2. /\ pc \in [Requests -> Pcs] /\ cur \in [Requests -> 0..made]
      /\ pc[r] \in Pcs /\ cur[r] \in 0..made /\ cur = [cur EXCEPT ![r] = cur[r]]
  BY SMTT(60) DEF TypeOK
<1>3. pc[r] \in AtNode => cur[r] \in 1..made
  BY SMTT(60) DEF CurValid
<1>4. pc[r] \in HoldPcs => cur[r] \in 1..made /\ Holds(r, cur[r])
  BY <1>3, ZenonT(60) DEF AtNode, Holds, HoldPcs
<1>5. CASE UNCHANGED throttle /\ pc[r] \in Away /\ pc'[r] \in Away
  <2>1. PICK p \in Pcs, m \in 0..made : pc' = [pc EXCEPT ![r] = p] /\ cur' = [cur EXCEPT ![r] = m]
    BY StepMoves DEF Moves
  <2>2. p \in Away
    BY <1>2, <1>5, <2>1
  <2> QED
    BY <1>1, <1>5, <2>1, <2>2, QuietKeepsSlots, ZenonT(60)
<1>6. CASE Start(r) \/ NextRound(r) \/ Scan(r) \/ EndScan(r)
  <2>1. UNCHANGED throttle
    BY <1>6, ZenonT(60) DEF Start, NextRound, Scan, EndScan, poolVars, nodeVars
  <2>2. pc[r] \in Away /\ pc'[r] \in Away
    BY <1>2, <1>6, ZenonT(60) DEF Start, NextRound, Scan, EndScan, Goto, Away, HoldPcs, Pcs
  <2> QED
    BY <1>5, <2>1, <2>2
<1>7. CASE TryAcquire(r)
  <2>1. pc[r] \in Away /\ cur[r] \in 1..made
    BY <1>2, <1>3, <1>7, SMTT(60) DEF TryAcquire, Away, HoldPcs, AtNode, Pcs
  <2>2. CASE SlotFree(cur[r]) /\ pc' = [pc EXCEPT ![r] = "limit"] /\ TakeSlot(cur[r]) /\ cur' = cur
    BY <1>1, <2>1, <2>2, TakeKeepsSlots, ZenonT(60) DEF HoldPcs
  <2>3. CASE pc' = [pc EXCEPT ![r] = "scan"] /\ UNCHANGED throttle
    BY <1>2, <1>5, <2>1, <2>3 DEF Away, HoldPcs, Pcs
  <2> QED
    BY <1>7, <2>2, <2>3 DEF TryAcquire, Goto
<1>8. CASE TryLimiters(r)
  <2>1. cur[r] \in 1..made /\ Holds(r, cur[r])
    BY <1>4, <1>8, ZenonT(60) DEF TryLimiters, HoldPcs
  <2>2. CASE pc' = [pc EXCEPT ![r] = "admit"] /\ UNCHANGED throttle /\ cur' = cur
    BY <1>1, <1>2, <2>1, <2>2, QuietKeepsSlots, ZenonT(60) DEF HoldPcs, Pcs
  <2>3. CASE pc' = [pc EXCEPT ![r] = "scan"] /\ Release(cur[r]) /\ cur' = [cur EXCEPT ![r] = NoNode]
    BY <1>1, <2>1, <2>3, ReleaseKeepsSlots, ZenonT(60) DEF HoldPcs, Pcs, Away
  <2> QED
    BY <1>8, <2>2, <2>3, ZenonT(60) DEF TryLimiters, Goto, PassOver
<1>9. CASE Admit(r) \/ Answer(r) \/ WaitLimiters(r)
  <2>1. cur[r] \in 1..made /\ Holds(r, cur[r])
    BY <1>4, <1>9, ZenonT(60) DEF Admit, Answer, WaitLimiters, HoldPcs
  <2>2. UNCHANGED throttle /\ cur' = cur
    BY <1>9, ZenonT(60) DEF Admit, Answer, WaitLimiters, walk, poolVars, nodeVars
  <2>3. PICK p \in HoldPcs : pc' = [pc EXCEPT ![r] = p]
    BY <1>9 DEF Admit, Answer, WaitLimiters, Goto, HoldPcs
  <2>4. p \in Pcs
    BY SMTT(60) DEF HoldPcs, Pcs
  <2> QED
    BY <1>1, <1>2, <2>1, <2>2, <2>3, <2>4, QuietKeepsSlots, ZenonT(60)
<1>10. CASE Finish(r)
  <2>1. cur[r] \in 1..made /\ Holds(r, cur[r])
    BY <1>4, <1>10, ZenonT(60) DEF Finish, HoldPcs
  <2>2. PICK p \in Away : pc' = [pc EXCEPT ![r] = p]
    BY <1>10, SMTT(60) DEF Finish, Goto, Away, HoldPcs, Pcs
  <2> QED
    BY <1>1, <1>10, <2>1, <2>2, ReleaseKeepsSlots, ZenonT(60) DEF Finish
<1>11. CASE Acquire(r)
  <2>1. pc[r] \in Away /\ cur[r] \in 1..made
    BY <1>2, <1>3, <1>11, SMTT(60) DEF Acquire, Away, HoldPcs, AtNode, Pcs
  <2>2. cur' = cur
    BY <1>11, SMTT(60) DEF Acquire, walk
  <2>3. CASE SlotFree(cur[r]) /\ pc' = [pc EXCEPT ![r] = "waitLimit"] /\ TakeSlot(cur[r])
    BY <1>1, <2>1, <2>2, <2>3, TakeKeepsSlots, ZenonT(60) DEF HoldPcs
  <2>4. CASE ~SlotFree(cur[r]) /\ pc' = [pc EXCEPT ![r] = "waiting"] /\ Enqueue(cur[r], r)
    BY <1>1, <2>1, <2>2, <2>4, EnqueueKeepsSlots, ZenonT(60)
  <2> QED
    BY <1>11, <2>3, <2>4, SMTT(60) DEF Acquire, Goto
<1>12. CASE Granted(r)
  <2>1. cur[r] \in 1..made /\ Holds(r, cur[r])
    BY <1>3, <1>12, ZenonT(60) DEF Granted, Holds, AtNode
  <2>2. UNCHANGED throttle /\ cur' = cur /\ pc' = [pc EXCEPT ![r] = "waitLimit"]
    BY <1>12, SMTT(60) DEF Granted, Goto, walk, poolVars, nodeVars
  <2> QED
    BY <1>1, <1>2, <2>1, <2>2, QuietKeepsSlots, ZenonT(60) DEF HoldPcs, Pcs
<1>13. CASE AcquireFails(r)
  <2>1. pc' = [pc EXCEPT ![r] = "round"] /\ cur' = [cur EXCEPT ![r] = NoNode] /\ "round" \in Away
    BY <1>13, SMTT(60) DEF AcquireFails, Goto, Away, HoldPcs, Pcs
  <2>2. CASE pc[r] = "acquire" /\ UNCHANGED throttle
    BY <1>2, <1>5, <2>1, <2>2, SMTT(60) DEF Away, HoldPcs, Pcs
  <2>3. CASE pc[r] = "waiting" /\ LeaveQueue(cur[r], r)
    BY <1>1, <1>3, <2>1, <2>3, LeaveKeepsSlots, ZenonT(60) DEF AtNode
  <2>4. CASE pc[r] = "waiting" /\ ~Queued(cur[r], r) /\ Release(cur[r])
    <3>1. cur[r] \in 1..made /\ Holds(r, cur[r])
      BY <1>3, <2>4, ZenonT(60) DEF Holds, AtNode
    <3> QED
      BY <1>1, <2>1, <2>4, <3>1, ReleaseKeepsSlots, ZenonT(60)
  <2>5. CASE pc[r] = "waitLimit" /\ Release(cur[r])
    <3>1. cur[r] \in 1..made /\ Holds(r, cur[r])
      BY <1>4, <2>5, ZenonT(60) DEF HoldPcs
    <3> QED
      BY <1>1, <2>1, <2>5, <3>1, ReleaseKeepsSlots, ZenonT(60)
  <2> QED
    BY <1>13, <2>2, <2>3, <2>4, <2>5, ZenonT(60) DEF AcquireFails
<1>14. CASE Cancel(r)
  BY <1>14, SMTT(60) DEF Cancel, poolVars, nodeVars, members, throttle, walk, Slots,
              NoIdleSlotWhileQueued, SlotsMatchHolders, Holders, Holds, Queued
<1> QED
  BY <1>6, <1>7, <1>8, <1>9, <1>10, <1>11, <1>12, <1>13, <1>14 DEF Step

\* The pool's own steps neither take nor give back a slot; a node that is added
\* has none taken.
LEMMA PoolStepKeeps ==
  ASSUME FiniteSetFacts, TypeOK, CurValid, Slots, PoolStep
  PROVE  TypeOK' /\ CurValid' /\ Slots'
<1>1. UNCHANGED <<pc, cur, order, round, idx, anyAttempted, throttled, waited,
                  status, lastErr, result, execs, cancelled>>
  BY DEF PoolStep, walk, ends
<1>2. PoolTypeOK /\ made \in Nat
  BY NodesInRange DEF TypeOK
<1>3. /\ PoolTypeOK' /\ made' \in Nat /\ made <= made'
      /\ \A n \in 1..made : /\ semSize'[n] = semSize[n] /\ inUse'[n] = inUse[n]
                            /\ waiters'[n] = waiters[n]
      /\ \A n \in (made + 1)..made' : inUse'[n] = 0 /\ waiters'[n] = <<>>
  <2>1. CASE Admin
    <3>1. PoolTypeOK' /\ OldNodesKept
      BY <1>2, <2>1, AdminEffect
    <3>2. made' \in Nat
      BY <3>1, ScoreInputs, SMTT(60) DEF PoolTypeOK
    <3> QED
      BY <3>1, <3>2, ZenonT(60) DEF OldNodesKept
  <2>2. CASE resortNodes
    <3>1. PoolTypeOK' /\ UNCHANGED <<made, semSize, inUse, waiters>>
      BY <1>2, <2>2, ResortEffect, SMTT(60) DEF nodeVars, throttle
    <3> QED
      BY <1>2, <3>1
  <2>3. CASE Tick /\ UNCHANGED members
    <3>1. UNCHANGED <<made, semSize, inUse, waiters>>
      BY <2>3, SMTT(60) DEF Tick, throttle, members
    <3>2. PoolTypeOK'
      BY <1>2, <2>3, TickType, HealthOnly, SMTT(60) DEF PoolTypeOK
    <3> QED
      BY <1>2, <3>1, <3>2, SMTT(60)
  <2> QED
    BY <2>1, <2>2, <2>3, ZenonT(60) DEF PoolStep
<1>4. 1..made \subseteq 1..made' /\ 0..made \subseteq 0..made'
  BY <1>2, <1>3, SMTT(60)
<1>5. TypeOK'
  <2>1. order' \in [Requests -> Seq(1..made')]
    BY <1>1, <1>4, SeqWiden, ZenonT(60) DEF TypeOK
  <2>2. cur' \in [Requests -> 0..made'] /\ throttled' \in [Requests -> 0..made']
    BY <1>1, <1>4 DEF TypeOK
  <2> QED
    BY <1>1, <1>3, <2>1, <2>2, ZenonT(60) DEF TypeOK
<1>6. CurValid'
  BY <1>1, <1>4, ZenonT(60) DEF CurValid
<1>7. ASSUME NEW n \in 1..made
      PROVE  QueueOK(n)' /\ CountOK(n)'
  <2>1. QueueOK(n) /\ CountOK(n)
    BY SMTT(60) DEF Slots, NoIdleSlotWhileQueued, SlotsMatchHolders, QueueOK, CountOK
  <2>2. Holders(n)' = Holders(n)
    BY <1>1, <1>3, SMTT(60) DEF Holders, Holds, Queued
  <2>3. QueueOK(n)'
    BY <1>1, <1>3, <2>1, ZenonT(60) DEF QueueOK
  <2> QED
    BY <1>3, <2>1, <2>2, <2>3, SMTT(60) DEF CountOK
<1>8. ASSUME NEW n \in (made + 1)..made'
      PROVE  QueueOK(n)' /\ CountOK(n)'
  <2>1. inUse'[n] = 0 /\ waiters'[n] = <<>>
    BY <1>3, SMTT(60)
  <2>2. \A q \in Requests : cur'[q] # n
    <3>1. \A q \in Requests : cur[q] \in 0..made
      BY SMTT(60) DEF TypeOK
    <3> QED
      BY <1>1, <1>2, <1>3, <3>1, SMTT(60)
  <2>3. Holders(n)' = {}
    BY <2>2, SMTT(60) DEF Holders, Holds
  <2>4. Cardinality(Holders(n)') = 0
    BY <2>3 DEF FiniteSetFacts
  <2>5. semSize'[n] \in Nat
    <3>1. n \in Nodes
      BY <1>2, <1>3, ScoreInputs, SMTT(60) DEF PoolTypeOK, Nodes
    <3>2. semSize' \in [Nodes -> Nat]
      BY <1>3, SMTT(60) DEF PoolTypeOK, NodeTypeOK
    <3> QED
      BY <3>1, <3>2, SMTT(60)
  <2> QED
    BY <2>1, <2>4, <2>5, SMTT(60) DEF QueueOK, CountOK
<1>9. \A n \in 1..made' : n \in 1..made \/ n \in (made + 1)..made'
  BY <1>2, <1>3
<1> QED
  BY <1>5, <1>6, <1>7, <1>8, <1>9, ZenonT(60)
     DEF Slots, NoIdleSlotWhileQueued, SlotsMatchHolders, QueueOK, CountOK

-----------------------------------------------------------------------------
(* The invariant is inductive *)

\* The strategy starts with every slot free and every circuit closed.
LEMMA InitOK ==
  ASSUME FiniteSetFacts, Init
  PROVE  IInv
<1>1. PoolTypeOK /\ BreakerConsistent
  BY PoolInitOK, SMTT(60) DEF Init
<1>2. TypeOK
  <2>1. /\ order \in [Requests -> Seq(1..made)] /\ pc \in [Requests -> Pcs]
        /\ status \in [Requests -> NodeStatus] /\ lastErr \in [Requests -> Errs]
        /\ result \in [Requests -> Results]
    BY SMTT(60) DEF Init, Pcs, Errs, Results, NodeStatus
  <2>2. cur \in [Requests -> 0..made] /\ throttled \in [Requests -> 0..made]
    BY <1>1, NodesInRange, SMTT(60) DEF Init, NoNode
  <2>3. /\ anyAttempted \in [Requests -> BOOLEAN] /\ waited \in [Requests -> BOOLEAN]
        /\ cancelled \in [Requests -> BOOLEAN] /\ execs \in [Requests -> Nat]
        /\ round \in [Requests -> Nat] /\ idx \in [Requests -> Nat \ {0}]
    BY SMTT(60) DEF Init
  <2> QED
    BY <1>1, <2>1, <2>2, <2>3, SMTT(60) DEF TypeOK
<1>3. CurValid
  BY SMTT(60) DEF Init, CurValid, AtNode, HoldPcs
<1>4. ASSUME NEW n \in 1..made
      PROVE  inUse[n] = 0 /\ waiters[n] = <<>> /\ semSize[n] \in Nat
  <2>1. n \in Nodes /\ semSize \in [Nodes -> Nat]
    BY <1>1, NodesInRange, ZenonT(60) DEF ThrottleTypeOK
  <2> QED
    BY <2>1, ZenonT(60) DEF Init, PoolInit, NodesInit
<1>5. \A n : Holders(n) = {}
  BY DEF Init, Holders, Holds
<1>6. \A n : Cardinality(Holders(n)) = 0
  BY <1>5, ZenonT(60) DEF FiniteSetFacts
<1>7. Slots
  BY <1>4, <1>6 DEF Slots, NoIdleSlotWhileQueued, SlotsMatchHolders
<1> QED
  BY <1>1, <1>2, <1>3, <1>7, SMTT(60) DEF IInv

\* Every step of a request keeps the circuits and the streaks in agreement.
LEMMA StepKeepsBreaker ==
  ASSUME TypeOK, CurValid, BreakerConsistent, NEW r \in Requests,
         Start(r) \/ Step(r) \/ Cancel(r)
  PROVE  BreakerConsistent'
<1>1. made' = made
  BY StepPoolType, SMTT(60) DEF members
<1>2. NodeTypeOK /\ made \in 0..MaxNodes
  BY SMTT(60) DEF TypeOK, PoolTypeOK
<1>3. CASE Admit(r)
  <2>1. cur[r] \in 1..made /\ doOnNodeAdmit(cur[r])
    BY <1>3, ZenonT(60) DEF Admit, CurValid, AtNode, HoldPcs
  <2> QED
    BY <1>1, <1>2, <2>1, AdmitKeepsBreaker, SMTT(60)
<1>4. CASE Answer(r)
  <2>1. PICK s \in NodeStatus : doOnNodeRecord(cur[r], s)
    BY <1>4, SMTT(60) DEF Answer
  <2>2. cur[r] \in 1..made
    BY <1>4, ZenonT(60) DEF Answer, CurValid, AtNode, HoldPcs
  <2> QED
    BY <1>1, <1>2, <2>1, <2>2, RecordKeepsBreaker, ZenonT(60)
<1>5. CASE UNCHANGED health
  BY <1>1, <1>5, SMTT(60) DEF health, counters, breaker, BreakerConsistent
<1>6. CASE \/ Start(r) \/ NextRound(r) \/ Scan(r) \/ TryAcquire(r) \/ TryLimiters(r)
           \/ Finish(r) \/ EndScan(r) \/ Acquire(r) \/ Granted(r) \/ WaitLimiters(r)
           \/ AcquireFails(r) \/ Cancel(r)
  BY <1>5, <1>6, ZenonT(60) DEF Start, NextRound, Scan, TryAcquire, TryLimiters, Finish, EndScan, Acquire,
                    Granted, WaitLimiters, AcquireFails, Cancel, poolVars, nodeVars
<1> QED
  BY <1>3, <1>4, <1>6 DEF Step

\* The invariant is inductive.
LEMMA StepKeepsIInv ==
  ASSUME FiniteSetFacts, IInv, [Next]_vars
  PROVE  IInv'
<1> USE DEF IInv
<1>1. ASSUME NEW r \in Requests, Start(r) \/ Step(r) \/ Cancel(r)
      PROVE  IInv'
  <2>1. PoolTypeOK' /\ DataTypeOK' /\ made' = made
    BY <1>1, StepPoolType, StepDataType, SMTT(60) DEF members
  <2>2. PICK p \in Pcs, n \in 0..made :
          /\ pc' = [pc EXCEPT ![r] = p] /\ cur' = [cur EXCEPT ![r] = n]
          /\ p \in AtNode => n \in 1..made
    BY <1>1, StepMoves, SMTT(60) DEF Moves
  <2>3. pc \in [Requests -> Pcs] /\ cur \in [Requests -> 0..made]
    BY DEF TypeOK
  <2>4. pc' \in [Requests -> Pcs] /\ cur' \in [Requests -> 0..made']
    BY <2>1, <2>2, <2>3, SMTT(60)
  <2>5. TypeOK'
    BY <2>1, <2>4, ZenonT(60) DEF TypeOK, DataTypeOK
  <2>6. CurValid'
    BY <2>1, <2>2, <2>3 DEF CurValid
  <2> QED
    BY <1>1, <2>5, <2>6, StepKeepsSlots, StepKeepsBreaker, SMTT(60)
<1>2. CASE PoolStep
  <2>1. BreakerConsistent'
    BY <1>2, PoolKeepsBreaker DEF PoolStep, TypeOK
  <2> QED
    BY <1>2, <2>1, PoolStepKeeps
<1>3. CASE UNCHANGED vars
  <2>1. PoolTypeOK' /\ UNCHANGED health /\ UNCHANGED throttle /\ made' = made
    BY <1>3, PoolUntouched, SMTT(60) DEF vars, poolVars, nodeVars, members, TypeOK
  <2>2. TypeOK' /\ CurValid'
    BY <1>3, <2>1, SMTT(60) DEF vars, walk, ends, TypeOK, CurValid
  <2>3. Slots'
    <3>1. UNCHANGED <<pc, cur, semSize, inUse, waiters>>
      BY <1>3, <2>1 DEF vars, walk, throttle
    <3>2. \A n : Holders(n)' = Holders(n)
      BY <3>1 DEF Holders, Holds, Queued
    <3> HIDE DEF IInv
    <3>3. Slots
      BY DEF IInv
    <3> QED
      BY <2>1, <3>1, <3>2, <3>3 DEF Slots, NoIdleSlotWhileQueued, SlotsMatchHolders
  <2>4. BreakerConsistent'
    BY <2>1 DEF health, counters, breaker, BreakerConsistent
  <2> QED
    BY <2>2, <2>3, <2>4
<1> QED
  BY <1>1, <1>2, <1>3, SMTT(60) DEF Next

-----------------------------------------------------------------------------
(* The theorems *)

\* The inductive invariant holds in every reachable state.
THEOREM Inductive == Spec => []IInv
<1>1. Init => IInv
  BY FiniteSetFactsHold, InitOK
<1>2. IInv /\ [Next]_vars => IInv'
  BY FiniteSetFactsHold, StepKeepsIInv
<1> QED
  BY <1>1, <1>2, PTL DEF Spec

\* Every variable keeps its type.
THEOREM TypeCorrect == Spec => []TypeOK
<1>1. IInv => TypeOK
  BY DEF IInv
<1> QED
  BY <1>1, Inductive, PTL

\* Slots are neither lost nor invented on any path of Execute, however many
\* requests and nodes there are and whatever the membership does meanwhile.
THEOREM SlotsCorrect == Spec => []SlotsMatchHolders
<1>1. IInv => SlotsMatchHolders
  BY DEF IInv, Slots
<1> QED
  BY <1>1, Inductive, PTL

\* No slot is idle while a request is queued for it: the hand-over in Release
\* loses no wake-up.
THEOREM HandOverCorrect == Spec => []NoIdleSlotWhileQueued
<1>1. IInv => NoIdleSlotWhileQueued
  BY DEF IInv, Slots
<1> QED
  BY <1>1, Inductive, PTL

\* The circuit agrees with the streaks under concurrent requests.
THEOREM BreakerCorrect == Spec => []BreakerConsistent
<1>1. IInv => BreakerConsistent
  BY DEF IInv
<1> QED
  BY <1>1, Inductive, PTL
=============================================================================
