------------------------- MODULE ConservativeTypes --------------------------
(***************************************************************************)
(* The inductive invariant of the conservative strategy, and what a step   *)
(* of a request does to the types of the pool and of its own variables.    *)
(***************************************************************************)
EXTENDS Conservative, PoolLemmas

-----------------------------------------------------------------------------
(* The inductive invariant *)

HoldPcs == {"limit", "waitLimit", "admit", "exec", "release"}
AtNode  == HoldPcs \cup {"try", "acquire", "waiting"}

\* A request that deals with a node has one.
CurValid == \A r \in Requests : pc[r] \in AtNode => cur[r] \in 1..made

Slots == NoIdleSlotWhileQueued /\ SlotsMatchHolders
IInv  == TypeOK /\ CurValid /\ Slots /\ BreakerConsistent

-----------------------------------------------------------------------------
(* The pool's part of the types *)

\* Steps that leave the pool alone keep its types.
LEMMA PoolUntouched ==
  ASSUME PoolTypeOK, UNCHANGED poolVars
  PROVE  PoolTypeOK'
BY DEF poolVars, members, nodeVars, health, counters, breaker, throttle, PoolTypeOK, NodeTypeOK

\* Steps on a semaphore only.
LEMMA ThrottleOnly ==
  ASSUME PoolTypeOK, UNCHANGED <<config, health, members>>, ThrottleTypeOK'
  PROVE  PoolTypeOK'
BY SMTT(60) DEF members, health, counters, breaker, ThrottleTypeOK, PoolTypeOK, NodeTypeOK

\* Steps on a node's health only.
LEMMA HealthOnly ==
  ASSUME PoolTypeOK, UNCHANGED members, NodeTypeOK'
  PROVE  PoolTypeOK'
BY DEF members, PoolTypeOK

\* Node numbers that may be in use.
LEMMA NodesInRange ==
  ASSUME PoolTypeOK
  PROVE  1..made \subseteq Nodes /\ made \in Nat /\ MaxNodes \in Nat /\ ThrottleTypeOK
<1>1. ThrottleTypeOK
  BY DEF PoolTypeOK, NodeTypeOK, ThrottleTypeOK
<1> QED
  BY <1>1, ScoreInputs DEF PoolTypeOK, Nodes

\* TakeSlot and Enqueue keep the semaphore's types.
LEMMA TakeSlotType ==
  ASSUME ThrottleTypeOK, NEW n \in Nodes, TakeSlot(n)
  PROVE  ThrottleTypeOK'
BY DEF TakeSlot, ThrottleTypeOK

\* So does queueing for a slot.
LEMMA EnqueueType ==
  ASSUME ThrottleTypeOK, NEW n \in Nodes, NEW r \in Requests, Enqueue(n, r)
  PROVE  ThrottleTypeOK'
BY SeqAppend DEF Enqueue, ThrottleTypeOK

\* Every step of a request leaves the membership alone and keeps the types of
\* the pool.
LEMMA StepPoolType ==
  ASSUME TypeOK, CurValid, NEW r \in Requests, Start(r) \/ Step(r) \/ Cancel(r)
  PROVE  PoolTypeOK' /\ UNCHANGED members
<1>1. PoolTypeOK /\ NodeTypeOK
  BY DEF TypeOK, PoolTypeOK
<1>2. 1..made \subseteq Nodes /\ ThrottleTypeOK
  BY <1>1, NodesInRange
<1>3. pc[r] \in AtNode => cur[r] \in Nodes
  BY <1>2 DEF CurValid
<1>4. CASE Start(r) \/ NextRound(r) \/ Scan(r) \/ EndScan(r) \/ Granted(r)
           \/ WaitLimiters(r) \/ Cancel(r)
  <2>1. UNCHANGED poolVars
    BY <1>4 DEF Start, NextRound, Scan, EndScan, Granted, WaitLimiters, Cancel
  <2> QED
    BY <1>1, <2>1, PoolUntouched, SMTT(60) DEF poolVars
<1>5. CASE TryAcquire(r) \/ TryLimiters(r) \/ Finish(r) \/ Acquire(r) \/ AcquireFails(r)
  <2>1. cur[r] \in Nodes
    BY <1>3, <1>5, SMTT(60) DEF TryAcquire, TryLimiters, Finish, Acquire, AcquireFails, AtNode, HoldPcs
  <2>2. UNCHANGED <<config, health, members>>
    BY <1>5, SMTT(60) DEF TryAcquire, TryLimiters, Finish, Acquire, AcquireFails
  <2>3. \/ UNCHANGED throttle \/ TakeSlot(cur[r]) \/ Release(cur[r])
        \/ Enqueue(cur[r], r) \/ LeaveQueue(cur[r], r)
    BY <1>5 DEF TryAcquire, TryLimiters, Finish, Acquire, AcquireFails
  <2>4. ThrottleTypeOK'
    BY <1>2, <2>1, <2>3, TakeSlotType, ReleaseType, EnqueueType, LeaveQueueType, ZenonT(60)
       DEF throttle, ThrottleTypeOK
  <2> QED
    BY <1>1, <2>2, <2>4, ThrottleOnly, SMTT(60)
<1>6. CASE Admit(r)
  <2>1. cur[r] \in Nodes /\ doOnNodeAdmit(cur[r]) /\ UNCHANGED <<config, throttle>> /\ UNCHANGED members
    BY <1>3, <1>6 DEF Admit, AtNode, HoldPcs
  <2> QED
    BY <1>1, <2>1, AdmitType, HealthOnly
<1>7. CASE Answer(r)
  <2>1. cur[r] \in Nodes /\ UNCHANGED <<config, throttle>> /\ UNCHANGED members
    BY <1>3, <1>7 DEF Answer, AtNode, HoldPcs
  <2>2. PICK s \in NodeStatus : doOnNodeRecord(cur[r], s)
    BY <1>7 DEF Answer
  <2> QED
    BY <1>1, <2>1, <2>2, RecordType, HealthOnly
<1> QED
  BY <1>4, <1>5, <1>6, <1>7 DEF Step

-----------------------------------------------------------------------------
(* The request's part *)

\* The types of what a request computes with, but for pc and cur.
DataTypeOK ==
  /\ order \in [Requests -> Seq(1..made)]
  /\ round \in [Requests -> Nat]
  /\ idx \in [Requests -> Nat \ {0}]
  /\ anyAttempted \in [Requests -> BOOLEAN]
  /\ throttled \in [Requests -> 0..made]
  /\ waited \in [Requests -> BOOLEAN]
  /\ status \in [Requests -> NodeStatus]
  /\ lastErr \in [Requests -> Errs]
  /\ result \in [Requests -> Results]
  /\ execs \in [Requests -> Nat]
  /\ cancelled \in [Requests -> BOOLEAN]

\* Every step of a request r moves only r, and r has a node when it deals with
\* one.
Moves(r) ==
  \E p \in Pcs, n \in 0..made :
    /\ pc' = [pc EXCEPT ![r] = p]
    /\ cur' = [cur EXCEPT ![r] = n]
    /\ p \in AtNode => n \in 1..made

\* Every step of a request is such a move.
LEMMA StepMoves ==
  ASSUME TypeOK, CurValid, NEW r \in Requests, Start(r) \/ Step(r) \/ Cancel(r)
  PROVE  Moves(r)
<1>1. pc \in [Requests -> Pcs] /\ cur \in [Requests -> 0..made] /\ made \in Nat
  BY NodesInRange DEF TypeOK
<1>2. ASSUME NEW p \in Pcs, pc' = [pc EXCEPT ![r] = p], cur' = cur,
             p \in AtNode => cur[r] \in 1..made
      PROVE  Moves(r)
  <2>1. cur' = [cur EXCEPT ![r] = cur[r]] /\ cur[r] \in 0..made
    BY <1>1, <1>2
  <2> QED
    BY <1>2, <2>1, ZenonT(60) DEF Moves
<1>3. ASSUME NEW p \in Pcs \ AtNode, pc' = [pc EXCEPT ![r] = p],
             cur' = [cur EXCEPT ![r] = NoNode]
      PROVE  Moves(r)
  <2>1. NoNode \in 0..made
    BY <1>1 DEF NoNode
  <2> QED
    BY <1>3, <2>1, ZenonT(60) DEF Moves
<1>4. ASSUME NEW p \in Pcs, pc' = [pc EXCEPT ![r] = p],
             NEW n \in 1..made, cur' = [cur EXCEPT ![r] = n]
      PROVE  Moves(r)
  <2>1. n \in 0..made
    BY <1>1
  <2> QED
    BY <1>4, <2>1, ZenonT(60) DEF Moves
<1> USE DEF Goto, Pcs, AtNode, HoldPcs, walk
<1>5. CASE Start(r) \/ NextRound(r)
  BY <1>2, <1>5 DEF Start, NextRound
<1>6. CASE Scan(r)
  <2>1. order[r] \in Seq(1..made) /\ idx[r] \in 1..Len(order[r])
    BY <1>6, SeqIsFunction DEF Scan, TypeOK
  <2>2. order[r][idx[r]] \in 1..made
    BY <2>1, SeqIsFunction, ZenonT(60)
  <2> QED
    BY <1>2, <1>4, <1>6, <2>2 DEF Scan
<1>7. CASE TryAcquire(r)
  <2>1. cur[r] \in 1..made
    BY <1>7 DEF TryAcquire, CurValid
  <2>2. \/ pc' = [pc EXCEPT ![r] = "limit"] /\ cur' = cur
        \/ pc' = [pc EXCEPT ![r] = "scan"] /\ cur' = [cur EXCEPT ![r] = NoNode]
    BY <1>7 DEF TryAcquire, PassOver
  <2> QED
    BY <1>2, <1>3, <2>1, <2>2
<1>12. CASE TryLimiters(r)
  <2>1. cur[r] \in 1..made
    BY <1>12 DEF TryLimiters, CurValid
  <2>2. \/ pc' = [pc EXCEPT ![r] = "admit"] /\ cur' = cur
        \/ pc' = [pc EXCEPT ![r] = "scan"] /\ cur' = [cur EXCEPT ![r] = NoNode]
    BY <1>12, ZenonT(60) DEF TryLimiters, PassOver
  <2> QED
    BY <1>2, <1>3, <2>1, <2>2
<1>8. CASE Admit(r) \/ Answer(r) \/ Acquire(r) \/ Granted(r) \/ WaitLimiters(r)
  BY <1>2, <1>8, SMTT(60) DEF Admit, Answer, Acquire, Granted, WaitLimiters, CurValid
<1>9. CASE Finish(r) \/ AcquireFails(r)
  <2>1. cur' = [cur EXCEPT ![r] = NoNode]
    BY <1>9, ZenonT(60) DEF Finish, AcquireFails
  <2>2. \E to \in {"done", "round", "scan"} : pc' = [pc EXCEPT ![r] = to]
    BY <1>9, ZenonT(60) DEF Finish, AcquireFails, Goto
  <2> QED
    BY <1>3, <2>1, <2>2, ZenonT(60)
<1>10. CASE EndScan(r)
  <2>1. throttled[r] # NoNode => throttled[r] \in 1..made
    BY <1>1 DEF TypeOK, NoNode
  <2> QED
    BY <1>2, <1>4, <1>10, <2>1 DEF EndScan
<1>11. CASE Cancel(r)
  <2>1. pc' = [pc EXCEPT ![r] = pc[r]] /\ cur' = cur /\ pc[r] \in Pcs
    BY <1>1, <1>11 DEF Cancel
  <2> HIDE DEF Pcs, AtNode
  <2> QED
    BY <1>2, <2>1, ZenonT(60) DEF CurValid
<1> QED
  BY <1>5, <1>6, <1>7, <1>8, <1>9, <1>10, <1>11, <1>12 DEF Step

\* Every step of a request keeps the types of its data.
LEMMA StepDataType ==
  ASSUME TypeOK, CurValid, NEW r \in Requests, Start(r) \/ Step(r) \/ Cancel(r)
  PROVE  DataTypeOK'
<1>1. UNCHANGED <<nodes, made>>
  BY StepPoolType DEF members
<1>2. DataTypeOK /\ nodes \in Seq(1..made) /\ made \in Nat /\ cur[r] \in 0..made
  BY NodesInRange, ZenonT(60) DEF TypeOK, DataTypeOK, PoolTypeOK
<1>3. NoNode \in 0..made
  BY <1>2 DEF NoNode
<1>4. CASE Start(r)
  <2>1. UNCHANGED <<round, idx, anyAttempted, throttled, waited, status, lastErr, execs, cancelled>>
    BY <1>4, SMTT(60) DEF Start, walk, ends
  <2>2. order' \in [Requests -> Seq(1..made)]
    BY <1>1, <1>2, <1>3, <1>4, SMTT(60) DEF Start, DataTypeOK
  <2>3. result' \in [Requests -> Results]
    BY <1>1, <1>2, <1>3, <1>4, ZenonT(60) DEF Start, Return, Results, Errs, DataTypeOK
  <2> QED
    BY <1>1, <1>2, <2>1, <2>2, <2>3, SMTT(60) DEF DataTypeOK
<1>5. CASE NextRound(r)
  <2>1. UNCHANGED <<order, round, waited, status, lastErr, execs, cancelled>>
    BY <1>5 DEF NextRound, walk, ends
  <2>2. idx' \in [Requests -> Nat \ {0}]
    <3>1. idx' = idx \/ idx' = [idx EXCEPT ![r] = 1]
      BY <1>5 DEF NextRound
    <3>2. idx \in [Requests -> Nat \ {0}]
      BY <1>2, SMTT(60) DEF DataTypeOK
    <3> QED
      BY <3>1, <3>2
  <2>3. anyAttempted' \in [Requests -> BOOLEAN]
    BY <1>1, <1>2, <1>3, <1>5, ZenonT(60) DEF NextRound, DataTypeOK
  <2>4. throttled' \in [Requests -> 0..made]
    BY <1>1, <1>2, <1>3, <1>5, ZenonT(60) DEF NextRound, DataTypeOK
  <2>5. result' \in [Requests -> Results]
    BY <1>1, <1>2, <1>3, <1>5, ZenonT(60) DEF NextRound, Return, Results, Errs, DataTypeOK
  <2> QED
    BY <1>1, <1>2, <2>1, <2>2, <2>3, <2>4, <2>5, ZenonT(60) DEF DataTypeOK
<1>6. CASE Scan(r)
  <2>1. UNCHANGED <<order, round, anyAttempted, throttled, waited, status, lastErr, result, execs, cancelled>>
    BY <1>6 DEF Scan, walk, ends
  <2>2. idx' \in [Requests -> Nat \ {0}]
    <3>1. idx' = idx \/ idx' = [idx EXCEPT ![r] = @ + 1]
      BY <1>6 DEF Scan
    <3>2. idx \in [Requests -> Nat \ {0}]
      BY <1>2 DEF DataTypeOK
    <3> QED
      BY <3>1, <3>2, SMTT(60)
  <2> QED
    BY <1>1, <1>2, <2>1, <2>2, SMTT(60) DEF DataTypeOK
<1>7. CASE TryAcquire(r)
  <2>1. UNCHANGED <<order, round, anyAttempted, waited, status, lastErr, result, execs, cancelled>>
    BY <1>7 DEF TryAcquire, walk, ends, PassOver
  <2>2. throttled' \in [Requests -> 0..made]
    BY <1>1, <1>2, <1>3, <1>7, ZenonT(60) DEF TryAcquire, PassOver, DataTypeOK
  <2>3. idx' \in [Requests -> Nat \ {0}]
    <3>1. idx' = idx \/ idx' = [idx EXCEPT ![r] = @ + 1]
      BY <1>7 DEF TryAcquire, PassOver
    <3>2. idx \in [Requests -> Nat \ {0}]
      BY <1>2 DEF DataTypeOK
    <3> QED
      BY <3>1, <3>2
  <2> QED
    BY <1>1, <1>2, <2>1, <2>2, <2>3, SMTT(60) DEF DataTypeOK
<1>8. CASE TryLimiters(r)
  <2>1. UNCHANGED <<order, round, waited, status, lastErr, result, execs, cancelled>>
    BY <1>8 DEF TryLimiters, walk, ends, PassOver
  <2>2. throttled' \in [Requests -> 0..made]
    BY <1>1, <1>2, <1>3, <1>8, ZenonT(60) DEF TryLimiters, PassOver, DataTypeOK
  <2>3. idx' \in [Requests -> Nat \ {0}]
    <3>1. idx' = idx \/ idx' = [idx EXCEPT ![r] = @ + 1]
      BY <1>8 DEF TryLimiters, PassOver
    <3>2. idx \in [Requests -> Nat \ {0}]
      BY <1>2 DEF DataTypeOK
    <3> QED
      BY <3>1, <3>2
  <2>4. anyAttempted' \in [Requests -> BOOLEAN]
    BY <1>1, <1>2, <1>3, <1>8, ZenonT(60) DEF TryLimiters, PassOver, DataTypeOK
  <2> QED
    BY <1>1, <1>2, <2>1, <2>2, <2>3, <2>4, SMTT(60) DEF DataTypeOK
<1>9. CASE Admit(r)
  <2>1. UNCHANGED <<order, round, idx, anyAttempted, throttled, waited, result, cancelled>>
    BY <1>9, ZenonT(60) DEF Admit, walk, ends
  <2>2. status' \in [Requests -> NodeStatus]
    BY <1>1, <1>2, <1>3, <1>9, ZenonT(60) DEF Admit, NodeStatus, NodeStatusFail, DataTypeOK
  <2>3. execs' \in [Requests -> Nat]
    <3>1. execs' = execs \/ execs' = [execs EXCEPT ![r] = @ + 1]
      BY <1>9, ZenonT(60) DEF Admit
    <3>2. execs \in [Requests -> Nat]
      BY <1>2 DEF DataTypeOK
    <3> QED
      BY <3>1, <3>2
  <2>4. lastErr' \in [Requests -> Errs]
    BY <1>1, <1>2, <1>3, <1>9, ZenonT(60) DEF Admit, Errs, DataTypeOK
  <2> QED
    BY <1>1, <1>2, <2>1, <2>2, <2>3, <2>4 DEF DataTypeOK
<1>10. CASE Answer(r)
  <2>1. UNCHANGED <<order, round, idx, anyAttempted, throttled, waited, result, execs, cancelled>>
    BY <1>10, ZenonT(60) DEF Answer, walk, ends
  <2>2. status' \in [Requests -> NodeStatus]
    BY <1>1, <1>2, <1>3, <1>10, ZenonT(60) DEF Answer, NodeStatus, NodeStatusFail, DataTypeOK
  <2>3. lastErr' \in [Requests -> Errs]
    <3>1. PICK s \in NodeStatus :
            \E err \in (IF s = NodeStatusFail THEN FailErrs ELSE {lastErr[r]}) :
              lastErr' = [lastErr EXCEPT ![r] = err]
      BY <1>10, ZenonT(60) DEF Answer
    <3>2. PICK err \in Errs : lastErr' = [lastErr EXCEPT ![r] = err]
      BY <1>2, <1>3, <3>1, ZenonT(60) DEF FailErrs, Errs, DataTypeOK
    <3> QED
      BY <1>2, <3>2, ZenonT(60) DEF DataTypeOK
  <2> QED
    BY <1>1, <1>2, <2>1, <2>2, <2>3, SMTT(60) DEF DataTypeOK
<1>11. CASE Finish(r)
  <2>1. UNCHANGED <<order, anyAttempted, throttled, status, lastErr, execs, cancelled>>
    BY <1>11, ZenonT(60) DEF Finish, walk, ends
  <2>2. round' \in [Requests -> Nat]
    <3>1. round' = round \/ round' = [round EXCEPT ![r] = @ + 1]
      BY <1>11 DEF Finish
    <3>2. round \in [Requests -> Nat]
      BY <1>2 DEF DataTypeOK
    <3> QED
      BY <3>1, <3>2, SMTT(60)
  <2>3. idx' \in [Requests -> Nat \ {0}]
    <3>1. idx' = idx \/ idx' = [idx EXCEPT ![r] = @ + 1]
      BY <1>11 DEF Finish
    <3>2. idx \in [Requests -> Nat \ {0}]
      BY <1>2, SMTT(60) DEF DataTypeOK
    <3> QED
      BY <3>1, <3>2, SMTT(60)
  <2>4. waited' \in [Requests -> BOOLEAN]
    BY <1>1, <1>2, <1>3, <1>11, SMTT(60) DEF Finish, DataTypeOK
  <2>5. result' \in [Requests -> Results]
    BY <1>1, <1>2, <1>3, <1>11, ZenonT(60) DEF Finish, Return, Results, Errs, DataTypeOK
  <2> QED
    BY <1>1, <1>2, <2>1, <2>2, <2>3, <2>4, <2>5, SMTT(60) DEF DataTypeOK
<1>12. CASE EndScan(r)
  <2>1. UNCHANGED <<order, idx, anyAttempted, throttled, status, result, execs, cancelled>>
    BY <1>12, ZenonT(60) DEF EndScan, walk, ends
  <2>2. round' \in [Requests -> Nat]
    <3>1. round' = round \/ round' = [round EXCEPT ![r] = @ + 1]
      BY <1>12, ZenonT(60) DEF EndScan
    <3>2. round \in [Requests -> Nat]
      BY <1>2 DEF DataTypeOK
    <3> QED
      BY <3>1, <3>2, SMTT(60)
  <2>3. waited' \in [Requests -> BOOLEAN]
    BY <1>1, <1>2, <1>3, <1>12, ZenonT(60) DEF EndScan, DataTypeOK
  <2>4. lastErr' \in [Requests -> Errs]
    BY <1>1, <1>2, <1>3, <1>12, ZenonT(60) DEF EndScan, Errs, DataTypeOK
  <2> QED
    BY <1>1, <1>2, <2>1, <2>2, <2>3, <2>4 DEF DataTypeOK
<1>13. CASE Acquire(r) \/ Granted(r) \/ WaitLimiters(r)
  BY <1>1, <1>2, <1>13, ZenonT(60) DEF Acquire, Granted, WaitLimiters, walk, ends, DataTypeOK
<1>14. CASE AcquireFails(r)
  <2>1. UNCHANGED <<order, idx, anyAttempted, throttled, status, result, execs, cancelled>>
    BY <1>14 DEF AcquireFails, walk, ends
  <2>2. round' \in [Requests -> Nat]
    <3>1. round' = round \/ round' = [round EXCEPT ![r] = @ + 1]
      BY <1>14 DEF AcquireFails
    <3>2. round \in [Requests -> Nat]
      BY <1>2, SMTT(60) DEF DataTypeOK
    <3> QED
      BY <3>1, <3>2, SMTT(60)
  <2>3. waited' \in [Requests -> BOOLEAN]
    BY <1>1, <1>2, <1>3, <1>14, SMTT(60) DEF AcquireFails, DataTypeOK
  <2>4. lastErr' \in [Requests -> Errs]
    BY <1>1, <1>2, <1>3, <1>14, SMTT(60) DEF AcquireFails, Errs, DataTypeOK
  <2> QED
    BY <1>1, <1>2, <2>1, <2>2, <2>3, <2>4, SMTT(60) DEF DataTypeOK
<1>15. CASE Cancel(r)
  <2>1. UNCHANGED <<order, round, idx, anyAttempted, throttled, waited, status, lastErr, result, execs>>
    BY <1>15 DEF Cancel, walk, ends
  <2>2. cancelled' \in [Requests -> BOOLEAN]
    BY <1>1, <1>2, <1>3, <1>15 DEF Cancel, DataTypeOK
  <2> QED
    BY <1>1, <1>2, <2>1, <2>2, SMTT(60) DEF DataTypeOK
<1> QED
  BY <1>4, <1>5, <1>6, <1>7, <1>8, <1>9, <1>10, <1>11, <1>12, <1>13, <1>14, <1>15 DEF Step
=============================================================================
