-------------------------- MODULE PoolClientProofs --------------------------
(* The invariants of the pool under its most general client. *)
EXTENDS PoolClient, PoolLemmas, FiniteSetTheorems

\* The facts about finite sets that the lemmas take as a hypothesis.
LEMMA FiniteSetFactsHold == FiniteSetFacts
<1>1. \A n \in Nat : IsFiniteSet(1..n)
  BY FS_Interval
<1>2. \A S : IsFiniteSet(S) => Cardinality(S) \in Nat
  BY FS_CardinalityType
<1>3. \A S : \A T \in SUBSET S : IsFiniteSet(S) => IsFiniteSet(T)
  BY FS_Subset
<1>4. Cardinality({}) = 0
  BY FS_EmptySet
<1>5. \A S, x : IsFiniteSet(S) =>
        /\ IsFiniteSet(S \cup {x})
        /\ Cardinality(S \cup {x}) = IF x \in S THEN Cardinality(S) ELSE Cardinality(S) + 1
  BY FS_AddElement
<1>6. \A S, x : IsFiniteSet(S) =>
        /\ IsFiniteSet(S \ {x})
        /\ Cardinality(S \ {x}) = IF x \in S THEN Cardinality(S) - 1 ELSE Cardinality(S)
  BY FS_RemoveElement
<1> QED
  BY <1>1, <1>2, <1>3, <1>4, <1>5, <1>6 DEF FiniteSetFacts

\* One step keeps the types and the agreement of circuit and streaks.
LEMMA StepKeepsInv ==
  ASSUME TypeOK, BreakerConsistent, [Next]_poolVars
  PROVE  TypeOK' /\ BreakerConsistent'
<1> USE DEF TypeOK
<1>1. NodeTypeOK /\ made \in 0..MaxNodes /\ 1..made \subseteq Nodes
  BY ScoreInputs DEF PoolTypeOK, Nodes
<1>2. CASE Admin
  BY <1>2, FiniteSetFactsHold, AdminEffect, PoolKeepsBreaker
<1>3. CASE resortNodes
  BY <1>3, FiniteSetFactsHold, ResortEffect, PoolKeepsBreaker
<1>4. CASE Clock
  <2>1. PoolTypeOK'
    BY <1>1, <1>4, TickType DEF Clock, members, PoolTypeOK
  <2> QED
    BY <1>4, <2>1, FiniteSetFactsHold, PoolKeepsBreaker DEF Clock
<1>5. ASSUME NEW n \in Nodes, Admit(n)
      PROVE  TypeOK' /\ BreakerConsistent'
  <2>1. n \in 1..made /\ doOnNodeAdmit(n) /\ UNCHANGED <<config, throttle>> /\ UNCHANGED members
    BY <1>1, <1>5, ScoreInputs DEF Admit, Nodes
  <2>2. NodeTypeOK'
    BY <1>1, <2>1, AdmitType
  <2>3. PoolTypeOK'
    BY <2>1, <2>2 DEF members, PoolTypeOK
  <2> QED
    BY <1>1, <2>1, <2>3, AdmitKeepsBreaker DEF members
<1>6. ASSUME NEW n \in Nodes, NEW s \in NodeStatus, Complete(n, s)
      PROVE  TypeOK' /\ BreakerConsistent'
  <2>1. n \in 1..made /\ doOnNodeRecord(n, s) /\ UNCHANGED <<config, throttle>> /\ UNCHANGED members
    BY <1>1, <1>6, ScoreInputs DEF Complete, Nodes
  <2>2. NodeTypeOK'
    BY <1>1, <2>1, RecordType
  <2>3. PoolTypeOK'
    BY <2>1, <2>2 DEF members, PoolTypeOK
  <2> QED
    BY <1>1, <2>1, <2>3, RecordKeepsBreaker DEF members
<1>7. CASE UNCHANGED poolVars
  BY <1>7 DEF poolVars, members, nodeVars, health, counters, breaker, throttle,
              PoolTypeOK, NodeTypeOK, BreakerConsistent
<1> QED
  BY <1>2, <1>3, <1>4, <1>5, <1>6, <1>7 DEF Next

\* The types hold, and the circuit agrees with the streaks, for any number of
\* nodes, thresholds, configurations and interleaving of requests.
THEOREM BreakerCorrect == Spec => [](TypeOK /\ BreakerConsistent)
<1>1. Init => TypeOK /\ BreakerConsistent
  BY PoolInitOK DEF Init, TypeOK
<1>2. TypeOK /\ BreakerConsistent /\ [Next]_poolVars => (TypeOK /\ BreakerConsistent)'
  BY StepKeepsInv
<1> QED
  BY <1>1, <1>2, PTL DEF Spec

\* A circuit moves only along closed -> open -> half-open -> closed or open,
\* and closes only after SuccessThreshold successes in a row.
THEOREM CircuitMovesCorrect == Spec => CircuitMoves
<1> DEFINE Moves(n) ==
             /\ state[n] = circuitOpen => state'[n] # circuitClosed
             /\ state[n] = circuitClosed => state'[n] # circuitHalfOpen
             /\ state[n] = circuitHalfOpen /\ state'[n] = circuitClosed =>
                  consecutiveSucc'[n] >= SuccessThreshold
           Legal == \A n \in 1..made : Moves(n)
<1>1. ASSUME TypeOK, [Next]_poolVars
      PROVE  Legal
  <2> SUFFICES ASSUME NEW m \in 1..made PROVE Moves(m)
    OBVIOUS
  <2>1. NodeTypeOK /\ 1..made \subseteq Nodes
    BY <1>1, ScoreInputs DEF TypeOK, PoolTypeOK, Nodes
  <2> USE DEF circuitOpen, circuitHalfOpen, circuitClosed
  <2>2. CASE state'[m] = state[m]
    BY <2>2
  <2>3. CASE Admin
    BY <1>1, <2>2, <2>3, FiniteSetFactsHold, AdminEffect DEF OldNodesKept, TypeOK
  <2>4. CASE resortNodes \/ Clock \/ UNCHANGED poolVars
    BY <2>2, <2>4 DEF resortNodes, Clock, Tick, poolVars, nodeVars, health, breaker
  <2>5. ASSUME NEW n \in Nodes, Admit(n)
        PROVE  Moves(m)
    BY <2>1, <2>5 DEF Admit, doOnNodeAdmit, tryTransitionToHalfOpen, NodeTypeOK
  <2>6. ASSUME NEW n \in Nodes, NEW s \in NodeStatus, Complete(n, s)
        PROVE  Moves(m)
    <3>1. PICK latency \in Latencies :
            \/ RecordSuccess(n, latency)
            \/ RecordFailure(n, latency)
            \/ RecordBizError(n)
      BY <2>6 DEF Complete, doOnNodeRecord, NodeStatus, NodeStatusSuccess, NodeStatusFail,
                  NodeStatusBizError
    <3>2. CASE RecordSuccess(n, latency)
      BY <2>1, <3>2 DEF RecordSuccess, StateAfterSuccess, NodeTypeOK
    <3>3. CASE RecordFailure(n, latency)
      BY <2>1, <3>3 DEF RecordFailure, NodeTypeOK
    <3>4. CASE RecordBizError(n)
      BY <2>2, <3>4 DEF RecordBizError, breaker
    <3> QED
      BY <3>1, <3>2, <3>3, <3>4
  <2> HIDE DEF Moves
  <2> QED
    BY <1>1, <2>3, <2>4, <2>5, <2>6 DEF Next
<1>2. TypeOK /\ [Next]_poolVars => [Legal]_poolVars
  BY <1>1
<1> QED
  BY <1>2, BreakerCorrect, PTL DEF Spec, CircuitMoves
=============================================================================
