----------------------------- MODULE PoolLemmas -----------------------------
(***************************************************************************)
(* Facts about the operations of Node and Pool, for every strategy: what   *)
(* they do to the types, to the throttle of the nodes that exist, and to   *)
(* the circuit breaker.                                                    *)
(***************************************************************************)
EXTENDS Pool, TLAPS

-----------------------------------------------------------------------------
(* Finite sets and sequences *)

\* The facts about finite sets the proofs use.  They are theorems of the
\* library FiniteSetTheorems, which only the modules that state the final
\* results extend (they prove FiniteSetFacts); it is a hypothesis elsewhere.
FiniteSetFacts ==
  /\ \A n \in Nat : IsFiniteSet(1..n)
  /\ \A S : IsFiniteSet(S) => Cardinality(S) \in Nat
  /\ \A S : \A T \in SUBSET S : IsFiniteSet(S) => IsFiniteSet(T)
  /\ Cardinality({}) = 0
  /\ \A S, x : IsFiniteSet(S) =>
       /\ IsFiniteSet(S \cup {x})
       /\ Cardinality(S \cup {x}) = IF x \in S THEN Cardinality(S) ELSE Cardinality(S) + 1
  /\ \A S, x : IsFiniteSet(S) =>
       /\ IsFiniteSet(S \ {x})
       /\ Cardinality(S \ {x}) = IF x \in S THEN Cardinality(S) - 1 ELSE Cardinality(S)

\* The set of the first n numbers is finite.
LEMMA IntervalFinite ==
  ASSUME FiniteSetFacts, NEW n \in Nat
  PROVE  IsFiniteSet(1..n)
BY DEF FiniteSetFacts

\* A part of a finite set is finite.
LEMMA SubsetFinite ==
  ASSUME FiniteSetFacts, NEW S, NEW T \in SUBSET S, IsFiniteSet(S)
  PROVE  IsFiniteSet(T)
BY DEF FiniteSetFacts

\* A finite set has a number of elements.
LEMMA CardinalityType ==
  ASSUME FiniteSetFacts, NEW S, IsFiniteSet(S)
  PROVE  Cardinality(S) \in Nat
BY DEF FiniteSetFacts

\* One more element.
LEMMA CardinalityAdd ==
  ASSUME FiniteSetFacts, NEW S, NEW x, IsFiniteSet(S), x \notin S
  PROVE  IsFiniteSet(S \cup {x}) /\ Cardinality(S \cup {x}) = Cardinality(S) + 1
BY Zenon DEF FiniteSetFacts

\* One element less.
LEMMA CardinalityRemove ==
  ASSUME FiniteSetFacts, NEW S, NEW x, IsFiniteSet(S), x \in S
  PROVE  IsFiniteSet(S \ {x}) /\ Cardinality(S \ {x}) = Cardinality(S) - 1
BY Zenon DEF FiniteSetFacts

\* A sequence is a function on the first Len numbers.
LEMMA SeqIsFunction ==
  ASSUME NEW S, NEW s \in Seq(S)
  PROVE  Len(s) \in Nat /\ DOMAIN s = 1..Len(s) /\ \A i \in 1..Len(s) : s[i] \in S
OBVIOUS

\* A sequence over a set is one over any larger set.
LEMMA SeqWiden ==
  ASSUME NEW S, NEW T, NEW s \in Seq(S), S \subseteq T
  PROVE  s \in Seq(T)
OBVIOUS

\* Adding at the end.
LEMMA SeqAppend ==
  ASSUME NEW S, NEW s \in Seq(S), NEW e \in S
  PROVE  /\ Append(s, e) \in Seq(S) /\ Len(Append(s, e)) = Len(s) + 1
         /\ Append(s, e)[Len(s) + 1] = e
         /\ \A i \in 1..Len(s) : Append(s, e)[i] = s[i]
OBVIOUS

\* The rest of a queue.
LEMMA SeqTail ==
  ASSUME NEW S, NEW s \in Seq(S), s # <<>>
  PROVE  Tail(s) \in Seq(S)
OBVIOUS

\* Concatenation.
LEMMA SeqConcat ==
  ASSUME NEW S, NEW s \in Seq(S), NEW t \in Seq(S)
  PROVE  s \o t \in Seq(S)
OBVIOUS

-----------------------------------------------------------------------------
(* Types *)

\* A configured weight counts as at least 1 (effectiveWeight).
LEMMA EffectiveWeightType ==
  ASSUME NEW w \in Int
  PROVE  EffectiveWeight(w) \in Nat \ {0}
BY DEF EffectiveWeight

\* updateLatency keeps the average a natural number.
LEMMA EWMAType ==
  ASSUME NEW avg \in Nat, NEW d \in Latencies
  PROVE  EWMA(avg, d) \in Nat
<1>1. d \in Nat /\ EWMAAlpha \in 1..100
  BY ScoreInputs
<1> DEFINE x == avg * (100 - EWMAAlpha) + d * EWMAAlpha
<1>2. avg * (100 - EWMAAlpha) \in Nat /\ d * EWMAAlpha \in Nat
  BY <1>1
<1>3. x \in Nat
  BY <1>2
<1> HIDE DEF x
<1>4. x \div 100 \in Nat
  BY <1>3
<1> QED
  BY <1>1, <1>4 DEF EWMA, x

\* recalcScore computes an integer once a request is counted: it divides by
\* totalRequests.
LEMMA ScoreType ==
  ASSUME NEW w \in Int, NEW succ \in Nat, NEW total \in Nat \ {0},
         NEW avg \in Nat, NEW consFail \in Nat, NEW st
  PROVE  ScoreOf(w, succ, total, avg, consFail, st) \in Int
<1>1. 100 * EffectiveWeight(w) * succ \in Nat
  BY EffectiveWeightType
<1>2. (100 * EffectiveWeight(w) * succ) \div total \in Int
  BY <1>1
<1>3. LatencyBonus(avg) \in Int
  BY DEF LatencyBonus
<1> QED
  BY <1>2, <1>3 DEF ScoreOf

\* RecordSuccess, RecordFailure and RecordBizError keep the types.
LEMMA RecordType ==
  ASSUME NodeTypeOK, NEW n \in Nodes, NEW s \in NodeStatus,
         doOnNodeRecord(n, s), UNCHANGED <<config, throttle>>
  PROVE  NodeTypeOK'
<1>1. PICK latency \in Latencies :
        \/ RecordSuccess(n, latency)
        \/ RecordFailure(n, latency)
        \/ RecordBizError(n)
  BY Zenon DEF doOnNodeRecord, NodeStatus, NodeStatusSuccess, NodeStatusFail, NodeStatusBizError
<1>2. config[n].weight \in Int
  BY ScoreInputs, Zenon DEF NodeTypeOK, NodeConfigs
<1>3. UNCHANGED <<config, semSize, inUse, waiters>>
  BY DEF throttle
<1>4. CASE RecordSuccess(n, latency)
  <2>1. /\ totalRequests' \in [Nodes -> Nat] /\ totalRequests'[n] \in Nat \ {0}
        /\ successCount' \in [Nodes -> Nat]
        /\ consecutiveFail' \in [Nodes -> Nat]
        /\ consecutiveSucc' \in [Nodes -> Nat]
    BY <1>4, SMTT(30) DEF RecordSuccess, NodeTypeOK
  <2>2. avgLatency' \in [Nodes -> Nat]
    BY <1>4, EWMAType, SMTT(30) DEF RecordSuccess, updateLatency, NodeTypeOK
  <2>3. state' \in [Nodes -> circuitStates]
    BY <1>4 DEF RecordSuccess, StateAfterSuccess, NodeTypeOK, circuitStates
  <2>4. score' \in [Nodes -> Int]
    BY <1>2, <1>4, <2>1, <2>2, ScoreType, Zenon DEF RecordSuccess, recalcScore, NodeTypeOK
  <2> QED
    BY <1>3, <1>4, <2>1, <2>2, <2>3, <2>4, Zenon DEF RecordSuccess, NodeTypeOK
<1>5. CASE RecordFailure(n, latency)
  <2>1. /\ totalRequests' \in [Nodes -> Nat] /\ totalRequests'[n] \in Nat \ {0}
        /\ failCount' \in [Nodes -> Nat]
        /\ successCount' \in [Nodes -> Nat]
        /\ consecutiveFail' \in [Nodes -> Nat]
        /\ consecutiveSucc' \in [Nodes -> Nat]
    BY <1>5, SMTT(30) DEF RecordFailure, NodeTypeOK
  <2>2. avgLatency' \in [Nodes -> Nat]
    BY <1>5, EWMAType, SMTT(30) DEF RecordFailure, updateLatency, NodeTypeOK
  <2>3. state' \in [Nodes -> circuitStates] /\ sinceOpened' \in [Nodes -> 0..CircuitOpenTime]
    BY <1>5, ThresholdsArePositive, SMTT(30) DEF RecordFailure, NodeTypeOK, circuitStates
  <2>4. score' \in [Nodes -> Int]
    BY <1>2, <1>5, <2>1, <2>2, ScoreType, Zenon DEF RecordFailure, recalcScore, NodeTypeOK
  <2> QED
    BY <1>3, <1>5, <2>1, <2>2, <2>3, <2>4, Zenon DEF NodeTypeOK
<1>6. CASE RecordBizError(n)
  <2>1. totalRequests' \in [Nodes -> Nat]
    BY <1>6 DEF RecordBizError, NodeTypeOK
  <2> QED
    BY <1>3, <1>6, <2>1, Zenon DEF RecordBizError, breaker, NodeTypeOK
<1> QED
  BY <1>1, <1>4, <1>5, <1>6

\* tryTransitionToHalfOpen keeps the types.
LEMMA AdmitType ==
  ASSUME NodeTypeOK, NEW n \in Nodes,
         doOnNodeAdmit(n), UNCHANGED <<config, throttle>>
  PROVE  NodeTypeOK'
BY Zenon DEF doOnNodeAdmit, tryTransitionToHalfOpen, counters, throttle, NodeTypeOK, circuitStates

\* So does the clock.
LEMMA TickType ==
  ASSUME NodeTypeOK, Tick
  PROVE  NodeTypeOK'
<1>1. sinceOpened' = [n \in Nodes |->
        IF state[n] = circuitOpen /\ ~OpenTimeElapsed(n)
        THEN sinceOpened[n] + 1 ELSE sinceOpened[n]]
  BY DEF Tick
<1>2. \A n \in Nodes : sinceOpened[n] \in 0..CircuitOpenTime
  BY DEF NodeTypeOK
<1>3. ASSUME NEW n \in Nodes, ~OpenTimeElapsed(n)
      PROVE  sinceOpened[n] + 1 \in 0..CircuitOpenTime
  BY <1>2, <1>3, ThresholdsArePositive DEF OpenTimeElapsed
<1>4. sinceOpened' \in [Nodes -> 0..CircuitOpenTime]
  BY <1>1, <1>2, <1>3
<1> QED
  BY <1>4, Zenon DEF Tick, counters, throttle, NodeTypeOK

\* The types of the semaphores alone.
ThrottleTypeOK ==
  /\ semSize \in [Nodes -> Nat]
  /\ inUse \in [Nodes -> Int]
  /\ waiters \in [Nodes -> Seq(Requests)]

\* Release, with its hand-over to the head of the queue, keeps them.
LEMMA ReleaseType ==
  ASSUME ThrottleTypeOK, NEW n \in Nodes, Release(n)
  PROVE  ThrottleTypeOK'
<1>1. waiters[n] # <<>> => Tail(waiters[n]) \in Seq(Requests)
  BY SeqTail DEF ThrottleTypeOK
<1> QED
  BY <1>1 DEF Release, ThrottleTypeOK

\* So does leaving the queue.
LEMMA LeaveQueueType ==
  ASSUME ThrottleTypeOK, NEW n \in Nodes, NEW r \in Requests, LeaveQueue(n, r)
  PROVE  ThrottleTypeOK'
<1> DEFINE q == waiters[n]
<1>1. PICK i \in DOMAIN q :
        waiters' = [waiters EXCEPT ![n] =
          [j \in 1..(Len(q) - 1) |-> IF j < i THEN q[j] ELSE q[j + 1]]]
  BY Zenon DEF LeaveQueue
<1>2. q \in Seq(Requests) /\ Len(q) \in Nat /\ i \in 1..Len(q)
  BY DEF ThrottleTypeOK
<1>3. [j \in 1..(Len(q) - 1) |-> IF j < i THEN q[j] ELSE q[j + 1]] \in Seq(Requests)
  BY <1>2
<1> QED
  BY <1>1, <1>3 DEF LeaveQueue, ThrottleTypeOK

-----------------------------------------------------------------------------
(* Membership *)

\* What an operation on the pool may do to the node objects: those that exist
\* keep their circuit and their semaphore, new ones have fresh ones.
OldNodesKept ==
  /\ made <= made'
  /\ \A n \in 1..made :
       /\ semSize'[n] = semSize[n] /\ inUse'[n] = inUse[n] /\ waiters'[n] = waiters[n]
       /\ state'[n] = state[n] /\ score'[n] = score[n]
       /\ consecutiveFail'[n] = consecutiveFail[n]
       /\ consecutiveSucc'[n] = consecutiveSucc[n]
  /\ \A n \in (made + 1)..made' :
       /\ inUse'[n] = 0 /\ waiters'[n] = <<>>
       /\ state'[n] = circuitClosed
       /\ consecutiveFail'[n] = 0 /\ consecutiveSucc'[n] = 0

\* newNode on the objects after made.
LEMMA NewNodesEffect ==
  ASSUME NodeTypeOK, NEW cfgs, made \in 0..MaxNodes, made' \in made..MaxNodes,
         DOMAIN cfgs = (made + 1)..made',
         \A n \in DOMAIN cfgs : cfgs[n] \in NodeConfigs,
         newNodes(cfgs), config' \in [Nodes -> NodeConfigs]
  PROVE  NodeTypeOK' /\ OldNodesKept
<1>0. DOMAIN cfgs \subseteq Nodes /\ 1..made \subseteq Nodes /\ MaxNodes \in Nat
  BY ScoreInputs DEF Nodes
<1>1. \A n \in DOMAIN cfgs : cfgs[n].weight \in Int /\ cfgs[n].maxConcurrent \in Nat
  BY ScoreInputs, Zenon DEF NodeConfigs
<1>2. ASSUME NEW n \in DOMAIN cfgs
      PROVE  100 * EffectiveWeight(cfgs[n].weight) \in Int
  <2>1. EffectiveWeight(cfgs[n].weight) \in Nat \ {0}
    BY <1>1, EffectiveWeightType, Zenon
  <2> QED
    BY <2>1
<1>3. score' \in [Nodes -> Int] /\ semSize' \in [Nodes -> Nat]
  BY <1>1, <1>2, SMTT(30) DEF newNodes, NodeTypeOK
<1>4. /\ totalRequests' \in [Nodes -> Nat] /\ successCount' \in [Nodes -> Nat]
      /\ failCount' \in [Nodes -> Nat] /\ avgLatency' \in [Nodes -> Nat]
  BY SMTT(30) DEF newNodes, NodeTypeOK
<1>5. /\ consecutiveFail' \in [Nodes -> Nat] /\ consecutiveSucc' \in [Nodes -> Nat]
      /\ state' \in [Nodes -> circuitStates]
  BY SMTT(30) DEF newNodes, NodeTypeOK, circuitStates
<1>6. sinceOpened' \in [Nodes -> 0..CircuitOpenTime]
  BY ThresholdsArePositive, SMTT(30) DEF newNodes, NodeTypeOK
<1>7. inUse' \in [Nodes -> Int] /\ waiters' \in [Nodes -> Seq(Requests)]
  BY SMTT(30) DEF newNodes, NodeTypeOK
<1>8. NodeTypeOK'
  BY <1>3, <1>4, <1>5, <1>6, <1>7, SMTT(30) DEF NodeTypeOK
<1>9. OldNodesKept
  <2>1. ASSUME NEW n \in 1..made
        PROVE  n \in Nodes /\ n \notin DOMAIN cfgs
    BY <1>0
  <2>2. ASSUME NEW n \in (made + 1)..made'
        PROVE  n \in Nodes /\ n \in DOMAIN cfgs
    BY <1>0
  <2> QED
    BY <2>1, <2>2, SMTT(30) DEF newNodes, OldNodesKept
<1> QED
  BY <1>8, <1>9

\* A subsequence of the node list is a list of the same nodes.
LEMMA SubsequenceType ==
  ASSUME FiniteSetFacts, NEW S, NEW s \in Seq(S), NEW P \in SUBSET (DOMAIN s),
         NEW t \in SubsequenceAt(s, P)
  PROVE  t \in Seq(S)
<1>1. DOMAIN s = 1..Len(s) /\ Len(s) \in Nat
  BY SeqIsFunction
<1>2. IsFiniteSet(P)
  <2>1. IsFiniteSet(1..Len(s))
    BY <1>1, IntervalFinite
  <2> QED
    BY <1>1, <2>1, SubsetFinite
<1>3. Cardinality(P) \in Nat
  BY <1>2, CardinalityType
<1>4. PICK f \in [1..Cardinality(P) -> P] : t = [i \in 1..Cardinality(P) |-> s[f[i]]]
  BY DEF SubsequenceAt, Ascending
<1>5. \A i \in 1..Cardinality(P) : s[f[i]] \in S
  BY <1>1, <1>4, SeqIsFunction
<1> QED
  BY <1>3, <1>4, <1>5

\* Every membership operation keeps the types and the existing nodes' state.
LEMMA AdminEffect ==
  ASSUME FiniteSetFacts, PoolTypeOK, Admin
  PROVE  PoolTypeOK' /\ OldNodesKept
<1>0. /\ MaxNodes \in Nat /\ MaxAdmin \in Nat /\ made \in Nat
      /\ 1..made \subseteq Nodes /\ NodeTypeOK
  BY ScoreInputs, ConfigLists DEF PoolTypeOK, Nodes
<1>1. ASSUME NEW cfg \in NodeConfigs, UpdateExisting(cfg)
      PROVE  PoolTypeOK' /\ OldNodesKept
  <2>1. UNCHANGED <<health, throttle, nodes, nodeMap, made>>
    BY <1>1 DEF UpdateExisting, updateConfig
  <2>2. config' \in [Nodes -> NodeConfigs]
    BY <1>1, Zenon DEF UpdateExisting, updateConfig, PoolTypeOK, NodeTypeOK
  <2>3. NodeTypeOK'
    BY <2>1, <2>2, SMTT(30) DEF PoolTypeOK, NodeTypeOK, health, counters, breaker, throttle
  <2>4. adminOps' \in 0..MaxAdmin
    BY <1>0, <1>1 DEF UpdateExisting, AdminOp, PoolTypeOK
  <2>5. OldNodesKept
    BY <1>0, <2>1 DEF OldNodesKept, health, counters, breaker, throttle
  <2> QED
    BY <2>1, <2>3, <2>4, <2>5 DEF PoolTypeOK
<1>2. ASSUME NEW cfg \in NodeConfigs, AddNode(cfg)
      PROVE  PoolTypeOK' /\ OldNodesKept
  <2> DEFINE cfgs == [n \in {made + 1} |-> cfg]
  <2>1. made' = made + 1 /\ made' \in made..MaxNodes
    BY <1>0, <1>2 DEF AddNode, PoolTypeOK
  <2>2. DOMAIN cfgs = (made + 1)..made' /\ \A n \in DOMAIN cfgs : cfgs[n] \in NodeConfigs
    BY <1>0, <2>1
  <2>3. config' \in [Nodes -> NodeConfigs] /\ newNodes(cfgs)
    BY <1>0, <1>2, Zenon DEF AddNode, NodeTypeOK
  <2> HIDE DEF cfgs
  <2>4. NodeTypeOK' /\ OldNodesKept
    BY <1>0, <2>1, <2>2, <2>3, NewNodesEffect, Zenon DEF PoolTypeOK
  <2>5. nodes \in Seq(1..made')
    BY <1>0, <2>1, SeqWiden DEF PoolTypeOK
  <2>6. nodes' \in Seq(1..made')
    BY <1>0, <1>2, <2>1, <2>5, SeqAppend DEF AddNode
  <2>7. nodeMap' \in [Endpoints -> 0..made'] /\ adminOps' \in 0..MaxAdmin
    BY <1>0, <1>2, <2>1 DEF AddNode, AdminOp, PoolTypeOK, NodeConfigs
  <2> QED
    BY <2>1, <2>4, <2>6, <2>7 DEF PoolTypeOK
<1>3. ASSUME NEW e \in Endpoints, RemoveNode(e)
      PROVE  PoolTypeOK' /\ OldNodesKept
  <2>1. UNCHANGED <<made, nodeVars>>
    BY <1>3 DEF RemoveNode
  <2>2. nodes' \in Seq(1..made)
    BY <1>3, SubsequenceType, SMTT(30) DEF RemoveNode, PoolTypeOK
  <2>3. nodeMap' \in [Endpoints -> 0..made] /\ adminOps' \in 0..MaxAdmin
    BY <1>0, <1>3 DEF RemoveNode, AdminOp, PoolTypeOK, NoNode
  <2>4. NodeTypeOK' /\ OldNodesKept
    BY <1>0, <2>1, SMTT(30) DEF NodeTypeOK, OldNodesKept, nodeVars, health, counters, breaker, throttle
  <2> QED
    BY <2>1, <2>2, <2>3, <2>4 DEF PoolTypeOK
<1>4. ASSUME NEW cfgs \in UpdateLists, UpdateNodes(cfgs)
      PROVE  PoolTypeOK' /\ OldNodesKept
  <2> DEFINE wanted == Listed(cfgs)
             newAt  == {i \in DOMAIN cfgs :
                          nodeMap[cfgs[i].endpoint] = NoNode /\ IsFirst(cfgs, i)}
             stay   == {i \in DOMAIN nodes : config[nodes[i]].endpoint \in wanted}
             stale  == {config[nodes[i]].endpoint : i \in DOMAIN nodes \ stay}
  <2>1. cfgs \in Seq(NodeConfigs) /\ DOMAIN cfgs = 1..Len(cfgs) /\ Len(cfgs) \in Nat
    BY ConfigLists, SeqIsFunction
  <2>2. Cardinality(newAt) \in Nat
    <3>1. IsFiniteSet(1..Len(cfgs))
      BY <2>1, IntervalFinite
    <3>2. IsFiniteSet(newAt)
      BY <2>1, <3>1, SubsetFinite
    <3> QED
      BY <3>2, CardinalityType
  <2> DEFINE k == Cardinality(newAt)
  <2>3. made' = made + k /\ made' \in made..MaxNodes
    <3>1. made' = made + k /\ made + k <= MaxNodes
      BY <1>4, ZenonT(30) DEF UpdateNodes
    <3> HIDE DEF k
    <3> QED
      BY <1>0, <2>2, <3>1, SMTT(30) DEF k
  <2>4. PICK pick \in Ascending(newAt) :
          LET fresh == [n \in (made + 1)..(made + k) |-> cfgs[pick[n - made]]]
          IN  /\ newNodes(fresh)
              /\ nodeMap' = [e \in Endpoints |->
                   IF \E n \in DOMAIN fresh : fresh[n].endpoint = e
                   THEN CHOOSE n \in DOMAIN fresh : fresh[n].endpoint = e
                   ELSE IF e \in stale THEN NoNode ELSE nodeMap[e]]
    BY <1>4, ZenonT(30) DEF UpdateNodes
  <2> DEFINE fresh == [n \in (made + 1)..(made + k) |-> cfgs[pick[n - made]]]
  <2>5. \A n \in DOMAIN fresh : fresh[n] \in NodeConfigs
    <3>1. pick \in [1..k -> newAt]
      BY <2>4, Zenon DEF Ascending
    <3>2. ASSUME NEW n \in (made + 1)..(made + k)
          PROVE  pick[n - made] \in DOMAIN cfgs
      BY <1>0, <2>2, <3>1, SMTT(30)
    <3> QED
      BY <2>1, <3>2, SeqIsFunction, SMTT(30)
  <2>6. config' \in [Nodes -> NodeConfigs]
    <3>1. PICK last \in [wanted -> DOMAIN cfgs] :
            config' = [n \in Nodes |->
                IF \E e \in wanted : n = nodeMap'[e]
                THEN cfgs[last[CHOOSE e \in wanted : n = nodeMap'[e]]]
                ELSE config[n]]
      BY <1>4, ZenonT(30) DEF UpdateNodes
    <3>2. \A e \in wanted : cfgs[last[e]] \in NodeConfigs
      BY <2>1, <3>1, SeqIsFunction, Zenon
    <3> HIDE DEF wanted
    <3> QED
      BY <1>0, <3>1, <3>2, SMTT(30) DEF NodeTypeOK
  <2>7. NodeTypeOK' /\ OldNodesKept
    <3>1. DOMAIN fresh = (made + 1)..made' /\ newNodes(fresh)
      BY <2>3, <2>4, Zenon
    <3> HIDE DEF fresh
    <3> QED
      BY <1>0, <2>3, <2>5, <2>6, <3>1, NewNodesEffect, Zenon DEF PoolTypeOK
  <2>8. nodeMap' \in [Endpoints -> 0..made']
    <3>1. nodeMap' = [e \in Endpoints |->
            IF \E n \in DOMAIN fresh : fresh[n].endpoint = e
            THEN CHOOSE n \in DOMAIN fresh : fresh[n].endpoint = e
            ELSE IF e \in stale THEN NoNode ELSE nodeMap[e]]
      BY <2>4
    <3>2. DOMAIN fresh \subseteq 0..made' /\ 0..made \subseteq 0..made'
      BY <1>0, <2>2, <2>3
    <3>3. ASSUME NEW e \in Endpoints
          PROVE  nodeMap'[e] \in 0..made'
      <4>1. nodeMap[e] \in 0..made' /\ NoNode \in 0..made'
        BY <1>0, <2>3, <3>2, SMTT(30) DEF PoolTypeOK, NoNode
      <4> HIDE DEF fresh, stale
      <4>2. CASE \E n \in DOMAIN fresh : fresh[n].endpoint = e
        <5>1. (CHOOSE n \in DOMAIN fresh : fresh[n].endpoint = e) \in DOMAIN fresh
          BY <4>2
        <5> QED
          BY <3>1, <3>2, <4>2, <5>1
      <4>3. CASE ~ \E n \in DOMAIN fresh : fresh[n].endpoint = e
        BY <3>1, <4>1, <4>3, SMTT(30)
      <4> QED
        BY <4>2, <4>3, SMTT(30)
    <3> HIDE DEF fresh, stale
    <3> QED
      BY <3>1, <3>3, Zenon
  <2>9. nodes' \in Seq(1..made')
    <3>1. PICK rest \in SubsequenceAt(nodes, stay) :
            nodes' = rest \o [i \in 1..k |-> made + i]
      BY <1>4, Zenon DEF UpdateNodes
    <3>2. rest \in Seq(1..made)
      BY SubsequenceType, SMTT(30) DEF PoolTypeOK
    <3>3. rest \in Seq(1..made')
      BY <1>0, <2>3, <3>2, SeqWiden, SMTT(30)
    <3>4. [i \in 1..k |-> made + i] \in Seq(1..made')
      <4> HIDE DEF k
      <4> QED
        BY <1>0, <2>2, <2>3 DEF k
    <3> QED
      BY <3>1, <3>3, <3>4, SeqConcat, SMTT(30)
  <2>10. adminOps' \in 0..MaxAdmin
    <3>1. adminOps < MaxAdmin /\ adminOps' = adminOps + 1
      BY <1>4, Zenon DEF UpdateNodes, AdminOp
    <3> QED
      BY <1>0, <3>1, SMTT(30) DEF PoolTypeOK
  <2> QED
    BY <1>0, <2>3, <2>7, <2>8, <2>9, <2>10 DEF PoolTypeOK
<1> QED
  BY <1>1, <1>2, <1>3, <1>4 DEF Admin

\* resortNodes rearranges the list and touches nothing else.
LEMMA ResortEffect ==
  ASSUME PoolTypeOK, resortNodes
  PROVE  PoolTypeOK' /\ UNCHANGED <<made, nodeVars>>
<1>1. PICK p \in [DOMAIN nodes -> DOMAIN nodes] :
        nodes' = [i \in DOMAIN nodes |-> nodes[p[i]]]
  BY DEF resortNodes
<1>2. nodes \in Seq(1..made) /\ DOMAIN nodes = 1..Len(nodes) /\ Len(nodes) \in Nat
  BY SeqIsFunction DEF PoolTypeOK
<1>3. \A i \in DOMAIN nodes : nodes[p[i]] \in 1..made
  BY <1>2, SeqIsFunction, Zenon
<1>4. nodes' \in Seq(1..made)
  BY <1>1, <1>2, <1>3
<1> QED
  BY <1>4, SMTT(30) DEF resortNodes, PoolTypeOK, NodeTypeOK, nodeVars, health, counters, breaker, throttle

-----------------------------------------------------------------------------
(* The circuit breaker *)

\* An answer, whatever the circuit has done since the request was admitted,
\* leaves the circuit and the streaks in agreement.
LEMMA RecordKeepsBreaker ==
  ASSUME NodeTypeOK, BreakerConsistent, made \in 0..MaxNodes, made' = made,
         NEW n \in 1..made, NEW s \in NodeStatus, doOnNodeRecord(n, s)
  PROVE  BreakerConsistent'
<1>1. 1..made \subseteq Nodes
  BY ScoreInputs DEF Nodes
<1>2. PICK latency \in Latencies :
        \/ RecordSuccess(n, latency)
        \/ RecordFailure(n, latency)
        \/ RecordBizError(n)
  BY Zenon DEF doOnNodeRecord, NodeStatus, NodeStatusSuccess, NodeStatusFail, NodeStatusBizError
<1> SUFFICES ASSUME NEW m \in 1..made
             PROVE  /\ state'[m] = circuitClosed => consecutiveFail'[m] < FailureThreshold
                    /\ state'[m] = circuitOpen =>
                         consecutiveFail'[m] >= FailureThreshold /\ score'[m] = -100
                    /\ consecutiveFail'[m] = 0 \/ consecutiveSucc'[m] = 0
  BY DEF BreakerConsistent
<1>3. CASE RecordSuccess(n, latency)
  <2>1. state'[n] # circuitOpen /\ consecutiveFail'[n] = 0
    BY <1>1, <1>3 DEF RecordSuccess, StateAfterSuccess, NodeTypeOK,
                      circuitStates, circuitOpen, circuitHalfOpen, circuitClosed
  <2>2. CASE m = n
    BY <2>1, <2>2, ThresholdsArePositive
  <2>3. CASE m # n
    BY <1>1, <1>3, <2>3 DEF RecordSuccess, recalcScore, NodeTypeOK, BreakerConsistent
  <2> QED
    BY <2>2, <2>3
<1>4. CASE RecordFailure(n, latency)
  <2>1. CASE m = n
    <3>1. /\ consecutiveFail'[n] = consecutiveFail[n] + 1
          /\ consecutiveSucc'[n] = 0
          /\ state'[n] = IF consecutiveFail[n] + 1 >= FailureThreshold
                         THEN circuitOpen ELSE state[n]
      BY <1>1, <1>4, SMTT(30) DEF RecordFailure, NodeTypeOK
    <3>2. state'[n] = circuitOpen => score'[n] = -100
      BY <1>1, <1>4 DEF RecordFailure, recalcScore, ScoreOf, NodeTypeOK
    <3>3. consecutiveFail[n] \in Nat
      BY <1>1 DEF NodeTypeOK
    <3> QED
      BY <2>1, <3>1, <3>2, <3>3, ThresholdsArePositive
         DEF BreakerConsistent, circuitOpen, circuitClosed
  <2>2. CASE m # n
    BY <1>1, <1>4, <2>2 DEF RecordFailure, recalcScore, NodeTypeOK, BreakerConsistent
  <2> QED
    BY <2>1, <2>2
<1>5. CASE RecordBizError(n)
  BY <1>5 DEF RecordBizError, breaker, BreakerConsistent
<1> QED
  BY <1>2, <1>3, <1>4, <1>5

\* So does the step from open to half-open.
LEMMA AdmitKeepsBreaker ==
  ASSUME NodeTypeOK, BreakerConsistent, made \in 0..MaxNodes, made' = made,
         NEW n \in 1..made, doOnNodeAdmit(n)
  PROVE  BreakerConsistent'
<1>1. 1..made \subseteq Nodes
  BY ScoreInputs DEF Nodes
<1> QED
  BY <1>1, ZenonT(30) DEF doOnNodeAdmit, tryTransitionToHalfOpen, counters, NodeTypeOK,
              BreakerConsistent, circuitOpen, circuitHalfOpen, circuitClosed

\* And so do the steps of the pool itself: membership, re-sort, clock.
LEMMA PoolKeepsBreaker ==
  ASSUME FiniteSetFacts, PoolTypeOK, BreakerConsistent,
         Admin \/ resortNodes \/ (Tick /\ UNCHANGED members)
  PROVE  BreakerConsistent'
<1>1. CASE Admin
  <2>1. OldNodesKept
    BY <1>1, AdminEffect
  <2>2. made \in Nat /\ made' \in Nat
    BY <1>1, AdminEffect, ScoreInputs DEF PoolTypeOK
  <2> SUFFICES ASSUME NEW m \in 1..made'
               PROVE  /\ state'[m] = circuitClosed => consecutiveFail'[m] < FailureThreshold
                      /\ state'[m] = circuitOpen =>
                           consecutiveFail'[m] >= FailureThreshold /\ score'[m] = -100
                      /\ consecutiveFail'[m] = 0 \/ consecutiveSucc'[m] = 0
    BY DEF BreakerConsistent
  <2>3. CASE m \in 1..made
    BY <2>1, <2>3 DEF OldNodesKept, BreakerConsistent
  <2>4. CASE m \in (made + 1)..made'
    BY <2>1, <2>4, ThresholdsArePositive DEF OldNodesKept, circuitOpen, circuitClosed
  <2> QED
    BY <2>2, <2>3, <2>4
<1>2. CASE resortNodes
  BY <1>2, ResortEffect DEF nodeVars, health, counters, breaker, BreakerConsistent
<1>3. CASE Tick /\ UNCHANGED members
  BY <1>3 DEF Tick, members, counters, BreakerConsistent
<1> QED
  BY <1>1, <1>2, <1>3

\* New's pool has the types and closed circuits.
LEMMA PoolInitOK ==
  ASSUME PoolInit
  PROVE  PoolTypeOK /\ BreakerConsistent
<1>1. PICK cfgs \in InitialConfigs :
        /\ NodesInit([n \in Nodes |-> IF n <= Len(cfgs) THEN cfgs[n] ELSE cfgs[1]])
        /\ made = Len(cfgs)
        /\ nodes = [i \in 1..Len(cfgs) |-> i]
        /\ nodeMap \in [Endpoints -> 0..Len(cfgs)]
        /\ adminOps = 0
  BY Zenon DEF PoolInit
<1>2. cfgs \in Seq(NodeConfigs) /\ Len(cfgs) \in 1..MaxNodes /\ MaxNodes \in Nat
  BY ConfigLists, ScoreInputs
<1>3. \A i \in 1..Len(cfgs) : cfgs[i] \in NodeConfigs
  BY <1>2, SeqIsFunction
<1> DEFINE cs == [n \in Nodes |-> IF n <= Len(cfgs) THEN cfgs[n] ELSE cfgs[1]]
<1>4. cs \in [Nodes -> NodeConfigs]
  BY <1>2, <1>3 DEF Nodes
<1> HIDE DEF cs
<1>5. \A n \in Nodes : cs[n].weight \in Int /\ cs[n].maxConcurrent \in Nat
  BY <1>4, ScoreInputs, Zenon DEF NodeConfigs
<1>6. ASSUME NEW n \in Nodes
      PROVE  100 * EffectiveWeight(cs[n].weight) \in Int
  <2>1. EffectiveWeight(cs[n].weight) \in Nat \ {0}
    BY <1>5, EffectiveWeightType
  <2> QED
    BY <2>1
<1>7. NodesInit(cs)
  BY <1>1 DEF cs
<1>8. NodeTypeOK
  <2>1. score \in [Nodes -> Int] /\ semSize \in [Nodes -> Nat]
    BY <1>5, <1>6, <1>7 DEF NodesInit
  <2>2. sinceOpened \in [Nodes -> 0..CircuitOpenTime]
    BY <1>7, ThresholdsArePositive DEF NodesInit
  <2>3. waiters \in [Nodes -> Seq(Requests)]
    BY <1>7 DEF NodesInit
  <2>4. state \in [Nodes -> circuitStates]
    BY <1>7 DEF NodesInit, circuitStates
  <2> QED
    BY <1>4, <1>7, <2>1, <2>2, <2>3, <2>4 DEF NodesInit, NodeTypeOK
<1>9. PoolTypeOK
  <2>1. nodes \in Seq(1..made)
    BY <1>1, <1>2
  <2> QED
    BY <1>1, <1>2, <1>8, <2>1, ConfigLists DEF PoolTypeOK
<1>10. BreakerConsistent
  BY <1>1, <1>2, <1>7, ThresholdsArePositive
     DEF NodesInit, Nodes, BreakerConsistent, circuitClosed, circuitOpen
<1> QED
  BY <1>9, <1>10
=============================================================================
