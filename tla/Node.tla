-------------------------------- MODULE Node --------------------------------
(***************************************************************************)
(* One endpoint of the node pool (provider/nodepool/node.go): its health   *)
(* counters, its score, its circuit breaker and its throttle.  Every       *)
(* method that takes n.mu is one action on the fields it guards.           *)
(*                                                                         *)
(* The throttle is golang.org/x/sync/semaphore.Weighted (external): a      *)
(* counter and a FIFO of blocked acquirers.  The two token buckets         *)
(* (rateLimiter, minuteLimiter) are external as well: whether they let a   *)
(* request through is the environment's choice.                            *)
(***************************************************************************)
EXTENDS Integers, Sequences

CONSTANTS
  MaxNodes,          \* how many *Node objects a run makes
  Requests,          \* the goroutines that call Acquire and Release
  Endpoints,
  FailureThreshold,
  SuccessThreshold,
  CircuitOpenTime,   \* in clock ticks
  EWMAAlpha,         \* in per cent
  Latencies,         \* the latencies a request may take, in milliseconds
  Weights,           \* the values NodeConfig.Weight takes
  Limits             \* the values RateLimitConfig.MaxConcurrent takes

ASSUME ThresholdsArePositive ==   \* WithFailureThreshold, WithSuccessThreshold
  /\ FailureThreshold \in Nat \ {0}
  /\ SuccessThreshold \in Nat \ {0}
  /\ CircuitOpenTime \in Nat \ {0}

ASSUME ScoreInputs ==
  /\ MaxNodes \in Nat
  /\ EWMAAlpha \in 1..100
  /\ Latencies \subseteq Nat \ {0}
  /\ Weights \subseteq Int
  /\ Limits \subseteq Nat

NodeConfigs == [endpoint : Endpoints, weight : Weights, maxConcurrent : Limits]

VARIABLES
  config,            \* NodeConfig, replaced by updateConfig
  state,             \* circuitClosed, circuitOpen, circuitHalfOpen
  sinceOpened,       \* time.Since(openedAt), up to CircuitOpenTime
  totalRequests,
  successCount,
  failCount,
  consecutiveFail,
  consecutiveSucc,
  avgLatency,
  score,             \* in hundredths
  semSize,           \* size of concSem, 0 for none
  inUse,             \* slots of concSem that are taken
  waiters            \* goroutines blocked in concSem.Acquire, in order

counters == <<totalRequests, successCount, failCount, avgLatency, score>>
breaker  == <<state, sinceOpened, consecutiveFail, consecutiveSucc>>
health   == <<counters, breaker>>
throttle == <<semSize, inUse, waiters>>
nodeVars == <<config, health, throttle>>

circuitClosed   == "closed"
circuitOpen     == "open"
circuitHalfOpen == "halfOpen"
circuitStates   == {circuitClosed, circuitOpen, circuitHalfOpen}

EffectiveWeight(w) == IF w <= 0 THEN 1 ELSE w

\* The objects newNode has made are 1..made; MaxNodes bounds how many a run makes.
Nodes == 1..MaxNodes

(***************************************************************************)
(* newNode, for the objects in the domain of cfgs, each from its own cfg.  *)
(***************************************************************************)
newNodes(cfgs) ==
  LET Fresh(f, v) == [n \in Nodes |-> IF n \in DOMAIN cfgs THEN v ELSE f[n]]
  IN  /\ state'           = Fresh(state, circuitClosed)
      /\ sinceOpened'     = Fresh(sinceOpened, 0)
      /\ totalRequests'   = Fresh(totalRequests, 0)
      /\ successCount'    = Fresh(successCount, 0)
      /\ failCount'       = Fresh(failCount, 0)
      /\ consecutiveFail' = Fresh(consecutiveFail, 0)
      /\ consecutiveSucc' = Fresh(consecutiveSucc, 0)
      /\ avgLatency'      = Fresh(avgLatency, 0)
      /\ inUse'           = Fresh(inUse, 0)
      /\ waiters'         = Fresh(waiters, <<>>)
      /\ score' = [n \in Nodes |-> IF n \in DOMAIN cfgs
                     THEN 100 * EffectiveWeight(cfgs[n].weight) ELSE score[n]]
      /\ semSize' = [n \in Nodes |-> IF n \in DOMAIN cfgs
                       THEN cfgs[n].maxConcurrent ELSE semSize[n]]

\* The same for the objects that New makes.
NodesInit(cfgs) ==
  /\ config          = cfgs
  /\ state           = [n \in Nodes |-> circuitClosed]
  /\ sinceOpened     = [n \in Nodes |-> 0]
  /\ totalRequests   = [n \in Nodes |-> 0]
  /\ successCount    = [n \in Nodes |-> 0]
  /\ failCount       = [n \in Nodes |-> 0]
  /\ consecutiveFail = [n \in Nodes |-> 0]
  /\ consecutiveSucc = [n \in Nodes |-> 0]
  /\ avgLatency      = [n \in Nodes |-> 0]
  /\ score           = [n \in Nodes |-> 100 * EffectiveWeight(cfgs[n].weight)]
  /\ semSize         = [n \in Nodes |-> cfgs[n].maxConcurrent]
  /\ inUse           = [n \in Nodes |-> 0]
  /\ waiters         = [n \in Nodes |-> <<>>]

-----------------------------------------------------------------------------
(* The throttle. *)

\* semaphore.Weighted.TryAcquire(1) and the fast path of Acquire: a free slot,
\* and nobody queued for it.
SlotFree(n) == semSize[n] = 0 \/ (inUse[n] < semSize[n] /\ waiters[n] = <<>>)

TakeSlot(n) ==
  /\ inUse' = [inUse EXCEPT ![n] = IF semSize[n] = 0 THEN @ ELSE @ + 1]
  /\ UNCHANGED <<semSize, waiters>>

\* Acquire blocks: the goroutine queues for a slot.
Enqueue(n, r) ==
  /\ waiters' = [waiters EXCEPT ![n] = Append(@, r)]
  /\ UNCHANGED <<semSize, inUse>>

\* Node.Release.  semaphore.Weighted.Release hands the slot to the waiter at
\* the head of the queue, if there is one.
Release(n) ==
  /\ waiters' = [waiters EXCEPT ![n] = IF @ = <<>> THEN @ ELSE Tail(@)]
  /\ inUse' = [inUse EXCEPT ![n] =
                 IF semSize[n] = 0 \/ waiters[n] # <<>> THEN @ ELSE @ - 1]
  /\ UNCHANGED semSize

\* Whether r is queued for a slot of n, and its leaving the queue because its
\* context is done.
Queued(n, r) == \E i \in DOMAIN waiters[n] : waiters[n][i] = r

LeaveQueue(n, r) ==
  /\ \E i \in DOMAIN waiters[n] :
       /\ waiters[n][i] = r
       /\ waiters' = [waiters EXCEPT ![n] =
            [j \in 1..(Len(@) - 1) |-> IF j < i THEN @[j] ELSE @[j + 1]]]
  /\ UNCHANGED <<semSize, inUse>>

-----------------------------------------------------------------------------
(* The circuit breaker and the score. *)

OpenTimeElapsed(n) == sinceOpened[n] >= CircuitOpenTime

IsAvailable(n) == state[n] = circuitOpen => OpenTimeElapsed(n)

\* updateLatency: an exponentially weighted moving average, seeded by the
\* first sample.
EWMA(avg, d) ==
  IF avg = 0 THEN d ELSE (avg * (100 - EWMAAlpha) + d * EWMAAlpha) \div 100

updateLatency(n, d) == avgLatency' = [avgLatency EXCEPT ![n] = EWMA(@, d)]

LatencyBonus(avg) ==
  LET bonus == 100000 \div avg
  IN  IF avg = 0 THEN 0 ELSE IF bonus > 1000 THEN 1000 ELSE bonus

ScoreOf(w, succ, total, avg, consFail, st) ==
  IF st = circuitOpen THEN -100
  ELSE (100 * EffectiveWeight(w) * succ) \div total
         + LatencyBonus(avg) - 50 * consFail

\* Called last, on the fields the caller has just written.
recalcScore(n) ==
  score' = [score EXCEPT ![n] =
              ScoreOf(config[n].weight, successCount'[n], totalRequests'[n],
                      avgLatency'[n], consecutiveFail'[n], state'[n])]

\* Mutant: a late success closes an open circuit.
StateAfterSuccessCloses(st, consSucc) ==
  IF st = circuitOpen \/ (st = circuitHalfOpen /\ consSucc >= SuccessThreshold)
  THEN circuitClosed ELSE st

StateAfterSuccess(st, consSucc) ==
  CASE st = circuitOpen -> circuitHalfOpen
    [] st = circuitHalfOpen /\ consSucc >= SuccessThreshold -> circuitClosed
    [] OTHER -> st

RecordSuccess(n, latency) ==
  /\ totalRequests' = [totalRequests EXCEPT ![n] = @ + 1]
  /\ successCount' = [successCount EXCEPT ![n] = @ + 1]
  /\ consecutiveSucc' = [consecutiveSucc EXCEPT ![n] =
                           IF state[n] = circuitOpen THEN 1 ELSE @ + 1]
  /\ consecutiveFail' = [consecutiveFail EXCEPT ![n] = 0]
  /\ updateLatency(n, latency)
  /\ state' = [state EXCEPT ![n] =
                 StateAfterSuccess(@, consecutiveSucc[n] + 1)]
  /\ UNCHANGED <<sinceOpened, failCount>>
  /\ recalcScore(n)

\* Mutant: the circuit opens one failure late.
RecordFailureLate(n, latency) ==
  LET opens == consecutiveFail[n] + 1 > FailureThreshold
  IN  /\ totalRequests' = [totalRequests EXCEPT ![n] = @ + 1]
      /\ failCount' = [failCount EXCEPT ![n] = @ + 1]
      /\ consecutiveFail' = [consecutiveFail EXCEPT ![n] = @ + 1]
      /\ consecutiveSucc' = [consecutiveSucc EXCEPT ![n] = 0]
      /\ updateLatency(n, latency)
      /\ state' = [state EXCEPT ![n] = IF opens THEN circuitOpen ELSE @]
      /\ sinceOpened' = [sinceOpened EXCEPT ![n] = IF opens THEN 0 ELSE @]
      /\ UNCHANGED successCount
      /\ recalcScore(n)

RecordFailure(n, latency) ==
  LET opens == consecutiveFail[n] + 1 >= FailureThreshold
  IN  /\ totalRequests' = [totalRequests EXCEPT ![n] = @ + 1]
      /\ failCount' = [failCount EXCEPT ![n] = @ + 1]
      /\ consecutiveFail' = [consecutiveFail EXCEPT ![n] = @ + 1]
      /\ consecutiveSucc' = [consecutiveSucc EXCEPT ![n] = 0]
      /\ updateLatency(n, latency)
      /\ state' = [state EXCEPT ![n] = IF opens THEN circuitOpen ELSE @]
      /\ sinceOpened' = [sinceOpened EXCEPT ![n] = IF opens THEN 0 ELSE @]
      /\ UNCHANGED successCount
      /\ recalcScore(n)

RecordBizError(n) ==
  /\ totalRequests' = [totalRequests EXCEPT ![n] = @ + 1]
  /\ UNCHANGED <<successCount, failCount, avgLatency, score, breaker>>

\* Mutant: the circuit closes without a probe.
tryTransitionToClosed(n) ==
  LET moves == state[n] = circuitOpen /\ OpenTimeElapsed(n)
  IN  /\ state' = [state EXCEPT ![n] = IF moves THEN circuitClosed ELSE @]
      /\ consecutiveSucc' = [consecutiveSucc EXCEPT ![n] = IF moves THEN 0 ELSE @]
      /\ UNCHANGED <<sinceOpened, consecutiveFail, counters>>

\* The effect of tryTransitionToHalfOpen; it returns IsAvailable(n), read
\* under the same lock.
tryTransitionToHalfOpen(n) ==
  LET moves == state[n] = circuitOpen /\ OpenTimeElapsed(n)
  IN  /\ state' = [state EXCEPT ![n] = IF moves THEN circuitHalfOpen ELSE @]
      /\ consecutiveSucc' = [consecutiveSucc EXCEPT ![n] = IF moves THEN 0 ELSE @]
      /\ UNCHANGED <<sinceOpened, consecutiveFail, counters>>

\* updateConfig replaces the configuration; concSem keeps the size newNode
\* gave it.
updateConfig(n, cfg) ==
  /\ config' = [config EXCEPT ![n] = cfg]
  /\ UNCHANGED <<health, throttle>>

\* The clock: an open circuit grows older.
Tick ==
  /\ \E n \in Nodes : state[n] = circuitOpen /\ ~OpenTimeElapsed(n)
  /\ sinceOpened' = [n \in Nodes |->
       IF state[n] = circuitOpen /\ ~OpenTimeElapsed(n)
       THEN sinceOpened[n] + 1 ELSE sinceOpened[n]]
  /\ UNCHANGED <<config, state, consecutiveFail, consecutiveSucc, counters, throttle>>

-----------------------------------------------------------------------------
\* The types of a node's fields (inUse is shown not to be negative elsewhere).
NodeTypeOK ==
  /\ config \in [Nodes -> NodeConfigs]
  /\ state \in [Nodes -> circuitStates]
  /\ sinceOpened \in [Nodes -> 0..CircuitOpenTime]
  /\ totalRequests \in [Nodes -> Nat]
  /\ successCount \in [Nodes -> Nat]
  /\ failCount \in [Nodes -> Nat]
  /\ consecutiveFail \in [Nodes -> Nat]
  /\ consecutiveSucc \in [Nodes -> Nat]
  /\ avgLatency \in [Nodes -> Nat]
  /\ score \in [Nodes -> Int]
  /\ semSize \in [Nodes -> Nat]
  /\ inUse \in [Nodes -> Int]
  /\ waiters \in [Nodes -> Seq(Requests)]
=============================================================================
