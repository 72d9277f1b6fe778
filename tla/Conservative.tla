---------------------------- MODULE Conservative ----------------------------
(***************************************************************************)
(* Concurrent requests under the conservative strategy                     *)
(* (provider/nodepool/strategy.go, conservativeStrategy.Execute): each     *)
(* takes a snapshot of the node list and tries the nodes one by one,       *)
(* several rounds.  A step of a request is a section between two points    *)
(* where other goroutines can be seen: the node's lock, its semaphore, the *)
(* transport.                                                              *)
(***************************************************************************)
EXTENDS Pool

CONSTANTS
  MaxRetries,
  WaitOnThrottle,
  RateLimited,       \* whether the nodes have token buckets
  SilentFailures     \* whether the classifier fails answers that came without an error
                     \* (httpTransport.Classifier on a 5xx; DefaultClassifier does not)

ASSUME StrategyOptions ==
  /\ MaxRetries \in Nat \ {0}
  /\ WaitOnThrottle \in BOOLEAN
  /\ RateLimited \in BOOLEAN
  /\ SilentFailures \in BOOLEAN
  /\ IsFiniteSet(Requests)

VARIABLES
  pc,                \* where the goroutine of a request is
  order,             \* its snapshot of p.nodes
  round,
  idx,               \* position in the snapshot
  cur,               \* the node it deals with, NoNode if none
  anyAttempted,
  throttled,         \* throttledNodes[0], NoNode if empty
  waited,            \* the attempt is the one after a blocking Acquire
  status,            \* of the last attempt
  lastErr,
  result,            \* what Execute returned
  execs,             \* transport executions made for the request
  cancelled          \* its context is done

walk  == <<order, round, idx, cur, anyAttempted, throttled, waited>>
ends  == <<status, lastErr, result>>
vars  == <<poolVars, pc, walk, ends, execs, cancelled>>

Pcs == {"idle", "round", "scan", "try", "limit", "acquire", "waiting",
        "waitLimit", "admit", "exec", "release", "done"}
Errs == {"nil", "allThrottled", "ctx", "failed"}
Results == {"none", "success", "bizError"} \cup Errs

Init ==
  /\ PoolInit
  /\ pc = [r \in Requests |-> "idle"]
  /\ order = [r \in Requests |-> <<>>]
  /\ round = [r \in Requests |-> 0]
  /\ idx = [r \in Requests |-> 1]
  /\ cur = [r \in Requests |-> NoNode]
  /\ anyAttempted = [r \in Requests |-> FALSE]
  /\ throttled = [r \in Requests |-> NoNode]
  /\ waited = [r \in Requests |-> FALSE]
  /\ status = [r \in Requests |-> NodeStatusFail]
  /\ lastErr = [r \in Requests |-> "nil"]
  /\ result = [r \in Requests |-> "none"]
  /\ execs = [r \in Requests |-> 0]
  /\ cancelled = [r \in Requests |-> FALSE]

Goto(r, to)  == pc' = [pc EXCEPT ![r] = to]
Return(r, v) == result' = [result EXCEPT ![r] = v]

\* doWithStatus: the snapshot, taken under p.mu; Execute refuses an empty one.
Start(r) ==
  /\ pc[r] = "idle"
  /\ order' = [order EXCEPT ![r] = nodes]
  /\ \/ nodes = <<>> /\ Goto(r, "done") /\ Return(r, "failed")
     \/ nodes # <<>> /\ Goto(r, "round") /\ UNCHANGED result
  /\ UNCHANGED <<poolVars, round, idx, cur, anyAttempted, throttled, waited,
                 status, lastErr, execs, cancelled>>

\* Mutant: the walk starts one position early.
NextRoundFromZero(r) ==
  /\ pc[r] = "round"
  /\ round[r] <= MaxRetries /\ ~cancelled[r]
  /\ Goto(r, "scan")
  /\ idx' = [idx EXCEPT ![r] = 0]
  /\ anyAttempted' = [anyAttempted EXCEPT ![r] = FALSE]
  /\ throttled' = [throttled EXCEPT ![r] = NoNode]
  /\ UNCHANGED <<poolVars, order, round, cur, waited, ends, execs, cancelled>>

\* The head of the round loop.
NextRound(r) ==
  /\ pc[r] = "round"
  /\ \/ /\ round[r] > MaxRetries
        /\ Goto(r, "done")
        /\ Return(r, IF lastErr[r] = "nil" THEN "failed" ELSE lastErr[r])
        /\ UNCHANGED <<idx, anyAttempted, throttled>>
     \/ /\ round[r] <= MaxRetries /\ cancelled[r]
        /\ Goto(r, "done")
        /\ Return(r, "ctx")
        /\ UNCHANGED <<idx, anyAttempted, throttled>>
     \/ /\ round[r] <= MaxRetries /\ ~cancelled[r]
        /\ Goto(r, "scan")
        /\ idx' = [idx EXCEPT ![r] = 1]
        /\ anyAttempted' = [anyAttempted EXCEPT ![r] = FALSE]
        /\ throttled' = [throttled EXCEPT ![r] = NoNode]
        /\ UNCHANGED result
  /\ UNCHANGED <<poolVars, order, round, cur, waited, status, lastErr, execs, cancelled>>

\* IsAvailable of the next node.
Scan(r) ==
  /\ pc[r] = "scan"
  /\ idx[r] <= Len(order[r])
  /\ LET n == order[r][idx[r]]
     IN  \/ /\ IsAvailable(n)
            /\ Goto(r, "try")
            /\ cur' = [cur EXCEPT ![r] = n]
            /\ UNCHANGED idx
         \/ /\ ~IsAvailable(n)
            /\ Goto(r, "scan")
            /\ idx' = [idx EXCEPT ![r] = @ + 1]
            /\ UNCHANGED cur
  /\ UNCHANGED <<poolVars, order, round, anyAttempted, throttled, waited, ends,
                 execs, cancelled>>

\* A node that is out of slots or tokens is remembered and passed over.
PassOver(r) ==
  /\ throttled' = [throttled EXCEPT ![r] = IF @ = NoNode THEN cur[r] ELSE @]
  /\ idx' = [idx EXCEPT ![r] = @ + 1]
  /\ cur' = [cur EXCEPT ![r] = NoNode]

\* TryAcquire, the semaphore.
TryAcquire(r) ==
  /\ pc[r] = "try"
  /\ \/ /\ SlotFree(cur[r])
        /\ Goto(r, "limit")
        /\ TakeSlot(cur[r])
        /\ UNCHANGED <<throttled, idx, cur>>
     \/ /\ ~SlotFree(cur[r])
        /\ Goto(r, "scan")
        /\ PassOver(r)
        /\ UNCHANGED throttle
  /\ UNCHANGED <<config, health, members, order, round, anyAttempted, waited,
                 ends, execs, cancelled>>

\* Mutant: a refusal keeps the slot.
TryLimitersKeepsSlot(r) ==
  /\ pc[r] = "limit"
  /\ \/ /\ Goto(r, "admit")
        /\ anyAttempted' = [anyAttempted EXCEPT ![r] = TRUE]
        /\ UNCHANGED <<throttled, idx, cur>>
     \/ /\ RateLimited
        /\ Goto(r, "scan")
        /\ PassOver(r)
        /\ UNCHANGED anyAttempted
  /\ UNCHANGED <<config, health, throttle, members, order, round, waited, ends, execs,
                 cancelled>>

\* TryAcquire, the token buckets: a refusal gives the slot back.
TryLimiters(r) ==
  /\ pc[r] = "limit"
  /\ \/ /\ Goto(r, "admit")
        /\ anyAttempted' = [anyAttempted EXCEPT ![r] = TRUE]
        /\ UNCHANGED <<throttle, throttled, idx, cur>>
     \/ /\ RateLimited
        /\ Goto(r, "scan")
        /\ Release(cur[r])
        /\ PassOver(r)
        /\ UNCHANGED anyAttempted
  /\ UNCHANGED <<config, health, members, order, round, waited, ends, execs, cancelled>>

\* doOnNode up to the transport.  A refusal comes with an error.
Admit(r) ==
  /\ pc[r] = "admit"
  /\ doOnNodeAdmit(cur[r])
  /\ \/ /\ IsAvailable(cur[r])
        /\ Goto(r, "exec")
        /\ execs' = [execs EXCEPT ![r] = @ + 1]
        /\ UNCHANGED <<status, lastErr>>
     \/ /\ ~IsAvailable(cur[r])
        /\ Goto(r, "release")
        /\ status' = [status EXCEPT ![r] = NodeStatusFail]
        /\ lastErr' = [lastErr EXCEPT ![r] = "failed"]
        /\ UNCHANGED execs
  /\ UNCHANGED <<config, throttle, members, walk, result, cancelled>>

\* The errors a failed attempt may come with.
FailErrs == {"failed"} \cup (IF SilentFailures THEN {"nil"} ELSE {})

\* doOnNode from the transport's answer on; Execute keeps a failure's error.
Answer(r) ==
  /\ pc[r] = "exec"
  /\ Goto(r, "release")
  /\ \E s \in NodeStatus :
       /\ doOnNodeRecord(cur[r], s)
       /\ status' = [status EXCEPT ![r] = s]
       /\ \E err \in (IF s = NodeStatusFail THEN FailErrs ELSE {lastErr[r]}) :
            lastErr' = [lastErr EXCEPT ![r] = err]
  /\ UNCHANGED <<config, throttle, members, walk, result, execs, cancelled>>

\* Mutants: a success returns before the slot is given back; a failed node is
\* tried again at once.
FinishKeepsSlot(r) ==
  /\ pc[r] = "release"
  /\ cur' = [cur EXCEPT ![r] = NoNode]
  /\ waited' = [waited EXCEPT ![r] = FALSE]
  /\ \/ /\ status[r] # NodeStatusFail
        /\ Goto(r, "done") /\ Return(r, status[r])
        /\ UNCHANGED <<idx, round, throttle>>
     \/ /\ status[r] = NodeStatusFail
        /\ Goto(r, IF waited[r] THEN "round" ELSE "scan")
        /\ round' = [round EXCEPT ![r] = IF waited[r] THEN @ + 1 ELSE @]
        /\ idx' = [idx EXCEPT ![r] = IF waited[r] THEN @ ELSE @ + 1]
        /\ Release(cur[r])
        /\ UNCHANGED result
  /\ UNCHANGED <<config, health, members, order, anyAttempted, throttled, status, lastErr,
                 execs, cancelled>>

FinishTriesAgain(r) ==
  /\ pc[r] = "release"
  /\ Release(cur[r])
  /\ cur' = [cur EXCEPT ![r] = NoNode]
  /\ waited' = [waited EXCEPT ![r] = FALSE]
  /\ Goto(r, IF status[r] = NodeStatusFail THEN "scan" ELSE "done")
  /\ UNCHANGED <<config, health, members, order, round, idx, anyAttempted, throttled, ends,
                 execs, cancelled>>

\* Release, and the switch on the status.
Finish(r) ==
  /\ pc[r] = "release"
  /\ Release(cur[r])
  /\ cur' = [cur EXCEPT ![r] = NoNode]
  /\ waited' = [waited EXCEPT ![r] = FALSE]
  /\ \/ /\ status[r] = NodeStatusSuccess
        /\ Goto(r, "done") /\ Return(r, "success")
        /\ UNCHANGED <<idx, round>>
     \/ /\ status[r] = NodeStatusBizError
        /\ Goto(r, "done") /\ Return(r, "bizError")
        /\ UNCHANGED <<idx, round>>
     \/ /\ status[r] = NodeStatusFail
        /\ \/ /\ waited[r]
              /\ Goto(r, "round")
              /\ round' = [round EXCEPT ![r] = @ + 1]
              /\ UNCHANGED idx
           \/ /\ ~waited[r]
              /\ Goto(r, "scan")
              /\ idx' = [idx EXCEPT ![r] = @ + 1]
              /\ UNCHANGED round
        /\ UNCHANGED result
  /\ UNCHANGED <<config, health, members, order, anyAttempted, throttled, status, lastErr,
                 execs, cancelled>>

\* Mutant: a throttled round overwrites an earlier error.
EndScanOverwrites(r) ==
  LET starved == ~anyAttempted[r] /\ throttled[r] # NoNode
  IN  /\ pc[r] = "scan"
      /\ idx[r] > Len(order[r])
      /\ ~(starved /\ WaitOnThrottle)
      /\ Goto(r, "round")
      /\ round' = [round EXCEPT ![r] = @ + 1]
      /\ lastErr' = [lastErr EXCEPT ![r] = IF starved THEN "allThrottled" ELSE @]
      /\ UNCHANGED <<poolVars, order, idx, cur, anyAttempted, throttled, waited, status,
                     result, execs, cancelled>>

\* The end of a round: nothing was attempted and something was throttled.
EndScan(r) ==
  LET starved == ~anyAttempted[r] /\ throttled[r] # NoNode
  IN  /\ pc[r] = "scan"
      /\ idx[r] > Len(order[r])
      /\ \/ /\ starved /\ WaitOnThrottle
            /\ Goto(r, "acquire")
            /\ cur' = [cur EXCEPT ![r] = throttled[r]]
            /\ waited' = [waited EXCEPT ![r] = TRUE]
            /\ UNCHANGED <<round, lastErr>>
         \/ /\ ~(starved /\ WaitOnThrottle)
            /\ Goto(r, "round")
            /\ round' = [round EXCEPT ![r] = @ + 1]
            /\ lastErr' = [lastErr EXCEPT ![r] =
                 IF starved /\ @ = "nil" THEN "allThrottled" ELSE @]
            /\ UNCHANGED <<cur, waited>>
      /\ UNCHANGED <<poolVars, order, idx, anyAttempted, throttled, status, result,
                     execs, cancelled>>

\* Acquire, the semaphore: a slot at once, or a place in the queue.
Acquire(r) ==
  /\ pc[r] = "acquire"
  /\ \/ SlotFree(cur[r])  /\ Goto(r, "waitLimit") /\ TakeSlot(cur[r])
     \/ ~SlotFree(cur[r]) /\ Goto(r, "waiting")   /\ Enqueue(cur[r], r)
  /\ UNCHANGED <<config, health, members, walk, ends, execs, cancelled>>

\* A Release has handed its slot over.
Granted(r) ==
  /\ pc[r] = "waiting"
  /\ Goto(r, "waitLimit")
  /\ ~Queued(cur[r], r)
  /\ UNCHANGED <<poolVars, walk, ends, execs, cancelled>>

\* Acquire, the token buckets.
WaitLimiters(r) ==
  /\ pc[r] = "waitLimit"
  /\ Goto(r, "admit")
  /\ UNCHANGED <<poolVars, walk, ends, execs, cancelled>>

\* Mutant: a request that gives up stays in the queue.
AcquireFailsInQueue(r) ==
  /\ pc[r] \in {"acquire", "waiting"} /\ cancelled[r]
  /\ Goto(r, "round")
  /\ cur' = [cur EXCEPT ![r] = NoNode]
  /\ waited' = [waited EXCEPT ![r] = FALSE]
  /\ round' = [round EXCEPT ![r] = @ + 1]
  /\ lastErr' = [lastErr EXCEPT ![r] = "ctx"]
  /\ UNCHANGED <<poolVars, order, idx, anyAttempted, throttled, status, result, execs,
                 cancelled>>

\* Acquire fails: its context is done, or its deadline is too near for a token.
\* A slot that was taken, or was handed over at the last moment, is given back.
AcquireFails(r) ==
  /\ \/ pc[r] = "acquire" /\ cancelled[r] /\ UNCHANGED throttle
     \/ pc[r] = "waiting" /\ cancelled[r] /\ LeaveQueue(cur[r], r)
     \/ pc[r] = "waiting" /\ cancelled[r] /\ ~Queued(cur[r], r) /\ Release(cur[r])
     \/ pc[r] = "waitLimit" /\ RateLimited /\ Release(cur[r])
  /\ Goto(r, "round")
  /\ cur' = [cur EXCEPT ![r] = NoNode]
  /\ waited' = [waited EXCEPT ![r] = FALSE]
  /\ round' = [round EXCEPT ![r] = @ + 1]
  /\ lastErr' = [lastErr EXCEPT ![r] = "ctx"]
  /\ UNCHANGED <<config, health, members, order, idx, anyAttempted, throttled, status,
                 result, execs, cancelled>>

\* The caller's context is cancelled or times out.
Cancel(r) ==
  /\ ~cancelled[r] /\ pc[r] # "done"
  /\ cancelled' = [cancelled EXCEPT ![r] = TRUE]
  /\ UNCHANGED <<poolVars, pc, walk, ends, execs>>

Step(r) ==
  \/ NextRound(r) \/ Scan(r) \/ TryAcquire(r) \/ TryLimiters(r)
  \/ Admit(r) \/ Answer(r) \/ Finish(r) \/ EndScan(r)
  \/ Acquire(r) \/ Granted(r) \/ WaitLimiters(r) \/ AcquireFails(r)

PoolStep ==
  /\ Admin \/ resortNodes \/ (Tick /\ UNCHANGED members)
  /\ UNCHANGED <<pc, walk, ends, execs, cancelled>>

Next ==
  \/ \E r \in Requests : Start(r) \/ Step(r) \/ Cancel(r)
  \/ PoolStep

Spec == Init /\ [][Next]_vars

-----------------------------------------------------------------------------
(* Properties *)

\* Every variable keeps its type.
TypeOK ==
  /\ PoolTypeOK
  /\ pc \in [Requests -> Pcs]
  /\ order \in [Requests -> Seq(1..made)]
  /\ round \in [Requests -> Nat]
  /\ idx \in [Requests -> Nat \ {0}]
  /\ cur \in [Requests -> 0..made]
  /\ anyAttempted \in [Requests -> BOOLEAN]
  /\ throttled \in [Requests -> 0..made]
  /\ waited \in [Requests -> BOOLEAN]
  /\ status \in [Requests -> NodeStatus]
  /\ lastErr \in [Requests -> Errs]
  /\ result \in [Requests -> Results]
  /\ execs \in [Requests -> Nat]
  /\ cancelled \in [Requests -> BOOLEAN]

\* The requests that own a slot of node n's semaphore.
Holds(r, n) ==
  /\ cur[r] = n
  /\ \/ pc[r] \in {"limit", "waitLimit", "admit", "exec", "release"}
     \/ pc[r] = "waiting" /\ ~Queued(n, r)

Holders(n) == {r \in Requests : Holds(r, n)}

\* Acquire and Release balance on every path of Execute (refused by a bucket,
\* circuit open, answered, retried, cancelled while queued or just granted):
\* the slots a semaphore counts are exactly those that requests own, and there
\* are never more of them than its size.
SlotsMatchHolders ==
  \A n \in 1..made : semSize[n] > 0 =>
    /\ inUse[n] = Cardinality(Holders(n))
    /\ inUse[n] <= semSize[n]

\* No slot is idle while a request is queued for it, and the queue holds only
\* requests that wait for this node, each once.
NoIdleSlotWhileQueued ==
  \A n \in 1..made :
    /\ waiters[n] # <<>> => semSize[n] > 0 /\ inUse[n] = semSize[n]
    /\ \A i \in DOMAIN waiters[n] :
         /\ pc[waiters[n][i]] = "waiting" /\ cur[waiters[n][i]] = n
         /\ \A j \in DOMAIN waiters[n] : waiters[n][i] = waiters[n][j] => i = j

\* ErrAllThrottled is returned only for a request no node has ever executed,
\* so the caller may send it again (lastErr is set to it only while it is nil).
\* That takes a classifier that fails no answer without an error: such a
\* failure makes lastErr nil again, and a later round may then report
\* ErrAllThrottled.
ThrottledMeansUntried ==
  ~SilentFailures => \A r \in Requests : result[r] = "allThrottled" => execs[r] = 0

\* A request is executed at most once per node and round, so MaxRetries bounds
\* what a request costs the nodes' quotas.
QuotaBound ==
  \A r \in Requests : execs[r] <= (MaxRetries + 1) * Len(order[r])

Returned == \A r \in Requests : pc[r] \in {"idle", "done"}
=============================================================================
