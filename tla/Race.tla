-------------------------------- MODULE Race --------------------------------
(***************************************************************************)
(* Concurrent requests under the race strategy (provider/nodepool/         *)
(* strategy.go, raceStrategy.Execute): a request takes a slot of every     *)
(* node it can, gives back what is over its concurrency, and runs one      *)
(* worker goroutine per candidate; the first success or business error     *)
(* wins and cancels the others, which still have to answer and to give     *)
(* their slots back after Execute has returned.                            *)
(***************************************************************************)
EXTENDS Pool

CONSTANTS
  Concurrency,       \* 0 for all nodes
  WaitOnThrottle,
  RateLimited,       \* whether the nodes have token buckets
  Faulty             \* the nodes whose own failures requests may see

ASSUME RaceOptions ==
  /\ Concurrency \in Nat
  /\ WaitOnThrottle \in BOOLEAN
  /\ RateLimited \in BOOLEAN
  /\ Faulty \subseteq Nodes
  /\ IsFiniteSet(Requests)

VARIABLES
  pc,                \* where the goroutine of a request is
  order,             \* its snapshot of p.nodes
  idx,
  cur,               \* the node it deals with itself, NoNode if none
  acquired,          \* the nodes it has taken a slot of, in order
  throttled,         \* throttled[0], NoNode if empty
  worker,            \* worker[r][n]: where the worker for node n is
  answer,            \* answer[r][n]: the status it got
  ch,                \* the channel of results
  result,            \* what Execute returned
  cancelled          \* the caller's context is done

flow == <<order, idx, cur, acquired, throttled>>
vars == <<poolVars, pc, flow, worker, answer, ch, result, cancelled>>

Pcs     == {"idle", "scan", "try", "limit", "acquire", "waiting", "waitLimit", "admit",
            "exec", "release", "collect", "done"}
Stages  == {"none", "admit", "exec", "send", "release", "done"}
Results == {"none", "success", "bizError", "failed", "allThrottled", "ctx"}

Init ==
  /\ PoolInit
  /\ pc = [r \in Requests |-> "idle"]
  /\ order = [r \in Requests |-> <<>>]
  /\ idx = [r \in Requests |-> 1]
  /\ cur = [r \in Requests |-> NoNode]
  /\ acquired = [r \in Requests |-> <<>>]
  /\ throttled = [r \in Requests |-> NoNode]
  /\ worker = [r \in Requests |-> [n \in Nodes |-> "none"]]
  /\ answer = [r \in Requests |-> [n \in Nodes |-> NodeStatusFail]]
  /\ ch = [r \in Requests |-> <<>>]
  /\ result = [r \in Requests |-> "none"]
  /\ cancelled = [r \in Requests |-> FALSE]

Goto(r, to)  == pc' = [pc EXCEPT ![r] = to]
Return(r, v) == result' = [result EXCEPT ![r] = v]

\* The workers' context: derived from the caller's, cancelled when Execute returns.
CtxDone(r) == cancelled[r] \/ pc[r] = "done"

\* What an attempt on n may come to.  A node fails by itself, or the transport
\* gives up because the context is done; any error is classified as a failure.
Outcomes(n, ctxDone) ==
  {NodeStatusSuccess, NodeStatusBizError}
    \cup (IF n \in Faulty \/ ctxDone THEN {NodeStatusFail} ELSE {})

-----------------------------------------------------------------------------
(* The goroutine of the request *)

\* doWithStatus: the snapshot, taken under p.mu.
Start(r) ==
  /\ pc[r] = "idle"
  /\ Goto(r, "scan")
  /\ order' = [order EXCEPT ![r] = nodes]
  /\ UNCHANGED <<poolVars, idx, cur, acquired, throttled, worker, answer, ch, result, cancelled>>

Scan(r) ==
  /\ pc[r] = "scan"
  /\ idx[r] <= Len(order[r])
  /\ LET n == order[r][idx[r]]
     IN  \/ IsAvailable(n) /\ Goto(r, "try") /\ cur' = [cur EXCEPT ![r] = n] /\ UNCHANGED idx
         \/ ~IsAvailable(n) /\ Goto(r, "scan") /\ idx' = [idx EXCEPT ![r] = @ + 1] /\ UNCHANGED cur
  /\ UNCHANGED <<poolVars, order, acquired, throttled, worker, answer, ch, result, cancelled>>

\* On to the next node, with this one throttled or acquired.
PassOver(r) ==
  /\ Goto(r, "scan")
  /\ throttled' = [throttled EXCEPT ![r] = IF @ = NoNode THEN cur[r] ELSE @]
  /\ idx' = [idx EXCEPT ![r] = @ + 1]
  /\ cur' = [cur EXCEPT ![r] = NoNode]
  /\ UNCHANGED acquired

\* Mutant: the node is forgotten before it is kept.
KeepNothing(r) ==
  /\ Goto(r, "scan")
  /\ cur' = [cur EXCEPT ![r] = NoNode]
  /\ acquired' = [acquired EXCEPT ![r] = Append(@, cur'[r])]
  /\ idx' = [idx EXCEPT ![r] = @ + 1]
  /\ UNCHANGED throttled

Keep(r) ==
  /\ Goto(r, "scan")
  /\ acquired' = [acquired EXCEPT ![r] = Append(@, cur[r])]
  /\ idx' = [idx EXCEPT ![r] = @ + 1]
  /\ cur' = [cur EXCEPT ![r] = NoNode]
  /\ UNCHANGED throttled

\* TryAcquire: the semaphore, then the token buckets.
TryAcquire(r) ==
  /\ pc[r] = "try"
  /\ \/ /\ SlotFree(cur[r])
        /\ Goto(r, "limit")
        /\ TakeSlot(cur[r])
        /\ UNCHANGED <<throttled, acquired, idx, cur>>
     \/ ~SlotFree(cur[r]) /\ PassOver(r) /\ UNCHANGED throttle
  /\ UNCHANGED <<config, health, members, order, worker, answer, ch, result, cancelled>>

TryLimiters(r) ==
  /\ pc[r] = "limit"
  /\ \/ Keep(r) /\ UNCHANGED throttle
     \/ RateLimited /\ PassOver(r) /\ Release(cur[r])
  /\ UNCHANGED <<config, health, members, order, worker, answer, ch, result, cancelled>>

\* No slot at all.
EndScanEmpty(r) ==
  /\ pc[r] = "scan"
  /\ idx[r] > Len(order[r])
  /\ acquired[r] = <<>>
  /\ \/ /\ throttled[r] # NoNode /\ WaitOnThrottle
        /\ Goto(r, "acquire")
        /\ cur' = [cur EXCEPT ![r] = throttled[r]]
        /\ UNCHANGED result
     \/ /\ throttled[r] # NoNode /\ ~WaitOnThrottle
        /\ Goto(r, "done") /\ Return(r, "allThrottled")
        /\ UNCHANGED cur
     \/ /\ throttled[r] = NoNode
        /\ Goto(r, "done") /\ Return(r, "failed")
        /\ UNCHANGED cur
  /\ UNCHANGED <<poolVars, order, idx, acquired, throttled, worker, answer, ch, cancelled>>

\* Give back what is over the concurrency, one node at a time.
ReleaseExtra(r) ==
  /\ pc[r] = "scan"
  /\ idx[r] > Len(order[r])
  /\ Concurrency > 0 /\ Len(acquired[r]) > Concurrency
  /\ Release(acquired[r][Concurrency + 1])
  /\ acquired' = [acquired EXCEPT ![r] =
       [i \in 1..(Len(@) - 1) |-> IF i <= Concurrency THEN @[i] ELSE @[i + 1]]]
  /\ UNCHANGED <<config, health, members, pc, order, idx, cur, throttled, worker, answer, ch,
                 result, cancelled>>


\* One goroutine per candidate.
Launch(r) ==
  /\ pc[r] = "scan"
  /\ idx[r] > Len(order[r])
  /\ acquired[r] # <<>>
  /\ Concurrency > 0 => Len(acquired[r]) <= Concurrency
  /\ Goto(r, "collect")
  /\ worker' = [worker EXCEPT ![r] = [n \in Nodes |->
       IF \E i \in DOMAIN acquired[r] : acquired[r][i] = n THEN "admit" ELSE "none"]]
  /\ acquired' = [acquired EXCEPT ![r] = <<>>]
  /\ UNCHANGED <<poolVars, order, idx, cur, throttled, answer, ch, result, cancelled>>

\* Mutant: the first answer decides, whatever it is.
ReceiveFirst(r) ==
  /\ pc[r] = "collect"
  /\ ch[r] # <<>>
  /\ ch' = [ch EXCEPT ![r] = Tail(@)]
  /\ Goto(r, "done")
  /\ Return(r, IF Head(ch[r]) = NodeStatusFail THEN "failed" ELSE Head(ch[r]))
  /\ UNCHANGED <<poolVars, flow, worker, answer, cancelled>>

\* The next result: a success or a business error ends the race.
Receive(r) ==
  /\ pc[r] = "collect"
  /\ ch[r] # <<>>
  /\ ch' = [ch EXCEPT ![r] = Tail(@)]
  /\ \/ Head(ch[r]) = NodeStatusFail /\ Goto(r, "collect") /\ UNCHANGED result
     \/ Head(ch[r]) = NodeStatusSuccess /\ Goto(r, "done") /\ Return(r, "success")
     \/ Head(ch[r]) = NodeStatusBizError /\ Goto(r, "done") /\ Return(r, "bizError")
  /\ UNCHANGED <<poolVars, flow, worker, answer, cancelled>>

\* The channel is closed once all workers are done, and is drained.
AllFailed(r) ==
  /\ pc[r] = "collect"
  /\ ch[r] = <<>>
  /\ \A n \in Nodes : worker[r][n] \in {"none", "done"}
  /\ Goto(r, "done") /\ Return(r, "failed")
  /\ UNCHANGED <<poolVars, flow, worker, answer, ch, cancelled>>

-----------------------------------------------------------------------------
(* The wait for the first throttled node, and the single attempt on it *)

Acquire(r) ==
  /\ pc[r] = "acquire"
  /\ \/ SlotFree(cur[r])  /\ Goto(r, "waitLimit") /\ TakeSlot(cur[r])
     \/ ~SlotFree(cur[r]) /\ Goto(r, "waiting")   /\ Enqueue(cur[r], r)
  /\ UNCHANGED <<config, health, members, flow, worker, answer, ch, result, cancelled>>

Granted(r) ==
  /\ pc[r] = "waiting"
  /\ ~Queued(cur[r], r)
  /\ Goto(r, "waitLimit")
  /\ UNCHANGED <<poolVars, flow, worker, answer, ch, result, cancelled>>

WaitLimiters(r) ==
  /\ pc[r] = "waitLimit"
  /\ Goto(r, "admit")
  /\ UNCHANGED <<poolVars, flow, worker, answer, ch, result, cancelled>>

AcquireFails(r) ==
  /\ \/ pc[r] = "acquire" /\ cancelled[r] /\ UNCHANGED throttle
     \/ pc[r] = "waiting" /\ cancelled[r] /\ LeaveQueue(cur[r], r)
     \/ pc[r] = "waiting" /\ cancelled[r] /\ ~Queued(cur[r], r) /\ Release(cur[r])
     \/ pc[r] = "waitLimit" /\ RateLimited /\ Release(cur[r])
  /\ Goto(r, "done") /\ Return(r, "ctx")
  /\ cur' = [cur EXCEPT ![r] = NoNode]
  /\ UNCHANGED <<config, health, members, order, idx, acquired, throttled, worker, answer, ch,
                 cancelled>>

SoloAdmit(r) ==
  /\ pc[r] = "admit"
  /\ doOnNodeAdmit(cur[r])
  /\ \/ IsAvailable(cur[r]) /\ Goto(r, "exec")
     \/ ~IsAvailable(cur[r]) /\ Goto(r, "release")
  /\ UNCHANGED <<config, throttle, members, flow, worker, answer, ch, result, cancelled>>

SoloAnswer(r) ==
  /\ pc[r] = "exec"
  /\ \E s \in Outcomes(cur[r], cancelled[r]) :
       /\ doOnNodeRecord(cur[r], s)
       /\ answer' = [answer EXCEPT ![r][cur[r]] = s]
  /\ Goto(r, "release")
  /\ UNCHANGED <<config, throttle, members, flow, worker, ch, result, cancelled>>

\* Mutant: only a failure gives the slot back.
SoloReleaseOnFail(r) ==
  /\ pc[r] = "release"
  /\ IF answer[r][cur[r]] = NodeStatusFail THEN Release(cur[r]) ELSE UNCHANGED throttle
  /\ Return(r, IF answer[r][cur[r]] = NodeStatusFail THEN "failed" ELSE answer[r][cur[r]])
  /\ Goto(r, "done")
  /\ cur' = [cur EXCEPT ![r] = NoNode]
  /\ UNCHANGED <<config, health, members, order, idx, acquired, throttled, worker, answer, ch,
                 cancelled>>

SoloRelease(r) ==
  /\ pc[r] = "release"
  /\ Release(cur[r])
  /\ Return(r, CASE answer[r][cur[r]] = NodeStatusSuccess  -> "success"
                 [] answer[r][cur[r]] = NodeStatusBizError -> "bizError"
                 [] answer[r][cur[r]] = NodeStatusFail     -> "failed")
  /\ Goto(r, "done")
  /\ cur' = [cur EXCEPT ![r] = NoNode]
  /\ UNCHANGED <<config, health, members, order, idx, acquired, throttled, worker, answer, ch,
                 cancelled>>

-----------------------------------------------------------------------------
(* The workers *)

At(r, n, stage) == worker' = [worker EXCEPT ![r][n] = stage]

WorkerAdmit(r, n) ==
  /\ worker[r][n] = "admit"
  /\ doOnNodeAdmit(n)
  /\ \/ IsAvailable(n) /\ At(r, n, "exec") /\ UNCHANGED answer
     \/ ~IsAvailable(n) /\ At(r, n, "send") /\ answer' = [answer EXCEPT ![r][n] = NodeStatusFail]
  /\ UNCHANGED <<config, throttle, members, pc, flow, ch, result, cancelled>>

WorkerAnswer(r, n) ==
  /\ worker[r][n] = "exec"
  /\ \E s \in Outcomes(n, CtxDone(r)) :
       /\ doOnNodeRecord(n, s)
       /\ answer' = [answer EXCEPT ![r][n] = s]
  /\ At(r, n, "send")
  /\ UNCHANGED <<config, throttle, members, pc, flow, ch, result, cancelled>>

\* The select: the channel has room for every worker, so both branches may be
\* ready when the context is done.
WorkerSend(r, n) ==
  /\ worker[r][n] = "send"
  /\ At(r, n, "release")
  /\ \/ ch' = [ch EXCEPT ![r] = Append(@, answer[r][n])]
     \/ CtxDone(r) /\ UNCHANGED ch
  /\ UNCHANGED <<poolVars, pc, flow, answer, result, cancelled>>

\* Mutant: a worker whose context is done ends with its slot.
WorkerReleaseUnlessDone(r, n) ==
  /\ worker[r][n] = "release"
  /\ At(r, n, "done")
  /\ IF CtxDone(r) THEN UNCHANGED throttle ELSE Release(n)
  /\ UNCHANGED <<config, health, members, pc, flow, answer, ch, result, cancelled>>

WorkerRelease(r, n) ==
  /\ worker[r][n] = "release"
  /\ At(r, n, "done")
  /\ Release(n)
  /\ UNCHANGED <<config, health, members, pc, flow, answer, ch, result, cancelled>>

-----------------------------------------------------------------------------

Cancel(r) ==
  /\ ~cancelled[r] /\ pc[r] # "done"
  /\ cancelled' = [cancelled EXCEPT ![r] = TRUE]
  /\ UNCHANGED <<poolVars, pc, flow, worker, answer, ch, result>>

Step(r) ==
  \/ Scan(r) \/ TryAcquire(r) \/ TryLimiters(r) \/ EndScanEmpty(r) \/ ReleaseExtra(r)
  \/ Launch(r) \/ Receive(r) \/ AllFailed(r)
  \/ Acquire(r) \/ Granted(r) \/ WaitLimiters(r) \/ AcquireFails(r)
  \/ SoloAdmit(r) \/ SoloAnswer(r) \/ SoloRelease(r)

WorkerStep(r, n) ==
  WorkerAdmit(r, n) \/ WorkerAnswer(r, n) \/ WorkerSend(r, n) \/ WorkerRelease(r, n)

PoolStep ==
  /\ Admin \/ resortNodes \/ (Tick /\ UNCHANGED members)
  /\ UNCHANGED <<pc, flow, worker, answer, ch, result, cancelled>>

Next ==
  \/ \E r \in Requests : Start(r) \/ Step(r) \/ Cancel(r)
  \/ \E r \in Requests, n \in Nodes : WorkerStep(r, n)
  \/ PoolStep

Spec == Init /\ [][Next]_vars

-----------------------------------------------------------------------------
(* Properties *)

\* Every variable keeps its type.
TypeOK ==
  /\ PoolTypeOK
  /\ pc \in [Requests -> Pcs]
  /\ order \in [Requests -> Seq(1..made)]
  /\ idx \in [Requests -> Nat \ {0}]
  /\ cur \in [Requests -> 0..made]
  /\ acquired \in [Requests -> Seq(1..made)]
  /\ throttled \in [Requests -> 0..made]
  /\ worker \in [Requests -> [Nodes -> Stages]]
  /\ answer \in [Requests -> [Nodes -> NodeStatus]]
  /\ ch \in [Requests -> Seq(NodeStatus)]
  /\ result \in [Requests -> Results]
  /\ cancelled \in [Requests -> BOOLEAN]

Holds(r, n) ==
  \/ cur[r] = n /\ pc[r] \in {"limit", "waitLimit", "admit", "exec", "release"}
  \/ cur[r] = n /\ pc[r] = "waiting" /\ ~Queued(n, r)
  \/ \E i \in DOMAIN acquired[r] : acquired[r][i] = n
  \/ worker[r][n] \in {"admit", "exec", "send", "release"}

\* Every slot a request has taken is owned by the request or by one of its
\* workers until it is given back, also after Execute returned on the first
\* success: the slots a semaphore counts are those that are owned.
SlotsMatchHolders ==
  \A n \in 1..made : semSize[n] > 0 =>
    /\ inUse[n] = Cardinality({r \in Requests : Holds(r, n)})
    /\ inUse[n] <= semSize[n]

\* As long as the caller's context is not done, a race is lost only when every
\* candidate has failed: a success or business error that some worker got is
\* received before the channel is seen closed.
FailMeansAllFailed ==
  \A r \in Requests : result[r] = "failed" /\ ~cancelled[r] =>
    \A n \in 1..made : worker[r][n] # "none" => answer[r][n] = NodeStatusFail

\* At most Concurrency nodes execute a request, and none a request that was
\* turned away as throttled.
RaceIsBounded ==
  \A r \in Requests :
    /\ Concurrency > 0 => Cardinality({n \in Nodes : worker[r][n] # "none"}) <= Concurrency
    /\ result[r] = "allThrottled" => \A n \in Nodes : worker[r][n] = "none"

Returned ==
  \A r \in Requests : pc[r] # "idle" =>
    pc[r] = "done" /\ \A n \in Nodes : worker[r][n] \in {"none", "done"}

\* As long as no caller gives up, a circuit opens only on failures of the node
\* itself.
HealthyStaysClosed ==
  (\A r \in Requests : ~cancelled[r]) =>
    \A n \in 1..made : n \notin Faulty => state[n] = circuitClosed
=============================================================================
