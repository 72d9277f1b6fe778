---------------------------- MODULE RequestPool -----------------------------
(***************************************************************************)
(* provider/requestPool/server.go: a pool of points (endpoints), each with *)
(* worker goroutines that take requests from their point's channel or from *)
(* the global one.  A failed request is redirected to another point, or put *)
(* back; RequestMulti waits until its whole group has results.             *)
(*                                                                         *)
(* The critical sections of a handler, one after the other, are one step,  *)
(* except the scan of redirectRequest, which holds pool.mu while it reads needClose and    *)
(* then sends, with Point.Close free to run between the two.  The order of *)
(* pointSort by score, the cooldown of adjustGoroutine and the passing of  *)
(* time are nondeterministic.                                              *)
(***************************************************************************)
EXTENDS Integers, Sequences, FiniteSets, TLC

CONSTANTS
  Points,            \* every point that ever exists, named by its id
  InitialPoints,     \* the points given to NewPool
  Groups,            \* calls of RequestMulti
  Requests,          \* Requests[g]: the set of requests of the call
  RetryNum,          \* RetryNum[r]; 0 asks for the default
  MaxConcurrency,    \* workers a point may have registered
  WorkerIds,         \* goroutines it may have at once, those about to end included
  DefaultConcurrency, MaxRetryAttempts, MaxFailureCount,
  SuccessThreshold, FailureThreshold,
  PoolBuffer,        \* capacity of pool.requestChan
  PointBuffer        \* capacity of point.requestChan

VARIABLES
  manage,            \* pointManage: the ids in it
  pointSort,         \* the points in it; their order is left open
  poolChan,          \* pool.requestChan
  poolMu,            \* who holds pool.mu between steps, and for which send: none or one
  results,           \* resultMap: results[g][r], the request and whether it succeeded
  notified,          \* the groups whose notifyChan is closed
  call,              \* call[g]: state of RequestMulti
  left,              \* left[g]: the messages it has still to enqueue
  pointChan,         \* point.requestChan
  closed,            \* the points with needClose set and requestChan closed
  routines,          \* point.routines: the registered workers
  stats,             \* stats[p]: streaks and failureCount
  backoff,           \* the points whose backoffTime is in the future
  wpc,               \* wpc[w]: where a worker is
  wreq,              \* wreq[w]: the request in its hands
  told               \* the workers whose closeChan is closed

poolVars == <<manage, pointSort, poolChan, poolMu, results, notified>>
callVars == <<call, left>>
pointVars == <<pointChan, closed, routines, stats, backoff>>
workerVars == <<wpc, wreq, told>>
vars == <<poolVars, callVars, pointVars, workerVars>>

Workers == Points \X WorkerIds
All == UNION {Requests[g] : g \in Groups}
GroupOf(r) == CHOOSE g \in Groups : r \in Requests[g]
\* What a receive from a closed and drained channel gives.
Zero == [id |-> "zero", errorNum |-> 0, errorUrls |-> {}, retry |-> 0]
Message(r, n) == [id |-> r, errorNum |-> 0, errorUrls |-> {}, retry |-> n]
Defaults == {ids \in SUBSET WorkerIds : Cardinality(ids) = DefaultConcurrency}
OfPoint(p) == {w \in Workers : w[1] = p}

\* NewPool: DefaultConcurrency goroutines per point, no order of points yet.
Init ==
  /\ manage = InitialPoints /\ pointSort = {}
  /\ poolChan = <<>> /\ poolMu = {}
  /\ results = <<>> /\ notified = {}
  /\ call = [g \in Groups |-> "idle"] /\ left = [g \in Groups |-> {}]
  /\ pointChan = [p \in Points |-> <<>>]
  /\ closed = {} /\ backoff = {}
  /\ routines = [p \in Points |-> {}]
  /\ stats = [p \in Points |-> [successes |-> 0, failures |-> 0, count |-> 0]]
  /\ \E ids \in Defaults :
       wpc = [w \in Workers |-> IF w[1] \in InitialPoints /\ w[2] \in ids THEN "new" ELSE "off"]
  /\ wreq = [w \in Workers |-> Zero]
  /\ told = {}

Free == poolMu = {}
Goto(w, pc) == wpc' = [wpc EXCEPT ![w] = pc]
Drop(w) == wreq' = [wreq EXCEPT ![w] = Zero]

-----------------------------------------------------------------------------
(* RequestMulti *)

\* Register the group and prepare its messages.
Begin(g) ==
  /\ call[g] = "idle" /\ Free
  /\ call' = [call EXCEPT ![g] = "send"]
  /\ left' = [left EXCEPT ![g] =
       {Message(r, IF RetryNum[r] = 0 THEN Cardinality(manage) * MaxRetryAttempts
                   ELSE RetryNum[r]) : r \in Requests[g]}]
  /\ results' = [h \in DOMAIN results \cup {g} |-> IF h = g THEN <<>> ELSE results[h]]
  /\ UNCHANGED <<manage, pointSort, poolChan, poolMu, notified, pointVars, workerVars>>

\* Mutant: the channel is taken to have room.
EnqueueFull(g) ==
  /\ call[g] = "send"
  /\ \/ /\ \E m \in left[g] : /\ left' = [left EXCEPT ![g] = @ \ {m}]
                              /\ poolChan' = Append(poolChan, m)
        /\ UNCHANGED call
     \/ left[g] = {} /\ call' = [call EXCEPT ![g] = "wait"] /\ UNCHANGED <<left, poolChan>>
  /\ UNCHANGED <<manage, pointSort, poolMu, results, notified, pointVars, workerVars>>

\* The loop that fills the global channel.
Enqueue(g) ==
  /\ call[g] = "send"
  /\ \/ /\ Len(poolChan) < PoolBuffer
        /\ \E m \in left[g] : /\ left' = [left EXCEPT ![g] = @ \ {m}]
                              /\ poolChan' = Append(poolChan, m)
        /\ UNCHANGED call
     \/ left[g] = {} /\ call' = [call EXCEPT ![g] = "wait"] /\ UNCHANGED <<left, poolChan>>
  /\ UNCHANGED <<manage, pointSort, poolMu, results, notified, pointVars, workerVars>>

\* The deferred clean-up, with the result of the call.
Return(g, outcome) ==
  /\ Free
  /\ call' = [call EXCEPT ![g] = outcome]
  /\ results' = [h \in DOMAIN results \ {g} |-> results[h]]
  /\ notified' = notified \cup {g}
  /\ UNCHANGED <<manage, pointSort, poolChan, poolMu, left, pointVars, workerVars>>

\* The notification: the first error among the results is the call's error.
Notified(g) ==
  /\ call[g] = "wait" /\ g \in notified
  /\ Return(g, IF \E r \in DOMAIN results[g] : ~ results[g][r].ok THEN "error" ELSE "ok")

Cancelled(g) == call[g] = "wait" /\ Return(g, "cancelled")

-----------------------------------------------------------------------------
(* The loop of startWorker *)

Start(w) ==
  /\ wpc[w] = "new" /\ Goto(w, "top")
  /\ routines' = [routines EXCEPT ![w[1]] = @ \cup {w}]
  /\ UNCHANGED <<poolVars, callVars, pointChan, closed, stats, backoff, wreq, told>>

\* The deferred delete of the routine.
Exit(w) ==
  /\ Goto(w, "off") /\ told' = told \ {w}
  /\ routines' = [routines EXCEPT ![w[1]] = @ \ {w}]

\* Take the next request of the point; a closed, empty channel gives Zero.
TakeOwn(w) ==
  LET q == pointChan[w[1]] IN
  /\ Goto(w, "handle")
  /\ wreq' = [wreq EXCEPT ![w] = IF q = <<>> THEN Zero ELSE Head(q)]
  /\ pointChan' = [pointChan EXCEPT ![w[1]] = IF q = <<>> THEN q ELSE Tail(q)]

\* The checks at the top of the loop, in their order.
Top(w) ==
  LET p == w[1] IN
  /\ wpc[w] = "top"
  /\ CASE p \in closed -> Goto(w, "drain") /\ UNCHANGED <<wreq, told, routines, pointChan>>
       [] p \notin closed /\ w \in told -> Exit(w) /\ UNCHANGED <<wreq, pointChan>>
       [] p \notin closed /\ w \notin told /\ pointChan[p] # <<>> ->
            TakeOwn(w) /\ UNCHANGED <<told, routines>>
       [] OTHER -> Goto(w, "select") /\ UNCHANGED <<wreq, told, routines, pointChan>>
  /\ UNCHANGED <<poolVars, callVars, closed, stats, backoff>>

\* The blocking select.  closeChan is closed by the worker itself, which then
\* sees it at the top of the loop: the case of the select is never ready.
Select(w) ==
  LET p == w[1] IN
  /\ wpc[w] = "select"
  /\ \/ (pointChan[p] # <<>> \/ p \in closed) /\ TakeOwn(w) /\ UNCHANGED poolChan
     \/ /\ poolChan # <<>> /\ Goto(w, "handle")
        /\ wreq' = [wreq EXCEPT ![w] = Head(poolChan)] /\ poolChan' = Tail(poolChan)
        /\ UNCHANGED pointChan
  /\ UNCHANGED <<manage, pointSort, poolMu, results, notified, callVars, closed, routines, stats, backoff, told>>


\* The loop over a closed channel gives its requests back to the global one.
Drain(w) ==
  LET p == w[1] IN
  /\ wpc[w] = "drain"
  /\ \/ /\ pointChan[p] # <<>> /\ Len(poolChan) < PoolBuffer
        /\ poolChan' = Append(poolChan, Head(pointChan[p]))
        /\ pointChan' = [pointChan EXCEPT ![p] = Tail(@)]
        /\ UNCHANGED <<wpc, told, routines>>
     \/ pointChan[p] = <<>> /\ Exit(w) /\ UNCHANGED <<poolChan, pointChan>>
  /\ UNCHANGED <<manage, pointSort, poolMu, results, notified, callVars, closed, stats, backoff, wreq>>

-----------------------------------------------------------------------------
(* Handling of one request *)

\* handleRequestWithBackoff and the look at resultMap of handleRequest.
Handle(w) ==
  /\ wpc[w] = "handle"
  /\ \/ w[1] \in backoff /\ Goto(w, "redirect-sleep") /\ UNCHANGED wreq
     \/ /\ w[1] \notin backoff /\ Free
        /\ IF \E g \in DOMAIN results : wreq[w].id \in Requests[g]
           THEN Goto(w, "doing") /\ UNCHANGED wreq ELSE Goto(w, "top") /\ Drop(w)
  /\ UNCHANGED <<poolVars, callVars, pointVars, told>>

\* CheckJson: a status of success and a JSON body.
CheckJson(t) == t.status \in 200 .. 299 /\ t.json

\* RetryCheckFunc for a pool of type RPC.  A null result is an error, except
\* from a host that answers so; error codes of overload and quota are errors.
RetryCheckFunc(t) ==
  /\ t.result # "absent" \/ t.error
  /\ t.result = "null" => t.nullHost
  /\ ~ t.result = "null" /\ t.error => t.code \notin {-28, -32090} /\ ~ t.limited

\* DoRequest: the transport, the two checks and the caller's retry functions.
DoRequest(t) == ~ t.failed /\ CheckJson(t) /\ RetryCheckFunc(t)

Answers ==
  [failed : BOOLEAN, status : {200, 299, 300}, json : BOOLEAN, result : {"absent", "null", "value"},
   error : BOOLEAN, code : {-28, -32090, 0}, limited : BOOLEAN, nullHost : BOOLEAN]

Accepted == {t \in Answers : DoRequest(t)}

Least(a, b) == IF a <= b THEN a ELSE b

\* Mutant: any result completes the group.
CompleteAtFirst(g, res) == res # <<>>

\* Every request of the group has a result.
Complete(g, res) == Cardinality(DOMAIN res) = Cardinality(Requests[g])

\* saveAndNotify: nothing for a group that has returned; the last result of a
\* group closes its notifyChan.
saveAndNotify(m, ok) ==
  LET g == GroupOf(m.id)
      res == (m.id :> [req |-> m, ok |-> ok]) @@ results[g]
  IN  IF g \notin DOMAIN results THEN UNCHANGED <<results, notified>>
      ELSE /\ results' = [results EXCEPT ![g] = res]
           /\ notified' = IF Complete(g, res) THEN notified \cup {g} ELSE notified

\* Mutant: the last worker may end too.
MayEndAny(p) == Cardinality(routines[p]) >= 1

\* A worker of the point may end.
MayEnd(p) == Cardinality(routines[p]) > 1

\* adjustGoroutine(true): a streak of successes adds a worker, unless within
\* the cooldown.  The worker goes on.
Grow(w, s) ==
  LET p == w[1] IN
  \/ Goto(w, "top") /\ stats' = [stats EXCEPT ![p] = s]
  \/ /\ s.successes >= SuccessThreshold /\ Cardinality(routines[p]) < MaxConcurrency
     /\ \E v \in OfPoint(p) : wpc[v] = "off" /\ wpc' = [wpc EXCEPT ![w] = "top", ![v] = "new"]
     /\ stats' = [stats EXCEPT ![p] = [s EXCEPT !.successes = 0]]

\* adjustGoroutine(false): a streak of failures tells this worker to end, unless
\* it is the last or within the cooldown.
Shrink(w, s) ==
  LET p == w[1] IN
  /\ Goto(w, "top")
  /\ \/ stats' = [stats EXCEPT ![p] = s] /\ UNCHANGED <<routines, told>>
     \/ /\ s.failures >= FailureThreshold /\ MayEnd(p)
        /\ routines' = [routines EXCEPT ![p] = @ \ {w}] /\ told' = told \cup {w}
        /\ stats' = [stats EXCEPT ![p] = [s EXCEPT !.failures = 0]]

\* handleSuccessRequest.
Succeed(w) ==
  /\ wpc[w] = "doing" /\ Accepted # {} /\ Free
  /\ saveAndNotify(wreq[w], TRUE) /\ Drop(w)
  /\ Grow(w, [stats[w[1]] EXCEPT !.successes = Least(@ + 1, SuccessThreshold), !.failures = 0])
  /\ UNCHANGED <<manage, pointSort, poolChan, poolMu, callVars, pointChan, closed, routines, backoff, told>>

\* Mutant: one retry too many.
GiveUpLate(m) == m.retry > 0 /\ m.errorNum > m.retry + 1

\* The request has had all its retries.
GiveUp(m) == m.retry > 0 /\ m.errorNum > m.retry

\* handleErrorRequest: count the error, back the point off; give the request up,
\* or redirect it, with adjustGoroutine(false) at the end of either.
Fail(w) ==
  LET p == w[1]
      m == [wreq[w] EXCEPT !.errorNum = @ + 1, !.errorUrls = @ \cup {p}]
      s == [successes |-> 0, failures |-> Least(stats[p].failures + 1, FailureThreshold),
            count |-> (stats[p].count + 1) % MaxFailureCount]
  IN
  /\ wpc[w] = "doing" /\ Answers \ Accepted # {}
  /\ backoff' = IF s.count = 0 THEN backoff \cup {p} ELSE backoff
  /\ \/ GiveUp(m) /\ Free /\ saveAndNotify(m, FALSE) /\ Drop(w) /\ Shrink(w, s)
     \/ /\ ~ GiveUp(m) /\ Goto(w, "redirect-adjust")
        /\ wreq' = [wreq EXCEPT ![w] = m] /\ stats' = [stats EXCEPT ![p] = s]
        /\ UNCHANGED <<results, notified, routines, told>>
  /\ UNCHANGED <<manage, pointSort, poolChan, poolMu, callVars, pointChan, closed>>

-----------------------------------------------------------------------------
(* redirectRequest *)

Then(w, step) == step \o (IF wpc[w] \in {"redirect-sleep", "send-sleep"} THEN "-sleep" ELSE "-adjust")

\* What follows: the sleep of the backoff, or adjustGoroutine(false).
AfterRedirect(w) ==
  /\ Drop(w)
  /\ \/ /\ wpc[w] \in {"send-sleep", "requeue-sleep"} /\ Goto(w, "sleep")
        /\ UNCHANGED <<stats, routines, told>>
     \/ wpc[w] \in {"send-adjust", "requeue-adjust"} /\ Shrink(w, stats[w[1]])

\* The points of pointSort that may take the request.
Candidates(w) ==
  {p \in pointSort \ {w[1]} :
     p \notin wreq[w].errorUrls /\ p \notin closed /\ Len(pointChan[p]) < Cardinality(routines[p])}

\* The scan, under pool.mu: stop at a candidate, or find none.
Redirect(w) ==
  /\ wpc[w] \in {"redirect-sleep", "redirect-adjust"} /\ Free
  /\ \/ Candidates(w) = {} /\ Goto(w, Then(w, "requeue")) /\ UNCHANGED poolMu
     \/ \E p \in Candidates(w) : poolMu' = {<<w, p>>} /\ Goto(w, Then(w, "send"))
  /\ UNCHANGED <<manage, pointSort, poolChan, results, notified, callVars, pointVars, wreq, told>>

\* The send to the candidate.  It panics on a channel closed since, and leaves
\* pool.mu locked.  The default case, for a full channel, is left out: a
\* candidate's channel holds fewer requests than it has workers.
Send(w) ==
  /\ wpc[w] \in {"send-sleep", "send-adjust"}
  /\ \E p \in Points :
       /\ <<w, p>> \in poolMu
       /\ \/ /\ p \in closed /\ Goto(w, "panicked")
             /\ routines' = [routines EXCEPT ![w[1]] = @ \ {w}]
             /\ UNCHANGED <<poolMu, pointChan, wreq, stats, told>>
          \/ /\ p \notin closed /\ Len(pointChan[p]) < PointBuffer
             /\ pointChan' = [pointChan EXCEPT ![p] = Append(@, wreq[w])]
             /\ poolMu' = {} /\ AfterRedirect(w)
  /\ UNCHANGED <<manage, pointSort, poolChan, results, notified, callVars, closed, backoff>>

\* Back into the worker's own channel, or the global one if the point is
\* closed, under point.mu, with the record of failed points cleared.
Requeue(w) ==
  LET p == w[1]
      m == [wreq[w] EXCEPT !.errorUrls = {}]
  IN
  /\ wpc[w] \in {"requeue-sleep", "requeue-adjust"}
  /\ \/ p \in closed /\ Len(poolChan) < PoolBuffer /\ poolChan' = Append(poolChan, m) /\ UNCHANGED pointChan
     \/ /\ p \notin closed /\ Len(pointChan[p]) < PointBuffer
        /\ pointChan' = [pointChan EXCEPT ![p] = Append(@, m)] /\ UNCHANGED poolChan
  /\ AfterRedirect(w)
  /\ UNCHANGED <<manage, pointSort, poolMu, results, notified, callVars, closed, backoff>>

\* The end of the sleep of handleRequestWithBackoff.
Wake(w) ==
  /\ wpc[w] = "sleep" /\ w[1] \notin backoff
  /\ Goto(w, "top")
  /\ UNCHANGED <<poolVars, callVars, pointVars, wreq, told>>

BackoffOver(p) ==
  /\ p \in backoff /\ backoff' = backoff \ {p}
  /\ UNCHANGED <<poolVars, callVars, pointChan, closed, routines, stats, workerVars>>

-----------------------------------------------------------------------------
(* CheckStatus and UpdatePoints *)

\* The sort ticker: the open points, in some order of their scores.
Sort ==
  /\ Free
  /\ pointSort' = manage \ closed
  /\ UNCHANGED <<manage, poolChan, poolMu, results, notified, callVars, pointVars, workerVars>>

\* UpdatePoints adds a point and its goroutines,
AddPoint(p) ==
  /\ p \notin manage /\ p \notin closed /\ Free
  /\ manage' = manage \cup {p}
  /\ \E ids \in Defaults :
       wpc' = [w \in Workers |-> IF w[1] = p /\ w[2] \in ids THEN "new" ELSE wpc[w]]
  /\ UNCHANGED <<pointSort, poolChan, poolMu, results, notified, callVars, pointVars, wreq, told>>

\* closes a point that is no longer configured (at least one is),
ClosePoint(p) ==
  /\ p \in manage \ closed /\ manage \ closed # {p}
  /\ closed' = closed \cup {p}
  /\ UNCHANGED <<poolVars, callVars, pointChan, routines, stats, backoff, workerVars>>

\* and deletes it.
DeletePoint(p) ==
  /\ p \in manage \cap closed /\ Free
  /\ manage' = manage \ {p}
  /\ UNCHANGED <<pointSort, poolChan, poolMu, results, notified, callVars, pointVars, workerVars>>

-----------------------------------------------------------------------------

WorkerStep(w) ==
  \/ Start(w) \/ Top(w) \/ Select(w) \/ Drain(w) \/ Handle(w) \/ Succeed(w) \/ Fail(w)
  \/ Redirect(w) \/ Send(w) \/ Requeue(w) \/ Wake(w)

CallStep(g) == Enqueue(g) \/ Notified(g)

Update == \E p \in Points : AddPoint(p) \/ ClosePoint(p) \/ DeletePoint(p)

\* A send on a closed channel leaves pool.mu locked: the model ends there.
Panicked == \E w \in Workers : wpc[w] = "panicked"

Next ==
  /\ ~ Panicked
  /\ \/ \E g \in Groups : Begin(g) \/ CallStep(g) \/ Cancelled(g)
     \/ \E w \in Workers : WorkerStep(w)
     \/ \E p \in Points : BackoffOver(p)
     \/ Sort \/ Update

Spec == Init /\ [][Next]_vars

-----------------------------------------------------------------------------
(* Properties *)

InHand ==
  {"handle", "doing", "redirect-sleep", "redirect-adjust", "send-sleep", "send-adjust", "requeue-sleep",
   "requeue-adjust", "panicked"}
Staffed == {p \in Points : \E w \in OfPoint(p) : wpc[w] # "off"}
Positions(q, r) == {i \in DOMAIN q : q[i].id = r}

\* The variables keep their types, and the channels their capacities.
TypeOK ==
  /\ manage \subseteq Points /\ closed \subseteq Points /\ backoff \subseteq Points
  /\ pointSort \subseteq Points
  /\ Len(poolChan) <= PoolBuffer /\ \A p \in Points : Len(pointChan[p]) <= PointBuffer
  /\ Cardinality(poolMu) <= 1 /\ DOMAIN results \subseteq Groups /\ notified \subseteq Groups
  /\ call \in [Groups -> {"idle", "send", "wait", "ok", "error", "cancelled"}]
  /\ \A p \in Points : routines[p] \subseteq OfPoint(p)
  /\ wpc \in [Workers -> InHand \cup {"off", "new", "top", "select", "drain", "sleep"}]
  /\ told \subseteq Workers


\* A request is given up exactly after its last retry, wherever it was tried.
RetriesSpent ==
  \A g \in DOMAIN results : \A r \in DOMAIN results[g] :
    LET m == results[g][r].req IN m.errorNum <= m.retry + 1 /\ (~ results[g][r].ok => m.errorNum = m.retry + 1)

\* notifyChan wakes RequestMulti only when the whole group has results.
NotifiedIsComplete == \A g \in notified \cap DOMAIN results : DOMAIN results[g] = Requests[g]

\* Both: a result is final, and a call that is woken finds all of its own.
ResultsAreFinal == RetriesSpent /\ NotifiedIsComplete

\* However many failures shrink it, an open point keeps a worker that goes on
\* (a worker may still die in a send on a closed channel).
PointKeepsWorker ==
  \A p \in manage \ closed : \E w \in OfPoint(p) : wpc[w] # "off" /\ w \notin told

Returned == Panicked \/ \A g \in Groups : call[g] \in {"idle", "ok", "error", "cancelled"}
=============================================================================
