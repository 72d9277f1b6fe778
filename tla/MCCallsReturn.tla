---------------------------- MODULE MCCallsReturn ----------------------------
(* Calls that wait for others come back: a race limited to one node at a time
   over two nodes, the conservative strategy on one node, both with
   WaitOnThrottle and token buckets, and RequestMulti on the request pool; each
   in behaviours of its own. *)
EXTENDS Race, TLC

CONSTANTS
  p1, p2, g1, q1, k1,
  MaxRetries, SilentFailures, Patience,
  Points, InitialPoints, Groups, Calls, RetryNum, MaxConcurrency, WorkerIds, DefaultConcurrency,
  MaxRetryAttempts, MaxFailureCount, PoolBuffer, PointBuffer

VARIABLES
  part,              \* "race", "conservative", "dispatch"
  round, anyAttempted, waited, status, lastErr, execs,
  manage, pointSort, poolChan, poolMu, results, notified, call, left, pointChan, closed, routines,
  stats, backoff, wpc, wreq, told

conservativeOnly == <<round, anyAttempted, waited, status, lastErr, execs>>
raceOnly == <<acquired, worker, answer, ch>>
dispatch ==
  <<manage, pointSort, poolChan, poolMu, results, notified, call, left, pointChan, closed, routines,
    stats, backoff, wpc, wreq, told>>
everything == <<part, vars, conservativeOnly, dispatch>>

Cfg(e, l) == [endpoint |-> e, weight |-> 1, maxConcurrent |-> l]
OneOrTwoNodes == {<<Cfg("a", 1)>>, <<Cfg("a", 1), Cfg("b", 1)>>}
NoLists == {}
MCCalls == g1 :> {q1}
MCRetryNum == q1 :> 0

C == INSTANCE Conservative WITH FailureThreshold <- Patience
D == INSTANCE RequestPool WITH Requests <- Calls

ReturnsInit ==
  /\ D!Init
  /\ \/ /\ part \in {"race", "dispatch"} /\ Init
        /\ made = IF part = "race" THEN 2 ELSE 1
        /\ round = {} /\ anyAttempted = {} /\ waited = {} /\ status = {} /\ lastErr = {} /\ execs = {}
     \/ /\ part = "conservative" /\ C!Init /\ made = 1
        /\ acquired = {} /\ worker = {} /\ answer = {} /\ ch = {}

InRace(A) == part = "race" /\ A /\ UNCHANGED <<part, conservativeOnly, dispatch>>
InConservative(A) == part = "conservative" /\ A /\ UNCHANGED <<part, raceOnly, dispatch>>
InDispatch(A) == part = "dispatch" /\ A /\ UNCHANGED <<part, vars, conservativeOnly>>

ReturnsNext == InRace(Next) \/ InConservative(C!Next) \/ InDispatch(D!Next)

\* A goroutine that can move does, a transport call returns, a backoff passes;
\* callers need not come, and nothing forces the clock or ends a context.
ReturnsSpec ==
  /\ ReturnsInit /\ [][ReturnsNext]_everything
  /\ \A r \in Requests : WF_everything(InRace(Step(r)))
  /\ \A r \in Requests, n \in Nodes : WF_everything(InRace(WorkerStep(r, n)))
  /\ \A r \in Requests : WF_everything(InConservative(C!Step(r)))
  /\ \A g \in Groups : WF_everything(InDispatch(~ D!Panicked /\ D!CallStep(g)))
  /\ \A w \in D!Workers : WF_everything(InDispatch(~ D!Panicked /\ D!WorkerStep(w)))
  /\ \A p \in Points : WF_everything(InDispatch(~ D!Panicked /\ D!BackoffOver(p)))

-----------------------------------------------------------------------------
\* Every variable keeps its type.
TypesOK ==
  /\ part = "race" => TypeOK
  /\ part = "conservative" => C!TypeOK
  /\ part = "dispatch" => D!TypeOK


\* Every call that was begun returns: Execute of Race, with all its workers ended,
\* and Execute of Conservative, also when they wait for a slot, and RequestMulti
\* without the help of its context, unless a worker died in a send on a closed
\* channel with pool.mu locked.  A call is begun once, so that no call is pending
\* again and again says so.
AllCallsReturn ==
  []<>( /\ part = "race" => Returned
        /\ part = "conservative" => C!Returned
        /\ part = "dispatch" => D!Returned )
=============================================================================
