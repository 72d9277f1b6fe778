--------------------------- MODULE MCConcurrency ----------------------------
(* The helpers that goroutines share: SafeChan with four senders and two closers,
   SingleRun with nested calls over two keys, ConcurrentProcessor, AsyncSender,
   the scheduler, OrderedMap, the scan of a cluster's keys and the crash
   reporter; each in behaviours of its own, the others unchanged. *)
EXTENDS SafeChan, TLC

CONSTANTS
  s1, s2, s3, s4,
  Goroutines, Keys, Waits, Inside, Detached, MaxCalls, MaxDepth, j1, j2, g1, g2, g3,
  Workers, Items,
  Calls, Content, Null, a1, a2, a3, Alert,
  Names, MaxJobs, None,
  Keys_, Values_, Walkers, MaxElements,
  Shards, Pages, Slots,
  Instances, Pids, MaxEnds

VARIABLES
  part,
  stack, ctx, calls, IsRunning, stray,
  handed, semaphore, shut, work, dead, fate, cancelled, pc,
  at, queue, held, step, enabled, cache, copies,
  entries, jobs, owner, running, orphans, op,
  list, pair, elements, walk, seen, shot, map, order,
  shard, cursor, keys, sem, errChan, ended, iterErr, result,
  starts, filePid, suffix, dumps, reported, where, pid, mine, todo, cur, refused, ends

S == INSTANCE SingleRun
P == INSTANCE Processor WITH sent <- handed, closed <- shut
A == INSTANCE AsyncSender
J == INSTANCE Scheduler
O == INSTANCE OrderedMap
R == INSTANCE RedisScan WITH pc <- shard, cancelled <- ended
C == INSTANCE CrashReporter WITH pc <- where

runVars == <<stack, ctx, calls, IsRunning, stray>>
processorVars == <<handed, semaphore, shut, work, dead, fate, cancelled, pc>>
alertVars == <<at, queue, held, step, enabled, cache, copies>>
jobVars == <<entries, jobs, owner, running, orphans, op>>
mapVars == <<list, pair, elements, walk, seen, shot, map, order>>
scanVars == <<shard, cursor, keys, sem, errChan, ended, iterErr, result>>
crashVars == <<starts, filePid, suffix, dumps, reported, where, pid, mine, todo, cur, refused, ends>>
everything == <<part, vars, runVars, processorVars, alertVars, jobVars, mapVars, scanVars, crashVars>>

MCMode == (s1 :> "send") @@ (s2 :> "send") @@ (s3 :> "timed") @@ (s4 :> "try")
\* Keys are asked for in one order: an f that runs for j1 may ask for j2.
Ordered == (j1 :> {j2}) @@ (j2 :> {})
\* g1 nests its calls, the others contend with it.
Quota == (g1 :> 3) @@ (g2 :> 1) @@ (g3 :> 1)
MCWaits == (g1 :> {"must"}) @@ (g2 :> {"no"}) @@ (g3 :> {"timed", "must"})
MCContent == (a1 :> Alert) @@ (a2 :> Alert) @@ (a3 :> Alert)

SharedInit ==
  /\ part \in {"chan", "run", "processor", "alerts", "jobs", "map", "scan", "crash"}
  /\ Init /\ S!Init /\ P!Init /\ A!Init /\ J!Init /\ O!Init /\ R!Init /\ C!Init
  /\ part # "alerts" => enabled

InChan(act) ==
  /\ part = "chan" /\ act
  /\ UNCHANGED <<part, runVars, processorVars, alertVars, jobVars, mapVars, scanVars, crashVars>>
InRun(act) ==
  /\ part = "run" /\ act
  /\ UNCHANGED <<part, vars, processorVars, alertVars, jobVars, mapVars, scanVars, crashVars>>
InProcessor(act) ==
  /\ part = "processor" /\ act
  /\ UNCHANGED <<part, vars, runVars, alertVars, jobVars, mapVars, scanVars, crashVars>>
InAlerts(act) ==
  /\ part = "alerts" /\ act
  /\ UNCHANGED <<part, vars, runVars, processorVars, jobVars, mapVars, scanVars, crashVars>>
InJobs(act) ==
  /\ part = "jobs" /\ act
  /\ UNCHANGED <<part, vars, runVars, processorVars, alertVars, mapVars, scanVars, crashVars>>
InMap(act) ==
  /\ part = "map" /\ act
  /\ UNCHANGED <<part, vars, runVars, processorVars, alertVars, jobVars, scanVars, crashVars>>
InScan(act) ==
  /\ part = "scan" /\ act
  /\ UNCHANGED <<part, vars, runVars, processorVars, alertVars, jobVars, mapVars, crashVars>>
InCrash(act) ==
  /\ part = "crash" /\ act
  /\ UNCHANGED <<part, vars, runVars, processorVars, alertVars, jobVars, mapVars, scanVars>>

SharedNext ==
  \/ InChan(Next) \/ InRun(S!Next) \/ InProcessor(P!Next) \/ InAlerts(A!Next)
  \/ InJobs(J!Next) \/ InMap(O!Next) \/ InScan(R!Next) \/ InCrash(C!Next)

\* Goroutines that can go on do: senders, closers and a receiver that keeps
\* receiving; the f of SingleRun returns and timers go off; processItem, the
\* robot's HTTP call and Redis return; processes are restarted and run on.
SharedSpec ==
  /\ SharedInit /\ [][SharedNext]_everything
  /\ \A s \in Senders : WF_everything(InChan(Select(s)))
  /\ \A c \in Closers : WF_everything(InChan(CloseStep(c)))
  /\ WF_everything(InChan(Receive))
  /\ \A g \in Goroutines :
       /\ WF_everything(InRun(S!Step(g))) /\ WF_everything(InRun(S!TimerStarts(g)))
       /\ WF_everything(InRun(S!TimerLocks(g)))
  /\ WF_everything(InProcessor(P!CallerStep))
  /\ \A w \in Workers : WF_everything(InProcessor(P!WorkerStep(w))) /\ WF_everything(InAlerts(A!WorkerStep(w)))
  /\ \A i \in A!Ids : WF_everything(InAlerts(A!Send(i)))
  /\ WF_everything(InScan(R!Return)) /\ \A s \in Shards : WF_everything(InScan(R!ShardStep(s)))
  /\ \A i \in Instances : WF_everything(InCrash(C!ReportStep(i)))

-----------------------------------------------------------------------------
\* Every variable keeps its type.
TypesOK ==
  /\ TypeOK
  /\ part = "run" => S!TypeOK
  /\ part = "processor" => P!TypeOK
  /\ part = "alerts" => A!TypeOK
  /\ part = "jobs" => J!TypeOK
  /\ part = "map" => O!TypeOK
  /\ part = "scan" => R!TypeOK
  /\ part = "crash" => C!TypeOK

\* SingleRun runs one f at a time for a key, unless an f handed on its ctx;
\* IsRunning says that exactly one call has claimed the key, through panics and
\* nested calls; and no call stays parked on a free key or after its time.
OneRunPerKey == part = "run" => S!OneInstance /\ S!RunningIsClaimed /\ S!NoLostWakeup

\* Work that fans out to goroutines comes back whole or with an error.  When
\* ConcurrentProcessor returns nothing runs, and every item was worked on unless
\* the context was cancelled or every goroutine died; ScanKeys returns every batch
\* of every master or an error.
ResultsComplete ==
  /\ part = "processor" => P!ReturnsComplete
  /\ part = "scan" => R!AllKeysOrError

\* An alert is suppressed only when one of the same content went out, and between
\* two expiries of its cache entry each goroutine of AsyncSender sends a content
\* at most once.
AlertsGoOutOnce == part = "alerts" => A!SuppressedWasDelivered /\ A!OneCopyPerWorker

\* The scheduler's map and gocron name the same jobs, at every moment of
\* ForceAddJob in one direction, between operations in both, save for replaced
\* jobs that gocron refused to remove.
MapIsRegistered == part = "jobs" => J!MapIsRegistered

\* OrderedMap's list and index are one map, in the order of first insertion, and
\* Each walks it as it was at one moment, whatever its callback changes.
ListIsMap == part = "map" => O!ListIsMap /\ O!WalkIsSnapshot

\* Everything that waits comes back: a Close of SafeChan while someone receives,
\* a SingleRun call with its nested ones, ConcurrentProcessor unless all its
\* goroutines died, an alert handed to Send unless all consumers died, ScanKeys
\* with more masters than slots.  And in the end every crash dump has been
\* reported, or the last start had it refused, or the process that runs has the
\* pid of the one that crashed.
NothingHangs ==
  /\ []<>( /\ part = "chan" => Returned
           /\ part = "run" => S!Returned
           /\ part = "processor" => P!Returned
           /\ part = "alerts" => A!Returned
           /\ part = "scan" => R!Returned )
  /\ <>[](part = "crash" => C!ReportedOrSamePid)
=============================================================================
