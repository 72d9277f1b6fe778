---------------------------- MODULE UntilComplete ----------------------------
(***************************************************************************)
(* Pool.DoUntilComplete (provider/nodepool/pool.go): a batch of requests,  *)
(* sent in rounds of one goroutine per pending request, until each has an  *)
(* answer or the context is done.  doWithStatus is kept to its result: a   *)
(* status, at any time after the goroutine was started.                    *)
(***************************************************************************)
EXTENDS Integers, FiniteSets

CONSTANT Items       \* the indices of reqs

VARIABLES
  pc,                \* "check", "backoff", "dispatch", "wait", "done"
  round,             \* up to MaxBackoff, where the backoff stops growing
  pending,
  nextPending,
  running,           \* the indices whose goroutine runs
  responses,         \* by index: "nil" or what was stored last
  errs,
  ctxDone

vars == <<pc, round, pending, nextPending, running, responses, errs, ctxDone>>

MaxBackoff == 10     \* rounds of 500 ms that make the longest backoff, 5 s
Statuses   == {"success", "fail", "bizError"}

Init ==
  /\ pc = "check"
  /\ round = 0
  /\ pending = Items
  /\ nextPending = {}
  /\ running = {}
  /\ responses = [i \in Items |-> "nil"]
  /\ errs = [i \in Items |-> "nil"]
  /\ ctxDone = FALSE

\* Mutant: the context's error is given to the whole batch.
GiveUpAll ==
  /\ pc' = "done"
  /\ errs' = [i \in Items |-> "ctx"]
  /\ UNCHANGED <<round, pending, nextPending, running, responses, ctxDone>>

\* What is still pending gets the context's error.
GiveUp ==
  /\ pc' = "done"
  /\ errs' = [i \in Items |-> IF i \in pending THEN "ctx" ELSE errs[i]]
  /\ UNCHANGED <<round, pending, nextPending, running, responses, ctxDone>>

\* The head of the loop.
Check ==
  /\ pc = "check"
  /\ \/ /\ pending = {}
        /\ pc' = "done"
        /\ UNCHANGED <<round, pending, nextPending, running, responses, errs, ctxDone>>
     \/ pending # {} /\ ctxDone /\ GiveUp
     \/ /\ pending # {} /\ ~ctxDone
        /\ pc' = IF round > 0 THEN "backoff" ELSE "dispatch"
        /\ UNCHANGED <<round, pending, nextPending, running, responses, errs, ctxDone>>

\* The select between the timer and the context; when both are ready either
\* may be taken.
Backoff ==
  /\ pc = "backoff"
  /\ \/ ctxDone /\ GiveUp
     \/ /\ pc' = "dispatch"
        /\ UNCHANGED <<round, pending, nextPending, running, responses, errs, ctxDone>>

\* One goroutine per pending request.
Dispatch ==
  /\ pc = "dispatch"
  /\ pc' = "wait"
  /\ running' = pending
  /\ nextPending' = {}
  /\ UNCHANGED <<round, pending, responses, errs, ctxDone>>

\* Mutant: a business error is retried.
AnswerRetriesBiz(i, status) ==
  /\ pc = "wait"
  /\ i \in running
  /\ running' = running \ {i}
  /\ responses' = [responses EXCEPT ![i] = IF status = "fail" THEN @ ELSE status]
  /\ nextPending' = IF status = "success" THEN nextPending ELSE nextPending \cup {i}
  /\ UNCHANGED <<pc, round, pending, errs, ctxDone>>

\* A goroutine stores its answer; a business error may come with or without
\* an error value.
Answer(i, status) ==
  /\ pc = "wait"
  /\ i \in running
  /\ running' = running \ {i}
  /\ \/ /\ status = "success"
        /\ responses' = [responses EXCEPT ![i] = "success"]
        /\ UNCHANGED <<errs, nextPending>>
     \/ /\ status = "bizError"
        /\ responses' = [responses EXCEPT ![i] = "bizError"]
        /\ \E err \in {"nil", "biz"} : errs' = [errs EXCEPT ![i] = err]
        /\ UNCHANGED nextPending
     \/ /\ status = "fail"
        /\ nextPending' = nextPending \cup {i}
        /\ UNCHANGED <<responses, errs>>
  /\ UNCHANGED <<pc, round, pending, ctxDone>>

\* wg.Wait, and the next round.
Join ==
  /\ pc = "wait"
  /\ running = {}
  /\ pc' = "check"
  /\ pending' = nextPending
  /\ round' = IF round < MaxBackoff THEN round + 1 ELSE round
  /\ UNCHANGED <<nextPending, running, responses, errs, ctxDone>>

\* The deadline the caller has to set, or a cancellation.
Deadline ==
  /\ ~ctxDone /\ pc # "done"
  /\ ctxDone' = TRUE
  /\ UNCHANGED <<pc, round, pending, nextPending, running, responses, errs>>

Step == Check \/ Backoff \/ Dispatch \/ Join \/ \E i \in Items, s \in Statuses : Answer(i, s)

Next == Step \/ Deadline

Spec == Init /\ [][Next]_vars

-----------------------------------------------------------------------------
(* Properties *)

\* Every variable keeps its type.
TypeOK ==
  /\ pc \in {"check", "backoff", "dispatch", "wait", "done"}
  /\ round \in 0..MaxBackoff
  /\ pending \subseteq Items
  /\ nextPending \subseteq Items
  /\ running \subseteq Items
  /\ responses \in [Items -> {"nil", "success", "bizError"}]
  /\ errs \in [Items -> {"nil", "biz", "ctx"}]
  /\ ctxDone \in BOOLEAN

\* Whether a request has its final answer.
Answered(i) == responses[i] # "nil"

\* A request that has its answer is not sent again, and one that has none is
\* never dropped: at the head of the loop, during the backoff and before the
\* dispatch, pending is exactly the set of requests without one.
PendingIsUnanswered ==
  /\ pc \in {"check", "backoff", "dispatch"} => pending = {i \in Items : ~Answered(i)}
  /\ pc = "wait" => running \cup nextPending = {i \in Items : ~Answered(i)}
  /\ running \cap nextPending = {}

\* When DoUntilComplete returns, every request has an answer or the context's
\* error, never both and never neither, and the context's error only if the
\* context is done.
BatchIsSettled ==
  pc = "done" => \A i \in Items :
    /\ Answered(i) <=> errs[i] # "ctx"
    /\ errs[i] = "ctx" => ctxDone

\* Both: DoUntilComplete repeats what has no answer and nothing else, and settles
\* every request.
BatchHolds == PendingIsUnanswered /\ BatchIsSettled

Returned == pc = "done"
=============================================================================
