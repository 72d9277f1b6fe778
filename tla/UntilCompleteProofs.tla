------------------------- MODULE UntilCompleteProofs -------------------------
(* DoUntilComplete settles every request of a batch of any size. *)
EXTENDS UntilComplete, TLAPS

\* The context's error is stored only on the way out.
NoCtxErrorYet == pc # "done" => \A i \in Items : errs[i] # "ctx"

IInv == TypeOK /\ PendingIsUnanswered /\ BatchIsSettled /\ NoCtxErrorYet

\* Giving up settles exactly the requests that are pending.
LEMMA GiveUpOK ==
  ASSUME IInv, GiveUp, ctxDone, pc \in {"check", "backoff"}
  PROVE  IInv'
<1>1. pending = {i \in Items : ~Answered(i)} /\ \A i \in Items : errs[i] # "ctx"
  BY DEF IInv, PendingIsUnanswered, NoCtxErrorYet
<1>2. TypeOK'
  BY DEF IInv, TypeOK, GiveUp
<1>3. PendingIsUnanswered'
  BY DEF IInv, PendingIsUnanswered, GiveUp
<1>4. ASSUME NEW i \in Items
      PROVE  (Answered(i) <=> errs[i] # "ctx")' /\ (errs[i] = "ctx" => ctxDone)'
  BY <1>1 DEF GiveUp, Answered
<1> QED
  BY <1>2, <1>3, <1>4 DEF IInv, BatchIsSettled, NoCtxErrorYet, GiveUp

\* An answer moves one request from running to answered or to the next round.
LEMMA AnswerOK ==
  ASSUME IInv, NEW j \in Items, NEW s \in Statuses, Answer(j, s)
  PROVE  IInv'
<1>1. pc = "wait" /\ pc' = "wait" /\ j \in running /\ running' = running \ {j}
      /\ UNCHANGED <<round, pending, ctxDone>>
  BY DEF Answer
<1>2. \A i \in Items : errs[i] # "ctx"
  BY <1>1 DEF IInv, NoCtxErrorYet
<1>3. /\ running \cup nextPending = {i \in Items : ~Answered(i)}
      /\ running \cap nextPending = {}
      /\ responses \in [Items -> {"nil", "success", "bizError"}]
      /\ errs \in [Items -> {"nil", "biz", "ctx"}]
      /\ running \subseteq Items /\ nextPending \subseteq Items
  BY <1>1 DEF IInv, PendingIsUnanswered, TypeOK
<1>4. CASE nextPending' = nextPending \cup {j} /\ UNCHANGED <<responses, errs>>
  <2>1. running' \cup nextPending' = {i \in Items : ~Answered(i)'} /\ running' \cap nextPending' = {}
    BY <1>1, <1>3, <1>4 DEF Answered
  <2>2. TypeOK' /\ NoCtxErrorYet'
    BY <1>1, <1>2, <1>3, <1>4 DEF IInv, TypeOK, NoCtxErrorYet
  <2> QED
    BY <1>1, <2>1, <2>2 DEF IInv, PendingIsUnanswered, BatchIsSettled
<1>5. CASE \E v \in {"success", "bizError"}, e \in {"nil", "biz"} :
             /\ responses' = [responses EXCEPT ![j] = v]
             /\ errs' = errs \/ errs' = [errs EXCEPT ![j] = e]
             /\ UNCHANGED nextPending
  <2>1. PICK v \in {"success", "bizError"}, e \in {"nil", "biz"} :
             /\ responses' = [responses EXCEPT ![j] = v]
             /\ errs' = errs \/ errs' = [errs EXCEPT ![j] = e]
             /\ UNCHANGED nextPending
    BY <1>5
  <2>2. /\ responses' \in [Items -> {"nil", "success", "bizError"}]
        /\ errs' \in [Items -> {"nil", "biz", "ctx"}]
        /\ \A i \in Items : errs'[i] # "ctx"
    BY <1>2, <1>3, <2>1
  <2>3. \A i \in Items : Answered(i)' <=> (Answered(i) \/ i = j)
    BY <1>3, <2>1 DEF Answered
  <2>4. running' \cup nextPending' = {i \in Items : ~Answered(i)'} /\ running' \cap nextPending' = {}
    BY <1>1, <1>3, <2>1, <2>3
  <2>5. TypeOK' /\ NoCtxErrorYet'
    BY <1>1, <1>3, <2>1, <2>2 DEF IInv, TypeOK, NoCtxErrorYet
  <2> QED
    BY <1>1, <2>4, <2>5 DEF IInv, PendingIsUnanswered, BatchIsSettled
<1> QED
  BY <1>4, <1>5 DEF Answer, Statuses

\* The invariant is inductive.
LEMMA StepKeepsIInv ==
  ASSUME IInv, [Next]_vars
  PROVE  IInv'
<1> USE DEF IInv
<1>1. CASE Check
  <2>1. CASE pending # {} /\ ctxDone /\ GiveUp
    BY <1>1, <2>1, GiveUpOK DEF Check
  <2>2. CASE pending = {} /\ pc' = "done" /\ UNCHANGED <<round, pending, nextPending, running, responses, errs, ctxDone>>
    BY <1>1, <2>2 DEF Check, TypeOK, PendingIsUnanswered, BatchIsSettled, NoCtxErrorYet, Answered
  <2>3. CASE /\ pc' \in {"backoff", "dispatch"}
             /\ UNCHANGED <<round, pending, nextPending, running, responses, errs, ctxDone>>
    BY <1>1, <2>3 DEF Check, TypeOK, PendingIsUnanswered, BatchIsSettled, NoCtxErrorYet, Answered
  <2> QED
    BY <1>1, <2>1, <2>2, <2>3 DEF Check
<1>2. CASE Backoff
  <2>1. CASE ctxDone /\ GiveUp
    BY <1>2, <2>1, GiveUpOK DEF Backoff
  <2>2. CASE pc' = "dispatch" /\ UNCHANGED <<round, pending, nextPending, running, responses, errs, ctxDone>>
    BY <1>2, <2>2 DEF Backoff, TypeOK, PendingIsUnanswered, BatchIsSettled, NoCtxErrorYet, Answered
  <2> QED
    BY <1>2, <2>1, <2>2 DEF Backoff
<1>3. CASE Dispatch
  BY <1>3 DEF Dispatch, TypeOK, PendingIsUnanswered, BatchIsSettled, NoCtxErrorYet, Answered
<1>4. CASE Join
  <2>1. round' \in 0..MaxBackoff
    BY <1>4 DEF Join, TypeOK, MaxBackoff
  <2> QED
    BY <1>4, <2>1 DEF Join, TypeOK, PendingIsUnanswered, BatchIsSettled, NoCtxErrorYet, Answered
<1>5. ASSUME NEW i \in Items, NEW s \in Statuses, Answer(i, s)
      PROVE  IInv'
  BY <1>5, AnswerOK
<1>6. CASE Deadline
  BY <1>6 DEF Deadline, TypeOK, PendingIsUnanswered, BatchIsSettled, NoCtxErrorYet, Answered
<1>7. CASE UNCHANGED vars
  BY <1>7 DEF vars, TypeOK, PendingIsUnanswered, BatchIsSettled, NoCtxErrorYet, Answered
<1> QED
  BY <1>1, <1>2, <1>3, <1>4, <1>5, <1>6, <1>7 DEF Next, Step

\* The inductive invariant holds in every reachable state.
THEOREM Inductive == Spec => []IInv
<1>1. Init => IInv
  <2>1. Init => TypeOK
    <3>1. Init => round \in 0..MaxBackoff
      BY DEF Init, MaxBackoff
    <3>2. Init => /\ responses \in [Items -> {"nil", "success", "bizError"}]
                  /\ errs \in [Items -> {"nil", "biz", "ctx"}]
                  /\ ctxDone \in BOOLEAN
      BY DEF Init
    <3> QED
      BY <3>1, <3>2 DEF Init, TypeOK
  <2>2. Init => PendingIsUnanswered
    BY DEF Init, PendingIsUnanswered, Answered
  <2>3. Init => BatchIsSettled /\ NoCtxErrorYet
    BY DEF Init, BatchIsSettled, NoCtxErrorYet
  <2> QED
    BY <2>1, <2>2, <2>3 DEF IInv
<1>2. IInv /\ [Next]_vars => IInv'
  BY StepKeepsIInv
<1> QED
  BY <1>1, <1>2, PTL DEF Spec

\* For any batch a request is sent again exactly as long as it has no answer, and
\* on return every request has an answer or the context's error.
THEOREM BatchCorrect == Spec => []BatchHolds
<1>1. IInv => BatchHolds
  BY DEF IInv, BatchHolds
<1> QED
  BY <1>1, Inductive, PTL
=============================================================================
