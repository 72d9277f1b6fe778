------------------------------ MODULE HttpChain ------------------------------
(* One request of the HTTP client (net/http: builder, chain, context,
   middleware) as nodepool's HTTP transport makes it (httpTransport): the
   middlewares around it, the attempts, the errors collected on the way and the
   judgement of the node that served it.

   A middleware is a function that may call Next; its two halves are the
   "before" and "after" of its frame on the stack, and Next is a frame too,
   the loop over the handlers that shares one index with every other loop.   *)
EXTENDS Integers, Sequences, FiniteSets

CONSTANTS Chains,      \* the middleware lists a builder may be given
          Inner,       \* the list a Compose puts together
          MaxRetries,  \* RetryMiddleware's maxRetries
          MaxInt8,     \* the largest int8, the type of Context.index
          Codes,       \* the status codes a server may answer with
          None         \* no response

VARIABLES chain,       \* the middlewares of the builder
          handlers,    \* Context.handlers
          index,       \* Context.index
          stack,       \* the frames of the call
          error,       \* Context.Error is set
          response,    \* Context.Response's status code
          got,         \* what each attempt brought, None for a transport error
          aborted,     \* the position whose middleware aborted, 0: none
          outcome      \* "running", "done" or "panic"; then the node's status

vars == <<chain, handlers, index, stack, error, response, got, aborted, outcome>>

(* Middlewares that only wrap the request: timing, logging, tracing, auth,
   headers, timeout.  "validate" may abort, "check" judges the response,
   "faulty" is a middleware of the user that may panic. *)
Kinds == {"log", "wrap", "recovery", "retry", "validate", "check", "faulty", "compose", "request"}
abortIndex == MaxInt8 \div 2

Call(k) == [k |-> k, at |-> "before", n |-> 0, saved |-> <<>>]
Top == stack[Len(stack)]
Pop == SubSeq(stack, 1, Len(stack) - 1)
Phase(at) == [stack EXCEPT ![Len(stack)].at = at]
Loop == Call("next")

TypeOK == /\ chain \in Chains
          /\ \A i \in DOMAIN stack : stack[i].k \in Kinds \cup {"next"} /\ stack[i].n \in 0 .. MaxRetries
          /\ index \in -1 .. MaxInt8
          /\ error \in BOOLEAN
          /\ response \in Codes \cup {None}
          /\ got \in Seq(Codes \cup {None})
          /\ aborted \in 0 .. MaxInt8
          /\ outcome \in {"running", "panic", "success", "fail", "biz"}

(* Execute and middlewareChain.execute: the log outermost, the request last. *)
Init == /\ chain \in Chains
        /\ handlers = <<"log">> \o chain \o <<"request">>
        /\ index = 0
        /\ stack = <<Loop>>
        /\ error = FALSE
        /\ response = None
        /\ got = <<>>
        /\ aborted = 0
        /\ outcome = "running"

Before(ks) == outcome = "running" /\ stack # <<>> /\ Top.k \in ks /\ Top.at = "before"
After(ks) == outcome = "running" /\ stack # <<>> /\ Top.k \in ks /\ Top.at = "after"

(* Mutant: a loop that does not end behind the last handler. *)
Next_Stuck ==
    /\ Before({"next"})
    /\ index < Len(handlers)
    /\ stack' = Append(stack, Call(handlers[index + 1]))
    /\ UNCHANGED <<chain, handlers, index, error, response, got, aborted, outcome>>

(* The loop of Next: call the handler at the index, or return. *)
Next_ ==
    /\ Before({"next"})
    /\ stack' = IF index < Len(handlers) THEN Append(stack, Call(handlers[index + 1])) ELSE Pop
    /\ UNCHANGED <<chain, handlers, index, error, response, got, aborted, outcome>>

(* The handler on top returns to its loop, which moves the index on. *)
Return(i) == stack' = Pop /\ index' = i + 1

(* A middleware calls Next. *)
CallNext ==
    /\ Before({"log", "wrap", "recovery", "retry", "check", "validate", "faulty"})
    /\ index' = index + 1
    /\ stack' = Append(Phase("after"), Loop)
    /\ UNCHANGED <<chain, handlers, error, response, got, aborted, outcome>>

(* Mutant: AbortWithError that only records the error. *)
AbortNot == Return(index)

Abort == Return(abortIndex)

(* URLValidation and RequestSizeLimit reject: AbortWithError. *)
AbortWithError ==
    /\ Before({"validate"})
    /\ error' = TRUE
    /\ aborted' = IF handlers # Inner THEN index ELSE aborted
    /\ Abort
    /\ UNCHANGED <<chain, handlers, response, got, outcome>>

(* Compose: run a list of its own on the same context, then put the list and
   the index back. *)
Compose ==
    \/ /\ Before({"compose"})
       /\ stack' = Append([stack EXCEPT ![Len(stack)].at = "after",
                                        ![Len(stack)].saved = [handlers |-> handlers, index |-> index]], Loop)
       /\ handlers' = Inner
       /\ index' = 0
       /\ UNCHANGED <<chain, error, response, got, aborted, outcome>>
    \/ /\ After({"compose"})
       /\ handlers' = Top.saved.handlers
       /\ Return(Top.saved.index)
       /\ UNCHANGED <<chain, error, response, got, aborted, outcome>>

(* client.Do: a transport error, or a response of some status. *)
Do(r) == /\ response' = r
         /\ got' = Append(got, r)

doRequestMiddleware ==
    /\ Before({"request"})
    /\ \E r \in Codes \cup {None} :
         /\ Do(r)
         /\ error' = (error \/ r = None)
    /\ Return(index)
    /\ UNCHANGED <<chain, handlers, aborted, outcome>>

(* Mutant: a check that runs before Next. *)
CheckEarly ==
    /\ After({"check"})
    /\ Return(index)
    /\ UNCHANGED <<chain, handlers, error, response, got, aborted, outcome>>

(* StatusCodeCheck and the other checks of the response. *)
Unexpected(r) == r # None /\ r \notin 200 .. 299
Check ==
    /\ After({"check"})
    /\ error' = (error \/ Unexpected(response))
    /\ Return(index)
    /\ UNCHANGED <<chain, handlers, response, got, aborted, outcome>>

ClientError(r) == r # None /\ r \in 400 .. 499

(* Mutant: an error is reason enough to try again. *)
NeedRetryOnError == error \/ (response # None /\ response >= 500)

NeedRetry == /\ error \/ (response # None /\ response >= 500)
             /\ ~ClientError(response)

(* Mutant: one attempt too many. *)
RetryOnceMore ==
    /\ After({"retry"})
    /\ IF Top.n <= MaxRetries /\ NeedRetry
       THEN /\ \E r \in Codes \cup {None} : Do(r) /\ error' = (r = None)
            /\ stack' = [stack EXCEPT ![Len(stack)].n = @ + 1]
            /\ UNCHANGED index
       ELSE Return(index) /\ UNCHANGED <<error, response, got>>
    /\ UNCHANGED <<chain, handlers, aborted, outcome>>

(* RetryMiddleware after Next: RetryRequest forgets the errors and sends the
   request again, without the middlewares inside. *)
Retry ==
    /\ After({"retry"})
    /\ IF Top.n < MaxRetries /\ NeedRetry
       THEN /\ \E r \in Codes \cup {None} : Do(r) /\ error' = (r = None)
            /\ stack' = [stack EXCEPT ![Len(stack)].n = @ + 1]
            /\ UNCHANGED index
       ELSE Return(index) /\ UNCHANGED <<error, response, got>>
    /\ UNCHANGED <<chain, handlers, aborted, outcome>>

Rest ==
    /\ After({"log", "wrap", "recovery", "validate", "faulty"})
    /\ Return(index)
    /\ UNCHANGED <<chain, handlers, error, response, got, aborted, outcome>>

(* A panic before Next: frames are dropped up to a RecoveryMiddleware, which
   records it and returns; its loop goes on behind the handler that panicked. *)
Panic ==
    /\ Before({"faulty"})
    /\ LET rs == {i \in DOMAIN stack : stack[i].k = "recovery"}
       IN IF rs = {}
          THEN outcome' = "panic" /\ UNCHANGED <<stack, index, error>>
          ELSE /\ stack' = SubSeq(stack, 1, (CHOOSE i \in rs : \A j \in rs : j <= i) - 1)
               /\ index' = index + 1
               /\ error' = TRUE
               /\ UNCHANGED outcome
    /\ UNCHANGED <<chain, handlers, response, got, aborted>>

FailCodes == {429}

(* Mutant: the status code is judged before the error. *)
ClassifyByCode == CASE response = None -> IF error THEN "biz" ELSE "success"
                    [] response \in FailCodes \/ response >= 500 -> "fail"
                    [] response >= 400 -> "biz"
                    [] OTHER -> "success"

(* Classify with the default rules; Execute of the transport hands over a
   response even when there was none. *)
Classify == CASE error -> "fail"
              [] response # None /\ (response \in FailCodes \/ response >= 500) -> "fail"
              [] response # None /\ response >= 400 -> "biz"
              [] OTHER -> "success"

buildNodepoolResponse ==
    /\ outcome = "running"
    /\ stack = <<>>
    /\ outcome' = Classify
    /\ UNCHANGED <<chain, handlers, index, stack, error, response, got, aborted>>

Next == \/ Next_ \/ CallNext \/ AbortWithError \/ Compose \/ doRequestMiddleware
        \/ Check \/ Retry \/ Rest \/ Panic \/ buildNodepoolResponse

Spec == Init /\ [][Next]_vars

---------------------------------------------------------------------------
Done == outcome \in {"success", "fail", "biz"}
At(k) == {i \in DOMAIN chain : chain[i] = k}
Inside(k, i) == \E j \in At(k) : j < i

(* A middleware that aborts keeps the request from being sent, whatever is
   registered before and behind it; only a RetryMiddleware further out, which
   takes the error for one of the transport, sends it all the same. *)
AbortHolds == aborted # 0 /\ ~Inside("retry", aborted) => got = <<>>

(* A result without an error has a response, and the response satisfies every
   check that is not registered inside a RetryMiddleware: neither a retry nor
   a recovered panic nor the other middlewares get an answer past it. *)
NoErrorMeansChecked ==
    Done /\ ~error => /\ got # <<>>
                      /\ \A i \in At("check") : ~Inside("retry", i) => ~Unexpected(response)

(* RetryMiddleware repeats the request at most maxRetries times and never
   after a 4xx: such an answer is the last one. *)
RetriesAreLimited ==
    /\ Len(got) <= 1 + MaxRetries * Cardinality(At("retry"))
    /\ \A i \in 1 .. Len(got) - 1 : ~ClientError(got[i])

(* The node is blamed for a request that brought no answer, for 5xx and 429,
   and is not blamed for another 4xx or a success, when no middleware of the
   chain adds errors of its own. *)
NodeIsJudgedByReply ==
    /\ Done /\ response = None => outcome = "fail"
    /\ Done /\ At("check") \cup At("validate") \cup At("faulty") \cup At("compose") = {} =>
         (outcome = "fail" <=> response = None \/ response >= 500 \/ response \in FailCodes)

(* By a result or by a panic that nobody recovers. *)
Returned == outcome # "running"
=============================================================================
