---------------------------- MODULE MCPoolQueue -----------------------------
(* The node pool under its most general client, and a RabbitMQ queue with two
   messages, one consumer and two faults; each in behaviours of its own, the
   other unchanged.  A handler that calls RetryLater itself and then returns nil
   loses its message when the copy is not confirmed, so such a call has no fault
   before or behind it. *)
EXTENDS PoolClient

CONSTANTS
  m1, m2,
  Batch, Consumers, UseTransaction, DelayEnabled, Prefetch, HandlerCalls, MaxRetry, MaxFaults

VARIABLES
  part,              \* "pool" or "queue"
  mode, ready, call, pc, inbox, cur, up, faults, sent, finished,
  manual             \* a handler has called RetryLater

Q == INSTANCE RabbitQueue

queueVars == <<mode, ready, call, pc, inbox, cur, up, faults, sent, finished, manual>>
everything == <<part, poolVars, queueVars>>

Cfg(e, w, l) == [endpoint |-> e, weight |-> w, maxConcurrent |-> l]

\* New with one endpoint, once or twice.
OneEndpoint == {<<Cfg("a", 1, 1)>>, <<Cfg("a", 1, 1), Cfg("a", 1, 1)>>}

\* Emptied, replaced, grown and repeated lists.
MCUpdateLists ==
  {<<>>, <<Cfg("b", 1, 1)>>, <<Cfg("b", 1, 1), Cfg("a", 1, 1)>>,
   <<Cfg("b", 1, 1), Cfg("b", 1, 1)>>}

MCBatch == <<m1, m2>>

PoolQueueInit ==
  /\ part \in {"pool", "queue"}
  /\ Init /\ Q!Init /\ manual = FALSE
  /\ part = "pool" => mode = [tx |-> TRUE, delay |-> TRUE]
  /\ part = "queue" => made = 1

InPool == part = "pool" /\ Next /\ UNCHANGED <<part, queueVars>>
InQueue ==
  /\ part = "queue" /\ Q!Next /\ UNCHANGED <<part, poolVars>>
  /\ manual' = (manual \/ \E k \in Consumers : pc'[k] = "retry-after")
  /\ manual' => faults' = 0

PoolQueueSpec == PoolQueueInit /\ [][InPool \/ InQueue]_everything

-----------------------------------------------------------------------------
=============================================================================
