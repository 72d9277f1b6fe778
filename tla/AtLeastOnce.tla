---------------------------- MODULE AtLeastOnce -----------------------------
(***************************************************************************)
(* What a queue with acknowledgements promises: a message whose sending    *)
(* was reported as done is kept until a handler has finished it.  Copies   *)
(* are allowed: a message may be kept again, and finished again.           *)
(***************************************************************************)
CONSTANT Msgs

VARIABLES
  sent,              \* the messages reported as sent
  kept,              \* the messages the queue has a copy of
  finished           \* the messages a handler has finished

vars == <<sent, kept, finished>>

Init == sent = {} /\ kept = {} /\ finished = {}

\* Copies of some messages arrive.
Keep(ms) == kept' = kept \cup ms /\ UNCHANGED <<sent, finished>>

\* The sender is told that its messages are safe, which they are.
Report(ms) ==
  /\ kept' \in {kept, kept \cup ms} /\ ms \subseteq kept' \cup finished
  /\ sent' = sent \cup ms /\ UNCHANGED finished

\* A handler finishes a message; other copies of it may remain.
Finish(m) ==
  /\ m \in kept /\ finished' = finished \cup {m}
  /\ kept' \in {kept, kept \ {m}} /\ UNCHANGED sent

\* A copy that is not needed goes away.
Forget(m) == m \in finished /\ kept' = kept \ {m} /\ UNCHANGED <<sent, finished>>

Next ==
  \/ \E ms \in SUBSET Msgs : Keep(ms) \/ Report(ms)
  \/ \E m \in Msgs : Finish(m) \/ Forget(m)

Spec == Init /\ [][Next]_vars
=============================================================================
