----------------------------- MODULE PoolClient -----------------------------
(***************************************************************************)
(* The pool under its most general client: membership operations, re-sorts *)
(* and the clock interleave with requests of which only the two locked     *)
(* steps of doOnNode are kept.  A request may finish on a node that was    *)
(* removed from the pool while it ran.                                     *)
(***************************************************************************)
EXTENDS Pool

CONSTANT MaxCalls    \* how many requests one node answers in a run

ASSUME CallsBounded == MaxCalls \in Nat

Init == PoolInit

\* A request is admitted by the circuit, or turned away.
Admit(n) ==
  /\ n <= made
  /\ doOnNodeAdmit(n)
  /\ UNCHANGED <<config, throttle, members>>

\* A request that was admitted earlier gets its answer.
Complete(n, status) ==
  /\ n <= made
  /\ totalRequests[n] < MaxCalls
  /\ doOnNodeRecord(n, status)
  /\ UNCHANGED <<config, throttle, members>>

Clock == Tick /\ UNCHANGED members

Next ==
  \/ Admin
  \/ resortNodes
  \/ Clock
  \/ \E n \in Nodes : Admit(n)
  \/ \E n \in Nodes, status \in NodeStatus : Complete(n, status)

Spec == Init /\ [][Next]_poolVars

-----------------------------------------------------------------------------
(* Properties *)

\* Every variable keeps its type under every pool and node operation.
TypeOK == PoolTypeOK

\* p.nodes and p.nodeMap describe the same pool: the index knows exactly the
\* endpoints in the list, maps each to a node of the list that serves it, and
\* no object is listed twice (AddNode, RemoveNode, UpdateNodes, resortNodes;
\* New may be given the same endpoint twice).
IndexAgrees ==
  /\ \A e \in Endpoints :
       nodeMap[e] # NoNode <=> \E i \in DOMAIN nodes : config[nodes[i]].endpoint = e
  /\ \A e \in Endpoints : nodeMap[e] # NoNode =>
       /\ config[nodeMap[e]].endpoint = e
       /\ \E i \in DOMAIN nodes : nodes[i] = nodeMap[e]
  /\ \A i, j \in DOMAIN nodes : nodes[i] = nodes[j] => i = j

\* A circuit never closes straight from open, and a half-open one closes only
\* on a success that follows another answer: two successes in a row at least
\* separate an open circuit from a closed one when SuccessThreshold > 1.
CircuitMoves ==
  [][\A n \in 1..made :
       /\ state[n] = circuitOpen => state'[n] # circuitClosed
       /\ state[n] = circuitClosed => state'[n] # circuitHalfOpen
       /\ state[n] = circuitHalfOpen /\ state'[n] = circuitClosed =>
            consecutiveSucc'[n] >= SuccessThreshold
    ]_poolVars
=============================================================================
