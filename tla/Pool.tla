-------------------------------- MODULE Pool --------------------------------
(***************************************************************************)
(* The pool of nodes (provider/nodepool/pool.go): the ordered node list    *)
(* and the endpoint index that p.mu guards, the operations that change     *)
(* them, the periodic re-sort, and doOnNode, the step every strategy uses  *)
(* to run a request on a node.                                             *)
(***************************************************************************)
EXTENDS Node, FiniteSets

CONSTANTS
  InitialConfigs,    \* the config lists New is called with
  UpdateLists,       \* the config lists UpdateNodes is called with
  MaxAdmin           \* how many membership operations a run makes

ASSUME ConfigLists ==
  /\ MaxAdmin \in Nat
  /\ InitialConfigs \subseteq Seq(NodeConfigs)
  /\ UpdateLists \subseteq Seq(NodeConfigs)
  /\ \A cfgs \in InitialConfigs : Len(cfgs) \in 1..MaxNodes

VARIABLES
  nodes,             \* p.nodes
  nodeMap,           \* p.nodeMap; NoNode for an absent endpoint
  made,              \* how many node objects exist
  adminOps

members  == <<nodes, nodeMap, made, adminOps>>
poolVars == <<nodeVars, members>>

NoNode == 0

NodeStatusSuccess  == "success"
NodeStatusFail     == "fail"
NodeStatusBizError == "bizError"
NodeStatus         == {NodeStatusSuccess, NodeStatusFail, NodeStatusBizError}

\* The enumerations of a finite set of integers in increasing order.
Ascending(S) ==
  {f \in [1..Cardinality(S) -> S] :
     \A i, j \in 1..Cardinality(S) : i < j => f[i] < f[j]}

\* The subsequence of s at the positions P, in order (a set of one sequence).
SubsequenceAt(s, P) ==
  {[i \in 1..Cardinality(P) |-> s[f[i]]] : f \in Ascending(P)}

\* Whether the config at i is the first, or the last, in cfgs for its endpoint.
IsFirst(cfgs, i) == \A j \in DOMAIN cfgs : cfgs[j].endpoint = cfgs[i].endpoint => i <= j
IsLast(cfgs, i)  == \A j \in DOMAIN cfgs : cfgs[j].endpoint = cfgs[i].endpoint => j <= i

Listed(cfgs) == {cfgs[i].endpoint : i \in DOMAIN cfgs}

-----------------------------------------------------------------------------
(* New: one object per config, in order; of several configs for the same   *)
(* endpoint the index keeps the last.                                      *)
PoolInit ==
  \E cfgs \in InitialConfigs :
    /\ NodesInit([n \in Nodes |-> IF n <= Len(cfgs) THEN cfgs[n] ELSE cfgs[1]])
    /\ made = Len(cfgs)
    /\ nodes = [i \in 1..Len(cfgs) |-> i]
    /\ nodeMap \in [Endpoints -> 0..Len(cfgs)]
    /\ \A e \in Endpoints :
         IF e \in Listed(cfgs)
         THEN nodeMap[e] # NoNode /\ cfgs[nodeMap[e]].endpoint = e /\ IsLast(cfgs, nodeMap[e])
         ELSE nodeMap[e] = NoNode
    /\ adminOps = 0

AdminOp == adminOps < MaxAdmin /\ adminOps' = adminOps + 1

\* AddNode for an endpoint in the index only replaces the config.
UpdateExisting(cfg) ==
  /\ AdminOp
  /\ nodeMap[cfg.endpoint] # NoNode
  /\ updateConfig(nodeMap[cfg.endpoint], cfg)
  /\ UNCHANGED <<nodes, nodeMap, made>>

\* Mutant: what the index lookup returned is listed, not the new node.
AddNodeListsLookup(cfg) ==
  /\ AdminOp
  /\ nodeMap[cfg.endpoint] = NoNode
  /\ made < MaxNodes
  /\ made' = made + 1
  /\ newNodes([n \in {made + 1} |-> cfg])
  /\ config' = [config EXCEPT ![made + 1] = cfg]
  /\ nodes' = Append(nodes, nodeMap[cfg.endpoint])
  /\ nodeMap' = [nodeMap EXCEPT ![cfg.endpoint] = made + 1]

AddNode(cfg) ==
  /\ AdminOp
  /\ nodeMap[cfg.endpoint] = NoNode
  /\ made < MaxNodes
  /\ made' = made + 1
  /\ newNodes([n \in {made + 1} |-> cfg])
  /\ config' = [config EXCEPT ![made + 1] = cfg]
  /\ nodes' = Append(nodes, made + 1)
  /\ nodeMap' = [nodeMap EXCEPT ![cfg.endpoint] = made + 1]

\* Mutant: only the list forgets the node.
RemoveNodeKeepsIndex(e) ==
  /\ AdminOp
  /\ nodeMap[e] # NoNode
  /\ nodes' \in SubsequenceAt(nodes, {i \in DOMAIN nodes : config[nodes[i]].endpoint # e})
  /\ UNCHANGED <<nodeMap, made, nodeVars>>

RemoveNode(e) ==
  /\ AdminOp
  /\ nodeMap[e] # NoNode
  /\ nodeMap' = [nodeMap EXCEPT ![e] = NoNode]
  /\ nodes' \in SubsequenceAt(nodes, {i \in DOMAIN nodes : config[nodes[i]].endpoint # e})
  /\ UNCHANGED <<made, nodeVars>>

\* UpdateNodes: the first config of an unknown endpoint makes its node, every
\* config of an endpoint replaces the one before, and the nodes whose endpoint
\* is not in the list are dropped.
UpdateNodes(cfgs) ==
  LET wanted  == Listed(cfgs)
      newAt   == {i \in DOMAIN cfgs : nodeMap[cfgs[i].endpoint] = NoNode /\ IsFirst(cfgs, i)}
      newMade == made + Cardinality(newAt)
      stay    == {i \in DOMAIN nodes : config[nodes[i]].endpoint \in wanted}
      stale   == {config[nodes[i]].endpoint : i \in DOMAIN nodes \ stay}
  IN  /\ AdminOp
      /\ newMade <= MaxNodes
      /\ made' = newMade
      /\ \E pick \in Ascending(newAt) :
           LET fresh == [n \in (made + 1)..newMade |-> cfgs[pick[n - made]]]
           IN  /\ newNodes(fresh)
               /\ nodeMap' = [e \in Endpoints |->
                    IF \E n \in DOMAIN fresh : fresh[n].endpoint = e
                    THEN CHOOSE n \in DOMAIN fresh : fresh[n].endpoint = e
                    ELSE IF e \in stale THEN NoNode ELSE nodeMap[e]]
      /\ \E last \in [wanted -> DOMAIN cfgs] :
           /\ \A e \in wanted : cfgs[last[e]].endpoint = e /\ IsLast(cfgs, last[e])
           /\ config' = [n \in Nodes |->
                IF \E e \in wanted : n = nodeMap'[e]
                THEN cfgs[last[CHOOSE e \in wanted : n = nodeMap'[e]]]
                ELSE config[n]]
      /\ \E rest \in SubsequenceAt(nodes, stay) :
           nodes' = rest \o [i \in 1..Cardinality(newAt) |-> made + i]

\* resortNodes: stable, best score first.
resortNodes ==
  /\ \E p \in [DOMAIN nodes -> DOMAIN nodes] :
       /\ \A i, j \in DOMAIN nodes : i < j =>
            LET si == score[nodes[p[i]]]
                sj == score[nodes[p[j]]]
            IN  si > sj \/ (si = sj /\ p[i] < p[j])
       /\ nodes' = [i \in DOMAIN nodes |-> nodes[p[i]]]
  /\ UNCHANGED <<nodeMap, made, adminOps, nodeVars>>

Admin ==
  \/ \E cfg \in NodeConfigs : UpdateExisting(cfg) \/ AddNode(cfg)
  \/ \E e \in Endpoints : RemoveNode(e)
  \/ \E cfgs \in UpdateLists : UpdateNodes(cfgs)

-----------------------------------------------------------------------------
(* doOnNode: the transport runs between these two steps. *)

\* The verdict of the circuit, taken again under the lock: it may have opened
\* since IsAvailable was read.
doOnNodeAdmit(n) == tryTransitionToHalfOpen(n)

\* The transport's answer, classified and recorded.
doOnNodeRecord(n, status) ==
  \E latency \in Latencies :
    CASE status = NodeStatusSuccess  -> RecordSuccess(n, latency)
      [] status = NodeStatusFail     -> RecordFailure(n, latency)
      [] status = NodeStatusBizError -> RecordBizError(n)

-----------------------------------------------------------------------------
(* Properties every client of the pool relies on. *)

PoolTypeOK ==
  /\ NodeTypeOK
  /\ made \in 0..MaxNodes
  /\ nodes \in Seq(1..made)
  /\ nodeMap \in [Endpoints -> 0..made]
  /\ adminOps \in 0..MaxAdmin

\* The circuit and the streaks agree: a circuit is closed only below the
\* failure threshold; an open one is at or above it, has no success streak and
\* is scored last; and no node has a failure and a success streak at once
\* (RecordSuccess, RecordFailure, tryTransitionToHalfOpen, under interleaved
\* requests that were admitted before the circuit moved).
BreakerConsistent ==
  \A n \in 1..made :
    /\ state[n] = circuitClosed => consecutiveFail[n] < FailureThreshold
    /\ state[n] = circuitOpen =>
         consecutiveFail[n] >= FailureThreshold /\ score[n] = -100
    /\ consecutiveFail[n] = 0 \/ consecutiveSucc[n] = 0
=============================================================================
