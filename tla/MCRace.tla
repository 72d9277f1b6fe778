------------------------------- MODULE MCRace -------------------------------
(* Small instances of Race. *)
EXTENDS Race, TLC

Cfg(e, l) == [endpoint |-> e, weight |-> 1, maxConcurrent |-> l]

TwoNodes  == {<<Cfg("a", 1), Cfg("b", 1)>>}
OneOrTwo  == TwoNodes \cup {<<Cfg("a", 1)>>}
NoLists   == {}
SomeLists == {<<Cfg("b", 1)>>}
Symmetry  == Permutations(Requests)

\* Two requests meet on one node, whose list may change; one request alone races
\* over two nodes.
RaceNext ==
  /\ Next
  /\ made = 2 /\ adminOps = 0 =>
       adminOps' = 0 /\ \A r, s \in Requests : pc'[r] # "idle" /\ pc'[s] # "idle" => r = s
RaceSpec == Init /\ [][RaceNext]_vars
=============================================================================
