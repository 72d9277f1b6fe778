--------------------------- MODULE MCConservative ---------------------------
(* Small instances of Conservative. *)
EXTENDS Conservative, TLC

Cfg(e, w, l) == [endpoint |-> e, weight |-> w, maxConcurrent |-> l]

OneNode  == {<<Cfg("a", 1, 1)>>}
TwoNodes == {<<Cfg("a", 1, 1), Cfg("b", 1, 1)>>}
RoomyNode == {<<Cfg("a", 1, 2)>>}
NoLists  == {}
SomeLists == {<<Cfg("b", 1, 1)>>}
Symmetry == Permutations(Requests)
=============================================================================
