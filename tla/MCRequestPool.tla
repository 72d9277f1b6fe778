--------------------------- MODULE MCRequestPool ---------------------------
(* A small instance of RequestPool: one call with two requests, two points of
   which NewPool is given one, up to two workers per point. *)
EXTENDS RequestPool

CONSTANTS p1, p2, g1, r1, r2, k1, k2

MCRequests == g1 :> {r1, r2}
MCRetryNum == [r \in {r1, r2} |-> 1]
Symmetry == Permutations({k1, k2}) \cup Permutations({r1, r2})
=============================================================================
