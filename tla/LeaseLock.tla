----------------------------- MODULE LeaseLock ------------------------------
(***************************************************************************)
(* What the Mutex of dlock/dlock.go promises, for one key: the lock has at *)
(* most one owner, and nobody else's Unlock takes it away.  A lock with a  *)
(* lease can also lapse: its owner still believes to be inside.            *)
(***************************************************************************)

CONSTANTS Clients, None

VARIABLES
  owner,             \* who has the lock, or None
  inside             \* the clients between Lock and Unlock

vars == <<owner, inside>>

Init == owner = None /\ inside = {}

Acquire(c) == owner = None /\ c \notin inside /\ owner' = c /\ inside' = inside \cup {c}

Release(c) ==
  /\ c \in inside /\ inside' = inside \ {c}
  /\ owner' = IF owner = c THEN None ELSE owner

Lapse == owner # None /\ owner' = None /\ UNCHANGED inside

\* A lock that never lapses, and one with a lease.
Strict == \E c \in Clients : Acquire(c) \/ Release(c)
Lease == Strict \/ Lapse

StrictSpec == Init /\ [][Strict]_vars
LeaseSpec == Init /\ [][Lease]_vars
=============================================================================
