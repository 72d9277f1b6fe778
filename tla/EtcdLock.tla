------------------------------ MODULE EtcdLock ------------------------------
(***************************************************************************)
(* dlock/etcd.go: the lock of one key in etcd, through the concurrency     *)
(* package, which is external: a Mutex puts a key under the lease of its   *)
(* session and owns the lock when no older key is left.  The lease ends    *)
(* with the session, with its client, or with the context the session was  *)
(* made with.  Clients unlock only what they locked.                       *)
(***************************************************************************)
EXTENDS Sequences, FiniteSets, SequencesExt

CONSTANTS Clients, None

VARIABLES
  queue,             \* the keys, oldest first, by client
  pc,                \* "idle", "Lock", "TryLock", "inside"
  gone               \* clients whose keepalive has stopped

vars == <<queue, pc, gone>>

Init == queue = <<>> /\ pc = [c \in Clients |-> "idle"] /\ gone = {}

Goto(c, l) == pc' = [pc EXCEPT ![c] = l]
Waiting(c) == pc[c] \in {"Lock", "TryLock"}
Owns(c) == queue # <<>> /\ Head(queue) = c
Without(c) == SelectSeq(queue, LAMBDA d : d # c)

\* NewSession, and the transaction that puts the key.
Call(c) ==
  /\ pc[c] = "idle" /\ \E l \in {"Lock", "TryLock"} : Goto(c, l)
  /\ queue' = Append(Without(c), c) /\ gone' = gone \ {c}


\* No older key is left, and its own is.
Acquire(c) == Waiting(c) /\ Owns(c) /\ Goto(c, "inside") /\ UNCHANGED <<queue, gone>>

\* Lock's context ends, the session has expired, or TryLock finds an older key:
\* session.Close revokes the lease.
GiveUp(c) ==
  /\ Waiting(c) /\ (pc[c] = "Lock" \/ ~ Owns(c))
  /\ Goto(c, "idle") /\ queue' = Without(c) /\ UNCHANGED gone

\* Unlock deletes the key and closes the session.
Unlock(c) == pc[c] = "inside" /\ Goto(c, "idle") /\ queue' = Without(c) /\ UNCHANGED gone

\* The keepalive of a session stops: partition, or the end of Lock's context ...
Lose(c) == pc[c] # "idle" /\ c \notin gone /\ gone' = gone \cup {c} /\ UNCHANGED <<queue, pc>>

\* ... and the lease expires.
Expire(c) == c \in gone /\ Contains(queue, c) /\ queue' = Without(c) /\ UNCHANGED <<pc, gone>>

Next == \E c \in Clients : Call(c) \/ Acquire(c) \/ GiveUp(c) \/ Unlock(c) \/ Lose(c) \/ Expire(c)

Spec == Init /\ [][Next]_vars

-----------------------------------------------------------------------------
(* Properties *)

\* The variables keep their types.
TypeOK ==
  /\ queue \in BoundedSeq(Clients, Cardinality(Clients)) /\ IsInjective(queue)
  /\ pc \in [Clients -> {"idle", "Lock", "TryLock", "inside"}] /\ gone \subseteq Clients

Inside == {c \in Clients : pc[c] = "inside"}

Abstract == INSTANCE LeaseLock WITH
  inside <- Inside,
  owner <- IF queue # <<>> /\ Head(queue) \in Inside THEN Head(queue) ELSE None

\* The lock in etcd is a lock with a lease.
Implements == Abstract!LeaseSpec

\* A client waits in Lock, and its session is alive.
Waits(c) == pc[c] = "Lock" /\ c \notin gone
=============================================================================
