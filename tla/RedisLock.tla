----------------------------- MODULE RedisLock ------------------------------
(***************************************************************************)
(* dlock/redis.go: the lock of one key in Redis, through redsync, which is *)
(* external: Lock tries SET NX PX up to tries times with one random value; *)
(* Unlock deletes the key when it holds that value, else it reports        *)
(* ErrLockAlreadyExpired, which Unlock of redis.go turns into nil.  Redis  *)
(* deletes the key when its expiry passes: nothing extends it.             *)
(*                                                                         *)
(* A request, or its answer, may be lost.  One Redis node; clients unlock  *)
(* only what they locked.                                                  *)
(***************************************************************************)
EXTENDS Integers, FiniteSets, TLAPS

CONSTANTS
  Clients, None,
  Tries              \* redisProviderConfig.tries

ASSUME NoneAssumption == None \notin Clients
ASSUME TriesAssumption == Tries \in Nat \ {0}

VARIABLES
  key,               \* the client whose value the key holds, or None
  pc,                \* "idle", "try", "inside"
  left,              \* attempts left
  valid              \* the clients inside whose value has been in the key since

vars == <<key, pc, left, valid>>

Init ==
  /\ key = None /\ pc = [c \in Clients |-> "idle"]
  /\ left = [c \in Clients |-> 0] /\ valid = {}

Goto(c, l) == pc' = [pc EXCEPT ![c] = l]

\* LockContext with all its attempts, or TryLockContext with one.
Call(c) ==
  /\ pc[c] = "idle" /\ Goto(c, "try")
  /\ \E n \in {1, Tries} : left' = [left EXCEPT ![c] = n]
  /\ UNCHANGED <<key, valid>>


\* SET NX succeeds, and its answer arrives.
Acquire(c) ==
  /\ pc[c] = "try" /\ key = None /\ key' = c /\ Goto(c, "inside")
  /\ left' = [left EXCEPT ![c] = 0] /\ valid' = valid \cup {c}

\* An attempt fails: the key exists, the request is lost, or SET NX succeeds and
\* its answer is lost.  redsync then deletes the key if it holds its value, a
\* request that may be lost too.  The last failure gives ErrLockFailed.  (The
\* value is the client's here; in redsync it is new in every LockContext.)
AttemptFails(c) ==
  /\ pc[c] = "try"
  /\ \/ UNCHANGED key
     \/ key = None /\ key' = c
     \/ key = c /\ key' = None
  /\ left' = [left EXCEPT ![c] = @ - 1]
  /\ Goto(c, IF left[c] > 1 THEN "try" ELSE "idle")
  /\ UNCHANGED valid

\* The context ends between two attempts.
Cancelled(c) ==
  /\ pc[c] = "try" /\ Goto(c, "idle") /\ left' = [left EXCEPT ![c] = 0]
  /\ UNCHANGED <<key, valid>>

\* Mutant: Unlock deletes the key whatever it holds.
UnlockAny(c) ==
  /\ pc[c] = "inside" /\ Goto(c, "idle") /\ key' = None /\ valid' = valid \ {c}
  /\ UNCHANGED left

\* Unlock; its request may be lost, which is its error.
Unlock(c) ==
  /\ pc[c] = "inside" /\ Goto(c, "idle") /\ valid' = valid \ {c}
  /\ \/ key' = IF key = c THEN None ELSE key
     \/ UNCHANGED key
  /\ UNCHANGED left

\* Redis: the expiry of the key passes.
Expire == key # None /\ key' = None /\ valid' = valid \ {key} /\ UNCHANGED <<pc, left>>

Next ==
  \/ \E c \in Clients : Call(c) \/ Acquire(c) \/ AttemptFails(c) \/ Cancelled(c) \/ Unlock(c)
  \/ Expire

Spec == Init /\ [][Next]_vars

-----------------------------------------------------------------------------
(* Properties *)

\* The variables keep their types.
TypeOK ==
  /\ key \in Clients \cup {None} /\ pc \in [Clients -> {"idle", "try", "inside"}]
  /\ left \in [Clients -> 0 .. Tries] /\ valid \in SUBSET Clients

\* Of the clients inside at most one has not outlived its key: two are inside
\* together only after an expiry that redis.go does not report.
OneValidHolder == \A c, d \in valid : c = d

\* A client that is inside and whose value is in the key owns the lock.  A key
\* left by an attempt whose answer was lost has no owner.
Inside == {c \in Clients : pc[c] = "inside"}

Abstract == INSTANCE LeaseLock WITH
  inside <- Inside, owner <- IF key \in valid THEN key ELSE None

\* The lock in Redis is a lock with a lease: no Unlock, no retry and no lost
\* message takes the lock from the client that has it.
Implements == Abstract!LeaseSpec

\* Both: valid holders exclude each other, and the lock behaves as LeaseLock.
LeaseHolds == []OneValidHolder /\ Implements

-----------------------------------------------------------------------------
(* Proofs, for any clients and any number of tries *)

\* The inductive invariant: whoever is valid is inside, and the key is its own;
\* whoever tries has an attempt left.
IInv ==
  /\ TypeOK /\ valid \subseteq Inside /\ \A c \in valid : c = key
  /\ \A c \in Clients : pc[c] = "try" => left[c] > 0

\* It holds at the start, when the key does not exist.
LEMMA InitIInv == Init => IInv
  BY TriesAssumption DEF Init, IInv, TypeOK, Inside

\* It is kept by every attempt, Unlock and expiry, lost requests included.
LEMMA NextIInv == IInv /\ [Next]_vars => IInv'
<1> SUFFICES ASSUME IInv, [Next]_vars PROVE IInv'
  OBVIOUS
<1> USE NoneAssumption, TriesAssumption DEF IInv, TypeOK, Inside, Goto
<1>1. ASSUME NEW c \in Clients, Call(c) PROVE IInv'
  BY <1>1 DEF Call
<1>2. ASSUME NEW c \in Clients, Acquire(c) PROVE IInv'
  BY <1>2 DEF Acquire
<1>3. ASSUME NEW c \in Clients, AttemptFails(c) PROVE IInv'
  <2>1. c \notin valid
    BY <1>3 DEF AttemptFails
  <2>2. key' # key => valid = {}
    BY <1>3, <2>1 DEF AttemptFails
  <2>3. left[c] - 1 \in 0 .. Tries /\ (left[c] > 1 => left[c] - 1 > 0)
    BY <1>3 DEF AttemptFails
  <2> QED
    BY <1>3, <2>1, <2>2, <2>3 DEF AttemptFails
<1>4. ASSUME NEW c \in Clients, Cancelled(c) PROVE IInv'
  BY <1>4 DEF Cancelled
<1>5. ASSUME NEW c \in Clients, Unlock(c) PROVE IInv'
  BY <1>5 DEF Unlock
<1>6. CASE Expire
  BY <1>6 DEF Expire
<1>7. CASE UNCHANGED vars
  BY <1>7 DEF vars
<1> QED
  BY <1>1, <1>2, <1>3, <1>4, <1>5, <1>6, <1>7 DEF Next

\* Every step of redis.go and Redis is a step of the lock with a lease, or leaves
\* it as it is.
LEMMA NextImplements == IInv /\ [Next]_vars => [Abstract!Lease]_(Abstract!vars)
<1> SUFFICES ASSUME IInv, [Next]_vars PROVE [Abstract!Lease]_(Abstract!vars)
  OBVIOUS
<1> USE NoneAssumption DEF IInv, TypeOK, Inside, Goto
<1>1. ASSUME NEW c \in Clients, Call(c) \/ Cancelled(c) \/ AttemptFails(c) PROVE UNCHANGED Abstract!vars
  <2>1. Inside' = Inside /\ valid' = valid
    BY <1>1 DEF Call, Cancelled, AttemptFails
  <2>2. key' # key => valid = {}
    BY <1>1 DEF Call, Cancelled, AttemptFails
  <2> QED
    BY <2>1, <2>2 DEF Abstract!vars
<1>2. ASSUME NEW c \in Clients, Acquire(c) PROVE Abstract!Acquire(c)
  BY <1>2 DEF Acquire, Abstract!Acquire
<1>3. ASSUME NEW c \in Clients, Unlock(c) PROVE Abstract!Release(c)
  BY <1>3 DEF Unlock, Abstract!Release
<1>4. CASE Expire
  <2>1. CASE key \in valid
    BY <1>4, <2>1 DEF Expire, Abstract!Lapse, Abstract!Lease
  <2>2. CASE key \notin valid
    BY <1>4, <2>2 DEF Expire, Abstract!vars
  <2> QED
    BY <2>1, <2>2
<1>5. CASE UNCHANGED vars
  BY <1>5 DEF vars, Abstract!vars
<1> QED
  BY <1>1, <1>2, <1>3, <1>4, <1>5 DEF Next, Abstract!Lease, Abstract!Strict

\* Two clients between Lock and Unlock never both have a key that has not expired,
\* and the lock of redis.go is a lock with a lease: only expiry takes it from the
\* client that has it.
THEOREM LeaseCorrect == Spec => LeaseHolds
<1>1. IInv => OneValidHolder
  BY DEF IInv, OneValidHolder
<1>2. Spec => []OneValidHolder
  BY <1>1, InitIInv, NextIInv, PTL DEF Spec
<1>3. Init => Abstract!Init
  BY NoneAssumption DEF Init, Abstract!Init, Inside
<1>4. Spec => Implements
  BY <1>3, InitIInv, NextIInv, NextImplements, PTL DEF Spec, Implements, Abstract!LeaseSpec
<1> QED
  BY <1>2, <1>4, PTL DEF LeaseHolds
=============================================================================
