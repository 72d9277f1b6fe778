----------------------------- MODULE MemoryLock -----------------------------
(***************************************************************************)
(* dlock/memory.go: the lock of one key of a MemoryProvider, used by       *)
(* clients that each create a Mutex and unlock only what they locked.      *)
(***************************************************************************)
EXTENDS Integers, FiniteSets

CONSTANTS Clients, None

VARIABLES
  refs,              \* refs of the memoryLock; 0 while the key has none
  ch,                \* the number of elements in its channel
  pc                 \* "none", "idle", "Lock", "TryLock", "inside"

vars == <<refs, ch, pc>>

Init == refs = 0 /\ ch = 0 /\ pc = [c \in Clients |-> "none"]

Goto(c, l) == pc' = [pc EXCEPT ![c] = l]

\* NewMutex: the lock is made for the first Mutex of its key.
NewMutex(c) ==
  /\ pc[c] = "none" /\ Goto(c, "idle") /\ refs' = refs + 1
  /\ UNCHANGED ch

\* Lock and TryLock, up to getLock.
Call(c) ==
  /\ pc[c] = "idle" /\ refs > 0 /\ \E l \in {"Lock", "TryLock"} : Goto(c, l)
  /\ UNCHANGED <<refs, ch>>

\* Mutant: a channel of two.
AcquireTwo(c) ==
  /\ pc[c] \in {"Lock", "TryLock"} /\ ch < 2 /\ ch' = ch + 1 /\ Goto(c, "inside")
  /\ UNCHANGED refs

\* The send into the channel of capacity 1.
Acquire(c) ==
  /\ pc[c] \in {"Lock", "TryLock"} /\ ch = 0 /\ ch' = 1 /\ Goto(c, "inside")
  /\ UNCHANGED refs

\* Mutant: who gives up takes a value out of the channel.
GiveUpDrains(c) ==
  /\ pc[c] = "Lock" \/ (pc[c] = "TryLock" /\ ch = 1)
  /\ Goto(c, "idle") /\ ch' = 0 /\ UNCHANGED refs

\* The context of Lock ends, or TryLock finds the channel full.
GiveUp(c) ==
  /\ pc[c] = "Lock" \/ (pc[c] = "TryLock" /\ ch = 1)
  /\ Goto(c, "idle") /\ UNCHANGED <<refs, ch>>

\* Unlock takes what is in the channel, if anything is.
Unlock(c) ==
  /\ pc[c] = "inside" /\ Goto(c, "idle") /\ ch' = 0
  /\ UNCHANGED refs

Next == \E c \in Clients : NewMutex(c) \/ Call(c) \/ Acquire(c) \/ GiveUp(c) \/ Unlock(c)

Spec == Init /\ [][Next]_vars

-----------------------------------------------------------------------------
(* Properties *)

\* The variables keep their types.
TypeOK ==
  /\ refs \in 0 .. Cardinality(Clients) /\ ch \in {0, 1}
  /\ pc \in [Clients -> {"none", "idle", "Lock", "TryLock", "inside"}]

Inside == {c \in Clients : pc[c] = "inside"}

Abstract == INSTANCE LeaseLock WITH
  inside <- Inside, owner <- IF Inside = {} THEN None ELSE CHOOSE c \in Inside : TRUE

\* The memory lock is a lock that never lapses.
Implements == Abstract!StrictSpec
=============================================================================
