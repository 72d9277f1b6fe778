------------------------------- MODULE Cache --------------------------------
(***************************************************************************)
(* cache/: one key of the two-level cache (twolevel.go: an in-process      *)
(* cache in front of Redis) or of the Redis cache alone (redis.go), in     *)
(* several processes, with readers, and one writer that updates the origin *)
(* and then calls Set or Delete.                                           *)
(*                                                                         *)
(* A value is a version of the origin; 0 stands for a missing entry.       *)
(* singleflight is external: the callers of Do that find a call of their   *)
(* process under way wait for its result.  Entries can expire at any time  *)
(* (TTL, eviction) and a request to Redis can fail.                        *)
(***************************************************************************)
EXTENDS Integers

CONSTANTS
  Insts,             \* processes
  Readers,
  Inst,              \* the process of each reader
  Home,              \* the process of the writer
  MaxVersion         \* bound on the writes

VARIABLES
  twoLevel,          \* TRUE: twolevel.go, FALSE: redis.go
  origin,            \* the version in the origin
  remote,            \* the version in Redis, or 0
  local,             \* the version in each process, or 0
  pc, val,           \* readers: where they are, and what they have read
  leader,            \* the reader that runs the singleflight call, or Nobody
  wpc,               \* writer: "idle", "Set", "Delete", "local"
  wval,              \* what it puts into its process after Redis
  missed             \* whether Redis lacked the entry since the process stored it

readers == <<pc, val, leader>>
writer == <<origin, wpc, wval>>
vars == <<twoLevel, remote, local, missed, readers, writer>>

Nobody == "nobody"
Error == -1

Init ==
  /\ twoLevel \in BOOLEAN
  /\ origin = 1 /\ remote = 0 /\ local = [i \in Insts |-> 0]
  /\ pc = [r \in Readers |-> "idle"] /\ val = [r \in Readers |-> 0]
  /\ leader = [i \in Insts |-> Nobody]
  /\ wpc = "idle" /\ wval = 0 /\ missed = [i \in Insts |-> TRUE]

Goto(r, l) == pc' = [pc EXCEPT ![r] = l]
Missed == missed' = [i \in Insts |-> TRUE]

-----------------------------------------------------------------------------
(* Get: local, then remote, which fills local *)

\* The call; without a local level it goes to Redis at once.
Get(r) ==
  /\ pc[r] = "idle"
  /\ twoLevel => local[Inst[r]] = 0
  /\ Goto(r, "get") /\ UNCHANGED <<remote, local, missed, val, leader, writer>>

\* The answer of Redis: a version, not found, or an error.
GetRemote(r) ==
  /\ pc[r] = "get"
  /\ IF remote # 0 /\ twoLevel
     THEN Goto(r, "fill") /\ val' = [val EXCEPT ![r] = remote]
     ELSE Goto(r, "idle") /\ UNCHANGED val
  /\ UNCHANGED <<remote, local, missed, leader, writer>>

\* local.Set with what was read, however long ago.
Fill(r) ==
  /\ pc[r] = "fill" /\ Goto(r, "idle") /\ val' = [val EXCEPT ![r] = 0]
  /\ local' = [local EXCEPT ![Inst[r]] = val[r]]
  /\ UNCHANGED <<remote, missed, leader, writer>>

-----------------------------------------------------------------------------
(* GetOrLoad *)

\* The first look, at the local level or at Redis, finds nothing.
GetOrLoad(r) ==
  /\ pc[r] = "idle" /\ (IF twoLevel THEN local[Inst[r]] ELSE remote) = 0
  /\ Goto(r, "do") /\ UNCHANGED <<remote, local, missed, val, leader, writer>>

\* singleflight's Do: wait for the call under way ...
Follow(r) ==
  /\ pc[r] = "do" /\ leader[Inst[r]] # Nobody /\ Goto(r, "follow")
  /\ UNCHANGED <<remote, local, missed, val, leader, writer>>

\* Mutant: the call goes to the loader without a look at Redis.
LeadBlindly(r) ==
  /\ pc[r] = "do" /\ leader[Inst[r]] = Nobody
  /\ leader' = [leader EXCEPT ![Inst[r]] = r] /\ Goto(r, "load")
  /\ UNCHANGED <<remote, local, missed, val, writer>>

\* ... or make it: with two levels it looks at Redis again.
Lead(r) ==
  /\ pc[r] = "do" /\ leader[Inst[r]] = Nobody
  /\ leader' = [leader EXCEPT ![Inst[r]] = r]
  /\ Goto(r, IF twoLevel THEN "look" ELSE "load")
  /\ UNCHANGED <<remote, local, missed, val, writer>>

\* The call of a process ends with a version or an error for all its callers,
\* which then fill their local level.
Sharing(i) == {r \in Readers : Inst[r] = i /\ (pc[r] = "follow" \/ leader[i] = r)}
Finish(i, v) ==
  /\ leader' = [leader EXCEPT ![i] = Nobody]
  /\ pc' = [r \in Readers |-> IF r \notin Sharing(i) THEN pc[r]
                              ELSE IF v = Error \/ ~ twoLevel THEN "idle" ELSE "fill"]
  /\ val' = [r \in Readers |-> IF r \notin Sharing(i) THEN val[r]
                               ELSE IF v = Error \/ ~ twoLevel THEN 0 ELSE v]

\* The look at Redis: found, not found, or an error.
Look(r) ==
  /\ pc[r] = "look"
  /\ \/ remote # 0 /\ Finish(Inst[r], remote)
     \/ remote = 0 /\ Goto(r, "load") /\ UNCHANGED <<val, leader>>
     \/ Finish(Inst[r], Error)
  /\ UNCHANGED <<remote, local, missed, writer>>

\* The loader reads the origin, or fails.
Load(r) ==
  /\ pc[r] = "load"
  /\ \/ Goto(r, "store") /\ val' = [val EXCEPT ![r] = origin] /\ UNCHANGED leader
     \/ Finish(Inst[r], Error)
  /\ UNCHANGED <<remote, local, missed, writer>>

\* The version is stored in Redis; a failure, which may come after the version
\* was stored, is the error of all callers.
Store(r) ==
  /\ pc[r] = "store"
  /\ \/ /\ remote' = val[r] /\ missed' = [missed EXCEPT ![Inst[r]] = FALSE]
        /\ Finish(Inst[r], val[r])
     \/ Finish(Inst[r], Error) /\ remote' \in {remote, val[r]} /\ UNCHANGED missed
  /\ UNCHANGED <<local, writer>>

-----------------------------------------------------------------------------
(* The writer, and time *)

\* The origin changes; Set or Delete is called for it.
Write ==
  /\ wpc = "idle" /\ origin < MaxVersion /\ origin' = origin + 1
  /\ \E op \in {"Set", "Delete"} : wpc' = op
  /\ UNCHANGED <<remote, local, missed, readers, wval>>

\* Set: Redis first, and only after its success the local level.
Set ==
  /\ wpc = "Set"
  /\ \/ remote' = origin /\ wpc' = "local" /\ wval' = origin
     \/ wpc' = "idle" /\ remote' \in {remote, origin} /\ UNCHANGED wval
  /\ UNCHANGED <<origin, local, missed, readers>>

\* Delete: Redis, which may fail, and the local level.
Delete ==
  /\ wpc = "Delete" /\ wpc' = "local" /\ wval' = 0
  /\ \/ remote' = 0 /\ Missed
     \/ UNCHANGED <<remote, missed>>
  /\ UNCHANGED <<origin, local, readers>>

SetLocal ==
  /\ wpc = "local" /\ wpc' = "idle" /\ wval' = 0
  /\ local' = IF twoLevel THEN [local EXCEPT ![Home] = wval] ELSE local
  /\ UNCHANGED <<origin, remote, missed, readers>>

ExpireRemote ==
  /\ remote # 0 /\ remote' = 0 /\ Missed
  /\ UNCHANGED <<local, readers, writer>>


ExpireLocal(i) ==
  /\ local[i] # 0 /\ local' = [local EXCEPT ![i] = 0]
  /\ UNCHANGED <<remote, missed, readers, writer>>

-----------------------------------------------------------------------------

ReaderStep(r) == GetRemote(r) \/ Fill(r) \/ Follow(r) \/ Lead(r) \/ Look(r) \/ Load(r) \/ Store(r)
WriterStep == Set \/ Delete \/ SetLocal

Next ==
  /\ UNCHANGED twoLevel
  /\ \/ \E r \in Readers : Get(r) \/ GetOrLoad(r) \/ ReaderStep(r)
     \/ Write \/ WriterStep \/ ExpireRemote \/ \E i \in Insts : ExpireLocal(i)

Spec == Init /\ [][Next]_vars

-----------------------------------------------------------------------------
(* Properties *)

\* The variables keep their types.
TypeOK ==
  /\ origin \in 1 .. MaxVersion /\ remote \in 0 .. origin /\ wval \in 0 .. origin
  /\ local \in [Insts -> 0 .. origin] /\ val \in [Readers -> 0 .. origin]
  /\ \A i \in Insts : leader[i] \in Readers \cup {Nobody}

\* With the two-level cache a process calls the loader again only when Redis has lacked the entry since the
\* process stored it: whoever comes late finds the stored value.
LoadsOnlyMissed == twoLevel => \A r \in Readers : pc[r] = "load" => missed[Inst[r]]

\* The origin no longer changes.
Settled == origin = MaxVersion
NoneStale == \A v \in {remote} \cup {local[i] : i \in Insts} : v \in {0, origin}
=============================================================================
