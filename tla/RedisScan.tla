------------------------------ MODULE RedisScan ------------------------------
(* scanClusterKeys (dao/redis): one goroutine per master of the cluster walks
   the cursor of its shard and appends the batches to a common slice; a
   semaphore limits how many run at a time, and the first error is kept in a
   channel of capacity one.  With one shard this is scanKeys.                *)
EXTENDS Naturals, FiniteSets

CONSTANTS Shards,
          Pages,      \* batches in each shard
          Slots       \* capacity of sem (10 in the code)

VARIABLES pc,         \* each shard: "start", "check", "scan", "append", "ended"
          cursor,     \* pages read of each shard
          keys,       \* the common slice, as the set of <<shard, page>> in it
          sem,        \* slots taken
          errChan,    \* an error is in the channel
          cancelled,  \* ctx.Err() # nil
          iterErr,    \* ForEachMaster returned an error
          result      \* "none", "keys" or "error"

vars == <<pc, cursor, keys, sem, errChan, cancelled, iterErr, result>>

TypeOK == /\ pc \in [Shards -> {"start", "check", "scan", "append", "ended"}]
          /\ cursor \in [Shards -> 0 .. Pages]
          /\ keys \subseteq Shards \X (1 .. Pages)
          /\ sem = Cardinality({s \in Shards : pc[s] \in {"check", "scan", "append"}})
          /\ sem <= Slots
          /\ {errChan, cancelled, iterErr} \subseteq BOOLEAN
          /\ result \in {"none", "keys", "error"}

Init == /\ pc = [s \in Shards |-> "start"]
        /\ cursor = [s \in Shards |-> 0]
        /\ keys = {} /\ sem = 0
        /\ errChan = FALSE /\ cancelled = FALSE /\ iterErr = FALSE
        /\ result = "none"

(* ForEachMaster calls the function for a master: a slot of the semaphore,
   wg.Add, and the goroutine. *)
Start(s) == /\ pc[s] = "start"
            /\ sem < Slots
            /\ sem' = sem + 1
            /\ pc' = [pc EXCEPT ![s] = "check"]
            /\ UNCHANGED <<cursor, keys, errChan, cancelled, iterErr, result>>

(* ForEachMaster cannot load the cluster's state and calls nothing. *)
IterationFails == /\ \A s \in Shards : pc[s] = "start"
                  /\ iterErr' = TRUE
                  /\ pc' = [s \in Shards |-> "ended"]
                  /\ UNCHANGED <<cursor, keys, sem, errChan, cancelled, result>>

(* Mutant: the error is not reported. *)
GiveUpSilently(s) == /\ pc' = [pc EXCEPT ![s] = "ended"]
                     /\ sem' = sem - 1
                     /\ UNCHANGED <<cursor, keys, errChan, cancelled, iterErr, result>>

(* The error goes into the channel unless one is there already. *)
GiveUp(s) == /\ pc' = [pc EXCEPT ![s] = "ended"]
             /\ errChan' = TRUE
             /\ sem' = sem - 1
             /\ UNCHANGED <<cursor, keys, cancelled, iterErr, result>>

Check(s) == /\ pc[s] = "check"
            /\ IF cancelled
               THEN GiveUp(s)
               ELSE /\ pc' = [pc EXCEPT ![s] = "scan"]
                    /\ UNCHANGED <<cursor, keys, sem, errChan, cancelled, iterErr, result>>

ScanFails(s) == pc[s] = "scan" /\ GiveUp(s)

Scan(s) == /\ pc[s] = "scan"
           /\ cursor' = [cursor EXCEPT ![s] = @ + 1]
           /\ pc' = [pc EXCEPT ![s] = "append"]
           /\ UNCHANGED <<keys, sem, errChan, cancelled, iterErr, result>>

(* Under the mutex; a next cursor of 0 ends the loop. *)
Add(s) == /\ pc[s] = "append"
          /\ keys' = keys \cup {<<s, cursor[s]>>}
          /\ pc' = [pc EXCEPT ![s] = IF cursor[s] = Pages THEN "ended" ELSE "check"]
          /\ sem' = IF cursor[s] = Pages THEN sem - 1 ELSE sem
          /\ UNCHANGED <<cursor, errChan, cancelled, iterErr, result>>

Cancel == /\ ~cancelled
          /\ cancelled' = TRUE
          /\ UNCHANGED <<pc, cursor, keys, sem, errChan, iterErr, result>>

(* wg.Wait, and the result. *)
Return == /\ result = "none"
          /\ \A s \in Shards : pc[s] = "ended"
          /\ result' = IF iterErr \/ errChan THEN "error" ELSE "keys"
          /\ UNCHANGED <<pc, cursor, keys, sem, errChan, cancelled, iterErr>>

ShardStep(s) == Start(s) \/ Check(s) \/ ScanFails(s) \/ Scan(s) \/ Add(s)
Next == IterationFails \/ Cancel \/ Return \/ \E s \in Shards : ShardStep(s)

Spec == Init /\ [][Next]_vars

---------------------------------------------------------------------------
(* Keys are returned all or not at all: a scan that ends without an error has
   every batch of every shard, although shards fail, are cancelled and append
   in any order. *)
AllKeysOrError == result = "keys" => keys = Shards \X (1 .. Pages)

Returned == result # "none"
=============================================================================
