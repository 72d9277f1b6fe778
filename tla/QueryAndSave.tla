---------------------------- MODULE QueryAndSave ----------------------------
(* GormDrive.QueryAndSave (dao/gormDB/func.go): look for the row of a unique
   key under a lock, then insert it or update it, in one transaction.  Several
   callers do so at once on one key; others save it with ON CONFLICT, insert it
   strictly, update it or delete it.

   The database is external: READ COMMITTED, a row lock held to the end of the
   transaction, and an insert that waits for another transaction's uncommitted
   insert of the same key.  A locking read that finds no row locks nothing.  *)
EXTENDS Naturals, FiniteSets

CONSTANTS Callers,
          Calls,       \* the calls a caller may make
          None         \* no row; no caller

VARIABLES pc,          \* where each caller is
          call,        \* the call it makes
          row,         \* the committed row: the caller that wrote it, or None
          born,        \* the caller whose insert created the row
          lock,        \* the caller whose transaction holds the row or the key
          pending,     \* what that transaction will leave: [row, born]
          op,          \* what each caller was told
          created      \* the callers whose insert created a row and committed

vars == <<pc, call, row, born, lock, pending, op, created>>

Told == {"none", "nothing", "insert", "update", "RowsAffectedZero", "ok", "error"}

TypeOK == /\ pc \in [Callers -> {"begin", "write", "commit", "done"}]
          /\ call \in [Callers -> Calls]
          /\ row \in Callers \cup {None}
          /\ born \in Callers \cup {None}
          /\ lock \in Callers \cup {None}
          /\ pending \in [row : Callers \cup {None}, born : Callers \cup {None}]
          /\ op \in [Callers -> Told]
          /\ created \subseteq Callers

Init == /\ pc = [c \in Callers |-> "begin"]
        /\ call \in [Callers -> Calls]
        /\ row = None
        /\ born = None
        /\ lock = None
        /\ pending = [row |-> None, born |-> None]
        /\ op = [c \in Callers |-> "none"]
        /\ created = {}

Goto(c, l) == pc' = [pc EXCEPT ![c] = l]
Tell(c, o) == op' = [op EXCEPT ![c] = o]
Current == [row |-> row, born |-> born]

(* The transaction of c changes the row to r, created by b, and keeps it
   locked; the row or the key must be free of other transactions. *)
Change(c, r, b) == /\ lock \in {c, None}
                   /\ lock' = c
                   /\ pending' = [row |-> r, born |-> b]
                   /\ UNCHANGED <<row, born>>

(* SELECT ... FOR UPDATE inside CtxTransaction: waits for the lock on a
   committed row; finds nothing, and locks nothing, when there is none. *)
Query(c) ==
    /\ pc[c] = "begin"
    /\ call[c] \in {"QueryOnly", "QueryAndUpdate"}
    /\ IF row = None
       THEN Goto(c, "write") /\ UNCHANGED <<lock, pending, op>>
       ELSE /\ lock = None
            /\ lock' = c
            /\ pending' = Current
            /\ IF call[c] = "QueryOnly"
               THEN Goto(c, "commit") /\ Tell(c, "nothing")
               ELSE Goto(c, "write") /\ UNCHANGED op
    /\ UNCHANGED <<call, row, born, created>>

(* Mutant: a conflict that did nothing counts as an affected row. *)
saveRawCounted(c, fields, affected, ignored) ==
    /\ lock \in {c, None}
    /\ Tell(c, affected)
    /\ IF row = None \/ fields
       THEN Change(c, c, IF row = None THEN c ELSE born)
       ELSE UNCHANGED <<row, born, lock, pending>>

(* Mutant: an insert that meets no unique key. *)
saveRawTwice(c, fields, affected, ignored) == Change(c, c, c) /\ Tell(c, affected)

(* saveRaw: INSERT ... ON CONFLICT.  Without fields a conflict does nothing,
   with fields it updates the row that is there, which counts as affected. *)
saveRaw(c, fields, affected, ignored) ==
    /\ lock \in {c, None}
    /\ IF row = None
       THEN Change(c, c, c) /\ Tell(c, affected)
       ELSE IF fields
            THEN Change(c, c, born) /\ Tell(c, affected)
            ELSE UNCHANGED <<row, born, lock, pending>> /\ Tell(c, ignored)

(* The write of QueryAndSave: an upsert when nothing was found, else an
   update of the row the transaction has locked. *)
Write(c) ==
    /\ pc[c] = "write"
    /\ IF lock = c
       THEN Change(c, c, born) /\ Tell(c, "update")
       ELSE saveRaw(c, call[c] = "QueryAndUpdate", "insert", "nothing")
    /\ Goto(c, "commit")
    /\ UNCHANGED <<call, created>>

(* Save, Insert, Update and Delete: one statement, a transaction of its own.
   A strict insert fails on a conflict. *)
Statement(c) ==
    /\ pc[c] = "begin"
    /\ call[c] \notin {"QueryOnly", "QueryAndUpdate"}
    /\ lock = None
    /\ \/ /\ call[c] \in {"SaveIgnore", "SaveUpdate"}
          /\ saveRaw(c, call[c] = "SaveUpdate", "ok", "RowsAffectedZero")
       \/ /\ call[c] = "Insert"
          /\ IF row = None THEN Change(c, c, c) /\ Tell(c, "ok")
             ELSE UNCHANGED <<row, born, lock, pending>> /\ Tell(c, "error")
       \/ /\ call[c] \in {"Update", "Delete"}
          /\ IF row = None
             THEN UNCHANGED <<row, born, lock, pending>> /\ Tell(c, "RowsAffectedZero")
             ELSE /\ IF call[c] = "Update" THEN Change(c, c, born) ELSE Change(c, None, None)
                  /\ Tell(c, "ok")
    /\ Goto(c, "commit")
    /\ UNCHANGED <<call, created>>

(* Mutant: a commit that failed is taken for one that succeeded part way. *)
EndAnyway(c, ok) ==
    /\ pc[c] = "commit"
    /\ Goto(c, "done")
    /\ IF lock = c
       THEN /\ lock' = None
            /\ row' = pending.row
            /\ born' = pending.born
            /\ pending' = [row |-> None, born |-> None]
            /\ created' = IF pending.born = c THEN created \cup {c} ELSE created
       ELSE UNCHANGED <<row, born, lock, pending, created>>
    /\ op' = IF ok THEN op ELSE [op EXCEPT ![c] = "error"]
    /\ UNCHANGED call

(* The end of the transaction, which releases its lock: what it changed shows
   at once, or not at all when the commit fails. *)
End(c, ok) ==
    /\ pc[c] = "commit"
    /\ Goto(c, "done")
    /\ IF lock = c
       THEN /\ lock' = None
            /\ row' = IF ok THEN pending.row ELSE row
            /\ born' = IF ok THEN pending.born ELSE born
            /\ pending' = [row |-> None, born |-> None]
            /\ created' = IF ok /\ pending.born = c THEN created \cup {c} ELSE created
       ELSE UNCHANGED <<row, born, lock, pending, created>>
    /\ op' = IF ok THEN op ELSE [op EXCEPT ![c] = "error"]
    /\ UNCHANGED call

Next == \E c \in Callers : Query(c) \/ Write(c) \/ Statement(c) \/ End(c, TRUE) \/ End(c, FALSE)

CallerStep(c) == Query(c) \/ Write(c) \/ Statement(c) \/ End(c, TRUE)
Spec == Init /\ [][Next]_vars

---------------------------------------------------------------------------
Ended(c) == pc[c] = "done"

(* Who asks for an insert and nothing else is told that it inserted exactly
   when its insert created the row, although the locking read of QueryAndSave
   locks nothing when the row is not there yet and two callers go on to
   insert.  (With fields to update, QueryAndSave says "insert" to the caller
   whose upsert met the row of another, and the property leaves it out.) *)
InsertIsCreation ==
    \A c \in Callers :
        /\ Ended(c)
        /\ call[c] \in {"QueryOnly", "SaveIgnore", "Insert"}
        => (c \in created <=> op[c] \in {"insert", "ok"})

(* Without a Delete the key is created once, whatever callers race for it. *)
CreatedOnce ==
    (\A c \in Callers : call[c] # "Delete") => Cardinality(created) <= 1

(* The row to be read is one whose writer was told that its write took
   effect: an error, a conflict ignored or RowsAffectedZero left no row. *)
RowIsAcknowledged == row # None => Ended(row) /\ op[row] \in {"insert", "update", "ok"}

Returned == \A c \in Callers : Ended(c)
=============================================================================
