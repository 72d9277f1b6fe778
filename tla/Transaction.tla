---------------------------- MODULE Transaction ----------------------------
(* GormDrive.CtxTransaction and WithContext (dao/gormDB/tx.go): transactions
   that travel in a context.  One goroutine runs closures that open frames
   inside one another, over several databases; every frame is a call of
   CtxTransaction, and its context is the caller's extended with the frame.
   A closure may use the context it was given or one it captured further out.

   gorm itself is external: Transaction on a plain handle begins a
   transaction, on a handle that is one sets a savepoint; an error or a panic
   rolls back to where the frame began.                                    *)
EXTENDS Naturals, Sequences

CONSTANTS Dbs,        \* the DbIDs of the drivers of this process
          MaxFrames,  \* bound: calls of CtxTransaction
          MaxWrites   \* bound: rows written; a row is written once

VARIABLES stack,      \* the open frames, the outermost first
          ended,      \* how each frame opened so far ended
          data,       \* the rows committed
          rows,       \* the frames each row was written in: [chain, around]
          panicking   \* a panic is unwinding the stack

vars == <<stack, ended, data, rows, panicking>>

Ids == 1 .. MaxFrames
RowIds == 1 .. MaxWrites

Frame == [id : Ids, db : Dbs,
          chain : SUBSET Ids,    \* the frames its context was made in, itself included
          work : SUBSET RowIds,    \* the rows of the transaction, where it began it
          mark : SUBSET RowIds]    \* the rows of the transaction at its savepoint

TypeOK == /\ stack \in Seq(Frame)
          /\ ended \in Seq({"open", "ok", "bad"})
          /\ data \subseteq RowIds
          /\ rows \in Seq([chain : SUBSET Ids, around : SUBSET Ids])
          /\ panicking \in BOOLEAN

Init == /\ stack = <<>>
        /\ ended = <<>>
        /\ data = {}
        /\ rows = <<>>
        /\ panicking = FALSE

(* The context at a level of the stack, as the frames it carries; level 0 is
   the context the outermost caller came with. *)
Ctx(level) == IF level = 0 THEN {} ELSE stack[level].chain

(* The positions of the frames of a database that a context carries: the last
   is the one its ctxTransactionKey leads to, the first began the transaction. *)
getTxFromCtx(level, d) ==
    {i \in DOMAIN stack : stack[i].db = d /\ stack[i].id \in Ctx(level)}
First(tx) == CHOOSE i \in tx : \A j \in tx : i <= j

---------------------------------------------------------------------------
(* CtxTransaction up to the call of fn: a savepoint in the transaction of the
   context, or a transaction of its own. *)
CtxTransaction(level, d) ==
    LET id == Len(ended) + 1
        tx == getTxFromCtx(level, d)
    IN /\ ~panicking
       /\ id <= MaxFrames
       /\ ended' = Append(ended, "open")
       /\ stack' = Append(stack, [id |-> id, db |-> d, chain |-> Ctx(level) \cup {id}, work |-> {},
                                  mark |-> IF tx = {} THEN {} ELSE stack[First(tx)].work])
       /\ UNCHANGED <<data, rows, panicking>>

(* WithContext(ctx), and a write through the handle it returns: into the
   transaction of the context, or straight into the database. *)
WithContext(level, d) ==
    LET w == Len(rows) + 1
        tx == getTxFromCtx(level, d)
    IN /\ ~panicking
       /\ w <= MaxWrites
       /\ rows' = Append(rows,
            [chain |-> {stack[i].id : i \in {j \in 1 .. level : stack[j].db = d /\ stack[j].id \in Ctx(level)}},
             around |-> {stack[i].id : i \in {j \in DOMAIN stack : stack[j].db = d}}])
       /\ IF tx = {}
          THEN data' = data \cup {w} /\ UNCHANGED stack
          ELSE stack' = [stack EXCEPT ![First(tx)].work = @ \cup {w}] /\ UNCHANGED data
       /\ UNCHANGED <<ended, panicking>>

Top == stack[Len(stack)]
Below == SubSeq(stack, 1, Len(stack) - 1)

(* The transaction the top frame set its savepoint in; empty: it began one. *)
Outer == getTxFromCtx(Len(stack), Top.db) \ {Len(stack)}

(* fn returned nil: a savepoint is left alone, a transaction is committed. *)
Commit ==
    /\ stack # <<>>
    /\ ~panicking
    /\ data' = IF Outer = {} THEN data \cup Top.work ELSE data
    /\ stack' = Below
    /\ ended' = [ended EXCEPT ![Top.id] = "ok"]
    /\ UNCHANGED <<rows, panicking>>

(* Mutant: a nested frame that fails leaves its rows to the outer one. *)
UndoneNot == Below

(* Mutant: a nested frame that fails rolls the whole transaction back. *)
UndoneAll == IF Outer = {} THEN Below ELSE [Below EXCEPT ![First(Outer)].work = {}]

(* Back to where the frame began. *)
Undone == IF Outer = {} THEN Below ELSE [Below EXCEPT ![First(Outer)].work = Top.mark]

(* fn returned an error, or the commit failed; the caller may go on. *)
Rollback ==
    /\ stack # <<>>
    /\ ~panicking
    /\ stack' = Undone
    /\ ended' = [ended EXCEPT ![Top.id] = "bad"]
    /\ UNCHANGED <<data, rows, panicking>>

(* fn panics: every frame up to the recover rolls back. *)
Panic ==
    /\ stack # <<>>
    /\ panicking' = TRUE
    /\ stack' = Undone
    /\ ended' = [ended EXCEPT ![Top.id] = "bad"]
    /\ UNCHANGED <<data, rows>>

(* A closure, or the outermost caller, recovers. *)
Recover ==
    /\ panicking
    /\ panicking' = FALSE
    /\ UNCHANGED <<stack, ended, data, rows>>

Next == \/ \E level \in 0 .. Len(stack), d \in Dbs :
             CtxTransaction(level, d) \/ WithContext(level, d)
        \/ Commit \/ Rollback \/ Panic \/ Recover

Spec == Init /\ [][Next]_vars

---------------------------------------------------------------------------
Ok(ids) == \A i \in ids : ended[i] = "ok"

(* A row in the database has the approval of every frame its context came
   through: no frame that failed or panicked, and none still open, has left a
   row behind, however deep the write was and whatever frames of other
   databases or other contexts lay between. *)
CommittedIsApproved == \A w \in data : Ok(rows[w].chain)

(* A row all of whose frames ended well is in the database, unless a frame of
   the same database that was open around the write failed: a write through a
   captured outer context is lost with the inner savepoint. *)
ApprovedIsCommitted ==
    \A w \in DOMAIN rows : Ok(rows[w].chain \cup rows[w].around) => w \in data
=============================================================================
