------------------------------ MODULE Processor ------------------------------
(* ConcurrentProcessor (common/coroutines): a fixed number of goroutines work
   off a list that the caller feeds to them through a channel.  Each goroutine
   runs inside SafeFunc, so an item whose processing panics ends its goroutine
   and nothing else; the context may be cancelled at any time.               *)
EXTENDS Naturals, Sequences, FiniteSets

CONSTANTS Workers,    \* the goroutines, as many as limit, the channel's capacity
          Items       \* the length of the list

VARIABLES sent,       \* items handed to the channel so far
          semaphore,  \* the channel's buffer
          closed,     \* close(semaphore) has run
          work,       \* what each goroutine does: "idle", "done", or an item
          dead,       \* goroutines that ended by a panic
          fate,       \* what became of each item
          cancelled,  \* ctx.Done() is closed
          pc          \* the caller: "feed", "close", "wait", "returned"

vars == <<sent, semaphore, closed, work, dead, fate, cancelled, pc>>

limit == Cardinality(Workers)
Idle == 0
Ended == Items + 1

TypeOK == /\ sent \in 0 .. Items
          /\ semaphore \in Seq(1 .. Items) /\ Len(semaphore) <= limit
          /\ closed \in BOOLEAN /\ cancelled \in BOOLEAN
          /\ work \in [Workers -> 0 .. Ended]
          /\ dead \subseteq Workers
          /\ fate \in [1 .. Items -> {"waiting", "processed", "panicked"}]
          /\ pc \in {"feed", "close", "wait", "returned"}

Init == /\ sent = 0
        /\ semaphore = <<>>
        /\ closed = FALSE
        /\ work = [w \in Workers |-> Idle]
        /\ dead = {}
        /\ fate = [i \in 1 .. Items |-> "waiting"]
        /\ cancelled = FALSE
        /\ pc = "feed"

(* semaphore <- item: into the buffer, when there is room. *)
Feed == /\ pc = "feed"
        /\ sent < Items
        /\ Len(semaphore) < limit
        /\ sent' = sent + 1
        /\ semaphore' = Append(semaphore, sent + 1)
        /\ UNCHANGED <<closed, work, dead, fate, cancelled, pc>>

(* The list is through, or the select takes ctx.Done(). *)
Fed == /\ pc = "feed"
       /\ sent = Items \/ cancelled
       /\ pc' = "close"
       /\ UNCHANGED <<sent, semaphore, closed, work, dead, fate, cancelled>>

Close == /\ pc = "close"
         /\ closed' = TRUE
         /\ pc' = "wait"
         /\ UNCHANGED <<sent, semaphore, work, dead, fate, cancelled>>

(* wg.Wait(): every goroutine has run its deferred Done. *)
Wait == /\ pc = "wait"
        /\ \A w \in Workers : work[w] = Ended
        /\ pc' = "returned"
        /\ UNCHANGED <<sent, semaphore, closed, work, dead, fate, cancelled>>

Take(w) == /\ work[w] = Idle
           /\ semaphore # <<>>
           /\ work' = [work EXCEPT ![w] = Head(semaphore)]
           /\ semaphore' = Tail(semaphore)
           /\ UNCHANGED <<sent, closed, dead, fate, cancelled, pc>>

(* Mutant: a goroutine that leaves as soon as the channel is closed. *)
LeaveEarly(w) == /\ work[w] = Idle
                 /\ closed \/ cancelled
                 /\ work' = [work EXCEPT ![w] = Ended]
                 /\ UNCHANGED <<sent, semaphore, closed, dead, fate, cancelled, pc>>

(* The channel is closed and empty, or the select takes ctx.Done(). *)
Leave(w) == /\ work[w] = Idle
            /\ (closed /\ semaphore = <<>>) \/ cancelled
            /\ work' = [work EXCEPT ![w] = Ended]
            /\ UNCHANGED <<sent, semaphore, closed, dead, fate, cancelled, pc>>

Processed(w) == /\ work[w] \in 1 .. Items
                /\ fate' = [fate EXCEPT ![work[w]] = "processed"]
                /\ work' = [work EXCEPT ![w] = Idle]
                /\ UNCHANGED <<sent, semaphore, closed, dead, cancelled, pc>>

(* processItem panics: wg.Done is deferred, SafeFunc recovers behind it. *)
Panicked(w) == /\ work[w] \in 1 .. Items
               /\ fate' = [fate EXCEPT ![work[w]] = "panicked"]
               /\ work' = [work EXCEPT ![w] = Ended]
               /\ dead' = dead \cup {w}
               /\ UNCHANGED <<sent, semaphore, closed, cancelled, pc>>

Cancel == /\ ~cancelled
          /\ cancelled' = TRUE
          /\ UNCHANGED <<sent, semaphore, closed, work, dead, fate, pc>>

WorkerStep(w) == Take(w) \/ Leave(w) \/ Processed(w) \/ Panicked(w)
CallerStep == Feed \/ Fed \/ Close \/ Wait
Next == CallerStep \/ Cancel \/ \E w \in Workers : WorkerStep(w)

Spec == Init /\ [][Next]_vars

---------------------------------------------------------------------------
(* When ConcurrentProcessor returns nothing is running any more, and unless
   the context was cancelled or every goroutine has died of a panic, every
   item of the list was worked on. *)
ReturnsComplete ==
    pc = "returned" =>
        /\ \A w \in Workers : work[w] = Ended
        /\ cancelled \/ dead = Workers \/ \A i \in 1 .. Items : fate[i] # "waiting"

(* It has returned.  The exception: each of its goroutines has died of a panic,
   the context lives on, and the caller waits to hand the next item to nobody. *)
Returned == pc = "returned" \/ (dead = Workers /\ ~cancelled)
=============================================================================
