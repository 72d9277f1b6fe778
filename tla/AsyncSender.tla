----------------------------- MODULE AsyncSender -----------------------------
(* Alerts (provider/message): AsyncSender.Send puts a message into a bounded
   channel, the goroutines of ConcurrentProcessorChan take messages out and hand
   them to a LarkSender or TGSender, which asks its cache whether the same
   content went out within the last minute, calls the robot and then fills the
   cache.  A robot that panics ends the goroutine; SafeFunc recovers behind it
   and reports the panic through the global sender, which is this one.       *)
EXTENDS Naturals, Sequences, FiniteSets

CONSTANTS Calls,     \* the calls of Send by the application
          Workers,   \* the consuming goroutines (10 in the code)
          Content,   \* what each call sends, title and pairs
          Buffer,    \* bufferSize
          Null

VARIABLES at,        \* where the message of each call is
          queue,     \* the channel a.message
          held,      \* the message each goroutine works on
          step,      \* how far it is
          enabled,   \* cacheInst # nil
          cache,     \* contents in the cache
          copies     \* deliveries of each content since its entry last expired

vars == <<at, queue, held, step, enabled, cache, copies>>

(* The report of a goroutine's panic is a message too; the stack and the
   request id in it make its content its own. *)
Ids == Calls \cup Workers
content(i) == IF i \in Calls THEN Content[i] ELSE i
Contents == {content(i) : i \in Ids}

Final == {"delivered", "suppressed", "failed", "crashed"}

TypeOK == /\ at \in [Ids -> {"new", "waiting", "queued", "held"} \cup Final]
          /\ queue \in Seq(Ids) /\ Len(queue) <= Buffer
          /\ held \in [Workers -> Ids \cup {Null}]
          /\ step \in [Workers -> {"idle", "get", "send", "set", "dead"}]
          /\ enabled \in BOOLEAN
          /\ cache \subseteq Contents
          /\ copies \in [Contents -> Nat]

(* initCache: an expiry of 0 seconds leaves the sender without a cache. *)
Init == /\ at = [i \in Ids |-> "new"]
        /\ queue = <<>>
        /\ held = [w \in Workers |-> Null]
        /\ step = [w \in Workers |-> "idle"]
        /\ enabled \in BOOLEAN
        /\ cache = {}
        /\ copies = [c \in Contents |-> 0]

(* Send is called: by the application, or by SafeFunc for a dead goroutine. *)
Call(i) == /\ at[i] = "new"
           /\ i \in Workers => step[i] = "dead"
           /\ at' = [at EXCEPT ![i] = "waiting"]
           /\ UNCHANGED <<queue, held, step, enabled, cache, copies>>

(* a.message <- msg, and Send returns nil. *)
Send(i) == /\ at[i] = "waiting"
           /\ Len(queue) < Buffer
           /\ at' = [at EXCEPT ![i] = "queued"]
           /\ queue' = Append(queue, i)
           /\ UNCHANGED <<held, step, enabled, cache, copies>>

(* Mutant: a goroutine that waits for a second message. *)
TakeLate(w) ==
    /\ step[w] = "idle" /\ Len(queue) > 1
    /\ held' = [held EXCEPT ![w] = Head(queue)]
    /\ at' = [at EXCEPT ![Head(queue)] = "held"]
    /\ step' = [step EXCEPT ![w] = "get"]
    /\ queue' = Tail(queue)
    /\ UNCHANGED <<enabled, cache, copies>>

Take(w) ==
    /\ step[w] = "idle" /\ queue # <<>>
    /\ held' = [held EXCEPT ![w] = Head(queue)]
    /\ at' = [at EXCEPT ![Head(queue)] = "held"]
    /\ step' = [step EXCEPT ![w] = "get"]
    /\ queue' = Tail(queue)
    /\ UNCHANGED <<enabled, cache, copies>>

(* The goroutine is through with its message. *)
Finish(w, result) ==
    /\ at' = [at EXCEPT ![held[w]] = result]
    /\ held' = [held EXCEPT ![w] = Null]
    /\ step' = [step EXCEPT ![w] = IF result = "crashed" THEN "dead" ELSE "idle"]

(* Mutant: the entry is made together with the lookup. *)
GetAndSet(w) ==
    /\ step[w] = "get"
    /\ IF enabled /\ content(held[w]) \in cache
       THEN Finish(w, "suppressed")
       ELSE step' = [step EXCEPT ![w] = "send"] /\ UNCHANGED <<at, held>>
    /\ cache' = cache \cup {content(held[w])}
    /\ UNCHANGED <<queue, enabled, copies>>

(* cacheInst.Get: a hit ends the sender's Send without sending. *)
CacheGet(w) ==
    /\ step[w] = "get"
    /\ IF enabled /\ content(held[w]) \in cache
       THEN Finish(w, "suppressed")
       ELSE step' = [step EXCEPT ![w] = "send"] /\ UNCHANGED <<at, held>>
    /\ UNCHANGED <<queue, enabled, cache, copies>>

(* robot.SendMessage returns an error, which is logged, or panics. *)
RobotFails(w) ==
    /\ step[w] = "send"
    /\ \E result \in {"failed", "crashed"} : Finish(w, result)
    /\ UNCHANGED <<queue, enabled, cache, copies>>

RobotSends(w) ==
    /\ step[w] = "send"
    /\ at' = [at EXCEPT ![held[w]] = "delivered"]
    /\ copies' = [copies EXCEPT ![content(held[w])] = @ + 1]
    /\ step' = [step EXCEPT ![w] = "set"]
    /\ UNCHANGED <<queue, held, enabled, cache>>

(* Mutant: the sender forgets what it has sent. *)
CacheSetNot(w) ==
    /\ step[w] = "set"
    /\ Finish(w, "delivered")
    /\ UNCHANGED <<queue, enabled, cache, copies>>

CacheSet(w) ==
    /\ step[w] = "set"
    /\ Finish(w, "delivered")
    /\ cache' = IF enabled THEN cache \cup {content(held[w])} ELSE cache
    /\ UNCHANGED <<queue, enabled, copies>>

(* The entry's time to live is over, or the cache is full and drops it. *)
Expire(c) ==
    /\ c \in cache
    /\ cache' = cache \ {c}
    /\ copies' = [copies EXCEPT ![c] = 0]
    /\ UNCHANGED <<at, queue, held, step, enabled>>

WorkerStep(w) == Take(w) \/ CacheGet(w) \/ RobotFails(w) \/ RobotSends(w) \/ CacheSet(w)
Next == \/ \E i \in Ids : Call(i) \/ Send(i)
        \/ \E w \in Workers : WorkerStep(w)
        \/ \E c \in Contents : Expire(c)

Spec == Init /\ [][Next]_vars

---------------------------------------------------------------------------
(* An alert is suppressed only when one of the same content went out: the
   entry is made after the robot has sent, so a failed or a panicking send
   leaves nothing behind that would swallow the next alert. *)
SuppressedWasDelivered ==
    \A i \in Ids : at[i] = "suppressed" =>
        \E j \in Ids \ {i} : content(j) = content(i) /\ at[j] = "delivered"

(* Looking up, sending and remembering are three steps, so goroutines that work
   on the same content at the same time all send it; but between two expiries
   each of them does so at most once. *)
OneCopyPerWorker ==
    enabled => \A c \in Contents : copies[c] <= Cardinality(Workers)

(* Every message handed to Send is sent, suppressed or failed.  The exception: a
   panicking robot has ended every goroutine. *)
Returned == (\A i \in Ids : at[i] \in Final \cup {"new"}) \/ \A w \in Workers : step[w] = "dead"
=============================================================================
