----------------------------- MODULE SingleRun ------------------------------
(***************************************************************************)
(* utils.Manager.SingleRun (common/utils/singleRun.go): at most one f runs *)
(* for a key.  A goroutine is a stack of SingleRun calls, the innermost    *)
(* last: the f of a call may call SingleRun again with the ctx it was      *)
(* given, which carries the keys held so far.                              *)
(*                                                                         *)
(* Each section under an entry's mutex is one step.  sync.Cond is          *)
(* external: Wait leaves the mutex and parks, Broadcast makes every parked *)
(* call of that key contend for the mutex again.  time.AfterFunc is        *)
(* external too: its function starts when it likes and then contends for   *)
(* the mutex; Stop keeps it from starting, not from finishing.             *)
(* RunInfo's StartTime and RunCount are left out.                          *)
(***************************************************************************)
EXTENDS Integers, Sequences, FiniteSets

CONSTANTS
  Goroutines,
  Keys,
  Waits,             \* Waits[g]: the waitTimes g uses: "no" (NoWait), "timed", "must" (MustWait)
  Inside,            \* Inside[k]: the keys that f may ask for, besides those it holds,
                     \* while it runs for k
  Detached,          \* whether f may hand its ctx to another goroutine
  MaxCalls,          \* bound: MaxCalls[g], the calls that g makes
  MaxDepth           \* bound: calls nested in one another

VARIABLES
  stack,             \* stack[g]: its calls, the innermost last
  ctx,               \* ctx[g]: the keys in the ctx that g started with
  calls,             \* calls[g]: how many calls g has made
  IsRunning,         \* IsRunning[k]: entry.info.IsRunning
  stray              \* stray[k]: timer functions that started for a call which has gone on

vars == <<stack, ctx, calls, IsRunning, stray>>

Init ==
  /\ stack = [g \in Goroutines |-> <<>>]
  /\ ctx = [g \in Goroutines |-> {}]
  /\ calls = [g \in Goroutines |-> 0]
  /\ IsRunning = [k \in Keys |-> FALSE]
  /\ stray = [k \in Keys |-> 0]

-----------------------------------------------------------------------------

Frames == [key : Keys, wait : {"no", "timed", "must"}, pc : {"enter", "waiting", "woken", "running"},
           nested : BOOLEAN, timer : {"off", "armed", "started"}, timedOut : BOOLEAN]

Depth(g) == Len(stack[g])
Top(g) == stack[g][Depth(g)]
At(g, pc) == stack[g] # <<>> /\ Top(g).pc = pc

\* The keys in the ctx that g's n-th call gives to its f.
heldLocks(g, n) == ctx[g] \cup {stack[g][i].key : i \in 1..n}

\* What g's innermost call becomes, every other stack unchanged.
SetTop(g, frame) == [stack EXCEPT ![g][Depth(g)] = frame]

\* Every call parked on k contends for the mutex again.
Broadcast(k, s) ==
  [g \in Goroutines |->
     [i \in DOMAIN s[g] |->
        IF s[g][i].key = k /\ s[g][i].pc = "waiting"
        THEN [s[g][i] EXCEPT !.pc = "woken"] ELSE s[g][i]]]

\* g's stack cut down to its first n calls.
Cut(g, n) == [stack EXCEPT ![g] = SubSeq(@, 1, n)]

-----------------------------------------------------------------------------
(* SingleRun *)

Call(g) ==
  /\ calls[g] < MaxCalls[g]
  /\ Depth(g) < MaxDepth
  /\ stack[g] # <<>> => At(g, "running")
  /\ \E k \in IF stack[g] = <<>> THEN Keys
           ELSE Inside[Top(g).key] \cup {stack[g][i].key : i \in DOMAIN stack[g]}, w \in Waits[g] :
       stack' = [stack EXCEPT ![g] =
         Append(@, [key |-> k, wait |-> w, pc |-> "enter", nested |-> FALSE,
                    timer |-> "off", timedOut |-> FALSE])]
  /\ calls' = [calls EXCEPT ![g] = @ + 1]
  /\ UNCHANGED <<ctx, IsRunning, stray>>

\* The ctx already holds the key: f runs without the entry.
Nested(g) ==
  /\ At(g, "enter")
  /\ Top(g).key \in heldLocks(g, Depth(g) - 1)
  /\ stack' = SetTop(g, [Top(g) EXCEPT !.pc = "running", !.nested = TRUE])
  /\ UNCHANGED <<ctx, calls, IsRunning, stray>>

\* The call claims the key and leaves the mutex; its timer is stopped.
Claim(g) ==
  LET k == Top(g).key IN
  /\ stack' = SetTop(g, [Top(g) EXCEPT !.pc = "running", !.timer = "off"])
  /\ IsRunning' = [IsRunning EXCEPT ![k] = TRUE]
  /\ stray' = [stray EXCEPT ![k] = IF Top(g).timer = "started" THEN @ + 1 ELSE @]

\* Under e.mu for the first time: claim, give up (NoWait), or wait.
Enter(g) ==
  /\ At(g, "enter")
  /\ Top(g).key \notin heldLocks(g, Depth(g) - 1)
  /\ \/ /\ ~IsRunning[Top(g).key]
        /\ Claim(g)
     \/ /\ IsRunning[Top(g).key] /\ Top(g).wait = "no"
        /\ stack' = Cut(g, Depth(g) - 1)
        /\ UNCHANGED <<IsRunning, stray>>
     \/ /\ IsRunning[Top(g).key] /\ Top(g).wait # "no"
        /\ stack' = SetTop(g, [Top(g) EXCEPT !.pc = "waiting",
                                 !.timer = IF Top(g).wait = "timed" THEN "armed" ELSE "off"])
        /\ UNCHANGED <<IsRunning, stray>>
  /\ UNCHANGED <<ctx, calls>>

\* Mutant: a call that was woken takes the key without looking again.
WaitOnce(g) ==
  /\ At(g, "woken")
  /\ ~Top(g).timedOut
  /\ Claim(g)
  /\ UNCHANGED <<ctx, calls>>

\* The loop around cond.Wait, under e.mu again: claim the key, or wait on.
Woken(g) ==
  /\ At(g, "woken")
  /\ ~Top(g).timedOut
  /\ \/ ~IsRunning[Top(g).key] /\ Claim(g)
     \/ /\ IsRunning[Top(g).key]
        /\ stack' = SetTop(g, [Top(g) EXCEPT !.pc = "waiting"])
        /\ UNCHANGED <<IsRunning, stray>>
  /\ UNCHANGED <<ctx, calls>>

\* The call sees that its time is over and returns ErrRunning.
GiveUp(g) ==
  /\ At(g, "woken")
  /\ Top(g).timedOut
  /\ stack' = Cut(g, Depth(g) - 1)
  /\ UNCHANGED <<ctx, calls, IsRunning, stray>>

\* The timer's function starts, and gets e.mu.
TimerStarts(g) ==
  /\ stack[g] # <<>> /\ Top(g).timer = "armed"
  /\ stack' = SetTop(g, [Top(g) EXCEPT !.timer = "started"])
  /\ UNCHANGED <<ctx, calls, IsRunning, stray>>

\* Mutant: the timer's function sets timedOut and wakes no one.
TimerSilent(g) ==
  /\ stack[g] # <<>> /\ Top(g).timer = "started"
  /\ stack' = SetTop(g, [Top(g) EXCEPT !.timer = "off", !.timedOut = TRUE])
  /\ UNCHANGED <<ctx, calls, IsRunning, stray>>

TimerLocks(g) ==
  /\ stack[g] # <<>> /\ Top(g).timer = "started"
  /\ stack' = Broadcast(Top(g).key,
                SetTop(g, [Top(g) EXCEPT !.timer = "off", !.timedOut = TRUE]))
  /\ UNCHANGED <<ctx, calls, IsRunning, stray>>

\* The same for a call that claimed its key first: it only wakes the others.
StrayTimer(k) ==
  /\ stray[k] > 0
  /\ stray' = [stray EXCEPT ![k] = @ - 1]
  /\ stack' = Broadcast(k, stack)
  /\ UNCHANGED <<ctx, calls, IsRunning>>

\* The n-th call of g, which claimed its key, gives it up and returns.
Unlock(g, n) ==
  LET k == stack[g][n].key IN
  /\ stack' = Broadcast(k, Cut(g, n - 1))
  /\ IsRunning' = [IsRunning EXCEPT ![k] = FALSE]

\* f returns.
Return(g) ==
  /\ At(g, "running")
  /\ \/ Top(g).nested /\ stack' = Cut(g, Depth(g) - 1) /\ UNCHANGED IsRunning
     \/ ~Top(g).nested /\ Unlock(g, Depth(g))
  /\ UNCHANGED <<ctx, calls, stray>>

\* Mutant: the panic passes the clean-up by.
PanicKeepsKey(g) ==
  /\ At(g, "running")
  /\ stack' = Cut(g, 0)
  /\ UNCHANGED <<ctx, calls, IsRunning, stray>>

\* f panics: nested calls unwind, the innermost call that claimed its key
\* recovers and returns an error.  A goroutine without such a call dies.
Panic(g) ==
  LET claimed == {i \in DOMAIN stack[g] : ~stack[g][i].nested} IN
  /\ At(g, "running")
  /\ claimed # {}
  /\ Unlock(g, CHOOSE n \in claimed : \A i \in claimed : i <= n)
  /\ UNCHANGED <<ctx, calls, stray>>

\* f starts a goroutine h that works with f's ctx.
Spawn(g, h) ==
  /\ Detached
  /\ At(g, "running") /\ MaxCalls[h] > 0
  /\ calls[h] = 0 /\ ctx[h] = {}
  /\ ctx' = [ctx EXCEPT ![h] = heldLocks(g, Depth(g))]
  /\ UNCHANGED <<stack, calls, IsRunning, stray>>

-----------------------------------------------------------------------------

\* What the goroutine does by itself once it has called SingleRun.
Step(g) == Nested(g) \/ Enter(g) \/ Woken(g) \/ GiveUp(g) \/ Return(g)

Next ==
  \/ \E g \in Goroutines :
       Call(g) \/ Step(g) \/ Panic(g) \/ TimerStarts(g) \/ TimerLocks(g)
  \/ \E g, h \in Goroutines : Spawn(g, h)
  \/ \E k \in Keys : StrayTimer(k)

Spec == Init /\ [][Next]_vars

-----------------------------------------------------------------------------
(* Properties *)

\* Every variable keeps its type, and a timer is on only while its call waits.
TypeOK ==
  /\ stack \in [Goroutines -> Seq(Frames)]
  /\ ctx \in [Goroutines -> SUBSET Keys]
  /\ calls \in [Goroutines -> Nat]
  /\ IsRunning \in [Keys -> BOOLEAN]
  /\ stray \in [Keys -> Nat]
  /\ \A g \in Goroutines : \A i \in DOMAIN stack[g] :
       stack[g][i].timer # "off" => stack[g][i].pc \in {"waiting", "woken"}

Running(g, k) == \E i \in DOMAIN stack[g] : stack[g][i].key = k /\ stack[g][i].pc = "running"

\* For a key one f runs at a time, as long as no f hands its ctx to another
\* goroutine: calls that are running for the same key are nested in one another.
OneInstance ==
  (\A g \in Goroutines : ctx[g] = {}) =>
    \A k \in Keys : \A g, h \in Goroutines : Running(g, k) /\ Running(h, k) => g = h

\* The calls that have claimed k and not given it up.
Claims(k) ==
  {c \in Goroutines \X (1..MaxDepth) :
     /\ c[2] \in DOMAIN stack[c[1]]
     /\ LET f == stack[c[1]][c[2]] IN f.key = k /\ f.pc = "running" /\ ~f.nested}

\* IsRunning says exactly that a call has claimed the key and not given it up,
\* and then there is one such call; whether the f before it returned, panicked,
\* panicked in a nested call, or left a goroutine behind.
RunningIsClaimed ==
  \A k \in Keys : Cardinality(Claims(k)) = IF IsRunning[k] THEN 1 ELSE 0

\* No wake-up is lost: no call stays parked on a key that is free, nor after its
\* own time is over.
NoLostWakeup ==
  \A g \in Goroutines : \A i \in DOMAIN stack[g] :
    stack[g][i].pc = "waiting" => IsRunning[stack[g][i].key] /\ ~stack[g][i].timedOut

\* Every goroutine is out of its SingleRun calls.
Returned == \A g \in Goroutines : stack[g] = <<>>
=============================================================================
