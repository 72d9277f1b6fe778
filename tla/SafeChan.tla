------------------------------ MODULE SafeChan ------------------------------
(***************************************************************************)
(* utils.SafeChan (common/utils/channel.go): a channel that may be closed  *)
(* while goroutines send on it.  Send and TrySend hold the read lock for   *)
(* as long as their select lasts; Close takes the write lock.              *)
(*                                                                         *)
(* sync.RWMutex and the Go channel are external.  A writer announces       *)
(* itself, which holds off new readers, and enters when the readers that   *)
(* were there have left.  A channel passes a value on when its buffer has  *)
(* room or a receiver is parked on it; a send on a closed channel and a    *)
(* second close would panic.                                               *)
(***************************************************************************)
EXTENDS Integers, Sequences, FiniteSets

CONSTANTS
  Senders,           \* goroutines that send one value each
  Closers,           \* goroutines that call Close once
  Buffer,            \* capacity of ch
  Mode               \* Mode[s]: "send", "timed" (Send with a timeout), "try" (TrySend)

ASSUME ChanOptions ==
  /\ Buffer \in Nat
  /\ Mode \in [Senders -> {"send", "timed", "try"}]

VARIABLES
  spc,               \* spc[s]: "idle", "select", "done"
  sent,              \* sent[s]: what the call returned
  cpc,               \* cpc[c]: "idle", "called", "lock", "done"
  closed,            \* closed[c]: what Close returned
  readers,           \* the senders that hold the read lock
  writer,            \* the closers that announced themselves: none or one
  isClosed,
  done,              \* whether s.done is closed
  chClosed,          \* whether s.ch is closed
  buf,               \* the values in ch, each named by its sender
  rpc,               \* the goroutine that ranges over Chan(): "busy", "parked", "ended"
  taken              \* the values it has got

sendVars == <<spc, sent>>
closeVars == <<cpc, closed>>
lock == <<readers, writer>>
flags == <<isClosed, done, chClosed>>
channel == <<buf, rpc, taken>>
vars == <<sendVars, closeVars, lock, flags, channel>>

Init ==
  /\ spc = [s \in Senders |-> "idle"]
  /\ sent = [s \in Senders |-> FALSE]
  /\ cpc = [c \in Closers |-> "idle"]
  /\ closed = [c \in Closers |-> FALSE]
  /\ readers = {} /\ writer = {}
  /\ isClosed = FALSE /\ done = FALSE /\ chClosed = FALSE
  /\ buf = <<>> /\ rpc = "busy" /\ taken = {}

-----------------------------------------------------------------------------
(* Send and TrySend *)

\* RLock and the check of isClosed, which no one changes under the read lock.
SendStart(s) ==
  /\ spc[s] = "idle"
  /\ writer = {}
  /\ \/ isClosed /\ spc' = [spc EXCEPT ![s] = "done"] /\ UNCHANGED readers
     \/ ~isClosed /\ spc' = [spc EXCEPT ![s] = "select"] /\ readers' = readers \cup {s}
  /\ UNCHANGED <<sent, closeVars, writer, flags, channel>>

\* The receiver is parked on an empty channel and gets the value directly.
Handover == rpc = "parked" /\ buf = <<>>

\* Mutant: one value too many.
CanPutOneMore == Len(buf) <= Buffer \/ Handover

\* The channel can pass a value on.
CanPut == Len(buf) < Buffer \/ Handover

\* The cases of the select that are ready; TrySend's default only if none is.
Ready(s) ==
  LET cases == {c \in {"put", "done"} : IF c = "put" THEN CanPut ELSE done}
  IN  CASE Mode[s] = "send"  -> cases
        [] Mode[s] = "timed" -> cases \cup {"timeout"}
        [] Mode[s] = "try"   -> IF cases = {} THEN {"default"} ELSE cases

\* Mutant: Send returns true whichever case of its select was taken.
SelectIgnoresCase(s) ==
  /\ spc[s] = "select"
  /\ sent' = [sent EXCEPT ![s] = TRUE]
  /\ \E case \in Ready(s) :
       IF case # "put" THEN UNCHANGED channel
       ELSE IF Handover
       THEN taken' = taken \cup {s} /\ rpc' = "busy" /\ UNCHANGED buf
       ELSE buf' = Append(buf, s) /\ UNCHANGED <<rpc, taken>>
  /\ spc' = [spc EXCEPT ![s] = "done"]
  /\ readers' = readers \ {s}
  /\ UNCHANGED <<closeVars, writer, flags>>

\* The select, and the return, which gives the read lock back.
Select(s) ==
  /\ spc[s] = "select"
  /\ \E case \in Ready(s) :
       /\ sent' = [sent EXCEPT ![s] = (case = "put")]
       /\ IF case # "put" THEN UNCHANGED channel
          ELSE IF Handover
          THEN taken' = taken \cup {s} /\ rpc' = "busy" /\ UNCHANGED buf
          ELSE buf' = Append(buf, s) /\ UNCHANGED <<rpc, taken>>
  /\ spc' = [spc EXCEPT ![s] = "done"]
  /\ readers' = readers \ {s}
  /\ UNCHANGED <<closeVars, writer, flags>>

-----------------------------------------------------------------------------
(* Close *)

Call(c) ==
  /\ cpc[c] = "idle"
  /\ cpc' = [cpc EXCEPT ![c] = "called"]
  /\ UNCHANGED <<sendVars, closed, lock, flags, channel>>

Announce(c) ==
  /\ cpc[c] = "called"
  /\ writer = {}
  /\ cpc' = [cpc EXCEPT ![c] = "lock"]
  /\ writer' = {c}
  /\ UNCHANGED <<sendVars, closed, readers, flags, channel>>

\* Mutant: Close does not wait for the senders that are in their select.
CloseAtOnce(c) ==
  /\ cpc[c] = "lock"
  /\ cpc' = [cpc EXCEPT ![c] = "done"]
  /\ writer' = {}
  /\ closed' = [closed EXCEPT ![c] = ~isClosed]
  /\ isClosed' = TRUE /\ done' = TRUE /\ chClosed' = TRUE
  /\ UNCHANGED <<sendVars, readers, channel>>

\* Mutant: Close does not look at isClosed.
CloseAgain(c) ==
  /\ cpc[c] = "lock"
  /\ readers = {}
  /\ cpc' = [cpc EXCEPT ![c] = "done"]
  /\ writer' = {}
  /\ closed' = [closed EXCEPT ![c] = TRUE]
  /\ isClosed' = TRUE /\ done' = TRUE /\ chClosed' = TRUE
  /\ UNCHANGED <<sendVars, readers, channel>>

\* The body of Close, under the write lock.
Close(c) ==
  /\ cpc[c] = "lock"
  /\ readers = {}
  /\ cpc' = [cpc EXCEPT ![c] = "done"]
  /\ writer' = {}
  /\ closed' = [closed EXCEPT ![c] = ~isClosed]
  /\ isClosed' = TRUE /\ done' = TRUE /\ chClosed' = TRUE
  /\ UNCHANGED <<sendVars, readers, channel>>

-----------------------------------------------------------------------------
(* The receiver *)

\* It takes a value, parks, or ends once the channel is closed and drained.
Receive ==
  /\ rpc # "ended"
  /\ \/ buf # <<>> /\ taken' = taken \cup {Head(buf)} /\ buf' = Tail(buf) /\ rpc' = "busy"
     \/ buf = <<>> /\ ~chClosed /\ rpc = "busy" /\ rpc' = "parked" /\ UNCHANGED <<buf, taken>>
     \/ buf = <<>> /\ chClosed /\ rpc' = "ended" /\ UNCHANGED <<buf, taken>>
  /\ UNCHANGED <<sendVars, closeVars, lock, flags>>

-----------------------------------------------------------------------------

CloseStep(c) == Announce(c) \/ Close(c)

Next ==
  \/ \E s \in Senders : SendStart(s) \/ Select(s)
  \/ \E c \in Closers : Call(c) \/ CloseStep(c)
  \/ Receive

Spec == Init /\ [][Next]_vars

-----------------------------------------------------------------------------
(* Properties *)

\* Every variable keeps its type, and the channel its capacity.
TypeOK ==
  /\ spc \in [Senders -> {"idle", "select", "done"}]
  /\ sent \in [Senders -> BOOLEAN]
  /\ cpc \in [Closers -> {"idle", "called", "lock", "done"}]
  /\ closed \in [Closers -> BOOLEAN]
  /\ readers \subseteq Senders
  /\ writer \subseteq Closers
  /\ isClosed \in BOOLEAN /\ done \in BOOLEAN /\ chClosed \in BOOLEAN
  /\ buf \in Seq(Senders) /\ Len(buf) <= Buffer
  /\ rpc \in {"busy", "parked", "ended"}
  /\ taken \subseteq Senders

\* No panic: no goroutine is in a select with a send on ch once ch is closed
\* (Close waits for the read locks, and Send looks at isClosed under its own).
NoSendOnClosed == chClosed => \A s \in Senders : spc[s] # "select"

\* Close closes the channels once: of all the calls that have returned exactly
\* one returned true.
ClosedOnce ==
  (\E c \in Closers : cpc[c] = "done") =>
    /\ isClosed
    /\ \E c \in Closers : closed[c] /\ \A d \in Closers : closed[d] => d = c

\* A value is received at most once, exactly if its Send returned true, and the
\* receiver's loop ends only after it got all of them.
NothingLost ==
  /\ {s \in Senders : sent[s]} = taken \cup {buf[i] : i \in DOMAIN buf}
  /\ taken \cap {buf[i] : i \in DOMAIN buf} = {}
  /\ rpc = "ended" => chClosed /\ taken = {s \in Senders : sent[s]}

\* The three together: SafeChan may be sent on and closed by anyone at any time.
ChannelHolds == NoSendOnClosed /\ ClosedOnce /\ NothingLost

\* No Close is waiting.
Returned == \A c \in Closers : cpc[c] \in {"idle", "done"}
=============================================================================
