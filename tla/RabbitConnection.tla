-------------------------- MODULE RabbitConnection --------------------------
(***************************************************************************)
(* dao/rabbitMQ/connect.go: one Connect with its watcher goroutine, which  *)
(* reconnects when the connection drops, and Close.                        *)
(*                                                                         *)
(* The AMQP library is external.  A connection that drops sends its error  *)
(* to the channels registered with NotifyClose and closes them; a channel  *)
(* registered with a connection that is already closed is closed at once.  *)
(***************************************************************************)
EXTENDS Integers, FiniteSets

CONSTANTS
  MaxDrops,          \* bound on the connections that drop
  MaxAttempt         \* the counter of failed attempts stops here

VARIABLES
  conn,              \* c.conn: 0 for nil, else the number of a connection
  dials,             \* connections made so far
  open,              \* those that are open
  dropped,           \* those that ended without a call of Close
  wpc,               \* where the watcher is
  watched,           \* the connection it has read
  attempt,
  wait,              \* its last wait between attempts, in seconds
  kpc,               \* Close: "idle", "signalled" (closeCh is closed), "returned"
  late               \* connections made after Close returned

vars == <<conn, dials, open, dropped, wpc, watched, attempt, wait, kpc, late>>

\* NewRabbitMQ: the first connection is made, the watcher starts.
Init ==
  /\ conn = 1 /\ dials = 1 /\ open = {1} /\ dropped = {}
  /\ wpc = "read" /\ watched = 0 /\ attempt = 0 /\ wait = 1
  /\ kpc = "idle" /\ late = 0

closeCh == kpc # "idle"

\* GetCh gives a channel, and not an error.
GetCh == conn \in open

\* The network, or the broker, ends a connection.
Drop ==
  /\ Cardinality(dropped) < MaxDrops
  /\ \E c \in open : open' = open \ {c} /\ dropped' = dropped \cup {c}
  /\ UNCHANGED <<conn, dials, wpc, watched, attempt, wait, kpc, late>>

-----------------------------------------------------------------------------
(* backoff, in nanoseconds of an int64: 2^a seconds are 5^9 * 2^(a+9) of     *)
(* them, and the product keeps the lowest 64 bits.                           *)

\* The bits of 5^9 that the shift by a + 9 leaves in the word, and the sign.
Remaining(a) == IF a > 54 THEN 0 ELSE IF a < 34 THEN 5 ^ 9 ELSE 5 ^ 9 % 2 ^ (55 - a)
IsNegative(a) == a \in 34 .. 54 /\ Remaining(a) >= 2 ^ (54 - a)

\* Mutant: no limit.
backoffUnlimited(a) == IF a < 20 THEN 2 ^ a ELSE 2 ^ 20

\* The wait in seconds; -1 stands for every wait that is not positive.
backoff(a) ==
  IF Remaining(a) = 0 \/ IsNegative(a) THEN -1
  ELSE IF a < 6 THEN 2 ^ a ELSE 60

-----------------------------------------------------------------------------
(* watchDisconnect *)

\* The read of c.conn; without a connection it waits for one, or for closeCh.
Read ==
  /\ wpc = "read" /\ watched' = conn
  /\ wpc' = IF conn # 0 THEN "register" ELSE IF closeCh THEN "ended" ELSE "read"
  /\ UNCHANGED <<conn, dials, open, dropped, attempt, wait, kpc, late>>

\* NotifyClose, on a connection that may have ended since.
Register ==
  /\ wpc = "register"
  /\ wpc' = IF watched \in open THEN "watch" ELSE "unnotified"
  /\ UNCHANGED <<conn, dials, open, dropped, watched, attempt, wait, kpc, late>>

\* The select: closeCh; a channel closed without an error, because Close closed
\* the connection or because it had ended before NotifyClose; or an error.
Watch ==
  /\ \/ wpc \in {"watch", "unnotified"} /\ closeCh /\ wpc' = "ended"
     \/ wpc = "unnotified" /\ wpc' = "ended"
     \/ wpc = "watch" /\ watched \notin open /\ wpc' = IF watched \in dropped THEN "check" ELSE "ended"
  /\ attempt' = 0 /\ wait' = 1
  /\ UNCHANGED <<conn, dials, open, dropped, watched, kpc, late>>

\* Mutant: the loop does not look at closeCh.
CheckNothing ==
  /\ wpc = "check" /\ wpc' = "dial"
  /\ UNCHANGED <<conn, dials, open, dropped, watched, attempt, wait, kpc, late>>

\* The look at closeCh before an attempt.
Check ==
  /\ wpc = "check" /\ wpc' = IF closeCh THEN "ended" ELSE "dial"
  /\ UNCHANGED <<conn, dials, open, dropped, watched, attempt, wait, kpc, late>>

\* reconnect, under mu: close what is open, then dial the addresses in order.
DialOk ==
  /\ wpc = "dial" /\ wpc' = "read"
  /\ dials' = dials + 1 /\ conn' = dials' /\ open' = (open \ {conn}) \cup {dials'}
  /\ late' = IF kpc = "returned" THEN late + 1 ELSE late
  /\ UNCHANGED <<dropped, watched, attempt, wait, kpc>>

\* Every address failed: wait, and try again.
DialFailed ==
  /\ wpc = "dial" /\ wpc' = "check" /\ conn' = 0 /\ open' = open \ {conn}
  /\ wait' = backoff(attempt)
  /\ attempt' = IF attempt < MaxAttempt THEN attempt + 1 ELSE attempt
  /\ UNCHANGED <<dials, dropped, watched, kpc, late>>

-----------------------------------------------------------------------------

\* Close: closeCh first, then the connection, under mu.
Close ==
  /\ \/ kpc = "idle" /\ kpc' = "signalled" /\ UNCHANGED <<conn, open>>
     \/ /\ kpc = "signalled" /\ kpc' = "returned"
        /\ open' = open \ {conn} /\ conn' = IF conn \in open THEN 0 ELSE conn
  /\ UNCHANGED <<dials, dropped, wpc, watched, attempt, wait, late>>

WatcherStep == Read \/ Register \/ Watch \/ Check \/ DialOk \/ DialFailed

Next == WatcherStep \/ Drop \/ Close

Spec == Init /\ [][Next]_vars

-----------------------------------------------------------------------------
(* Properties *)

\* The variables keep their types, and at most one connection is open.
TypeOK ==
  /\ conn \in 0 .. dials /\ open \subseteq 1 .. dials /\ dropped \subseteq (1 .. dials) \ open
  /\ Cardinality(open) <= 1
  /\ wpc \in {"read", "register", "watch", "unnotified", "check", "dial", "ended"}
  /\ attempt \in 0 .. MaxAttempt /\ kpc \in {"idle", "signalled", "returned"}

\* The wait between two attempts is never above a minute, and it is positive for
\* the first 34 of them: from then on the shift leaves the int64.
WaitIsLimited == wait <= 60 /\ (attempt <= 34 => wait >= 1)

\* After Close has returned the watcher makes at most the one connection it was
\* about to make.
OneLateDial == late <= 1

\* The watcher has ended after Close; before it, it is not looking for a
\* connection, so that one whose drop was notified has been replaced.
Recovered == IF closeCh THEN wpc = "ended" ELSE wpc \notin {"check", "dial"}
=============================================================================
