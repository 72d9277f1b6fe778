------------------------------ MODULE WsClient ------------------------------
(***************************************************************************)
(* net/ws/client.go: a Client, its run goroutine with the readLoop and the *)
(* pingLoop of the current connection, and the users who call Start and    *)
(* Stop.                                                                   *)
(*                                                                         *)
(* Start can launch a second run goroutine while an earlier one has not    *)
(* seen done yet, so there are several.  mu and writeMu are held for       *)
(* bounded sections (every write has a deadline): a section is one step.   *)
(* Send changes no state of the client and is left out.                    *)
(***************************************************************************)
EXTENDS Integers, FiniteSets

CONSTANTS
  Users,             \* goroutines that call Start and Stop
  Runs,              \* run goroutines that may exist: bounds the Starts
  MaxConns           \* bound on the connections made

VARIABLES
  isRunning, isConnected, done,
  conn,              \* c.conn: 0 for nil, else the number of a connection
  conns,             \* connections made so far
  open,              \* those the client has not closed
  broken,            \* those whose peer or network is gone
  rpc,               \* where each run goroutine is
  mine,              \* the connection it made
  errConn,           \* whether an error is in its channel
  reader, pinger,    \* its two loops
  upc,               \* where each user is
  stopped            \* some Stop that closed the client has returned

run == <<rpc, mine, errConn, reader, pinger>>
shared == <<isRunning, isConnected, done, conn, conns, open, broken>>
vars == <<shared, run, upc, stopped>>

Ended == {"unborn", "ended"}

\* The WaitGroup: the run goroutines that were added and are not done.
wg == Cardinality({r \in Runs : rpc[r] \notin Ended})

Init ==
  /\ isRunning = FALSE /\ isConnected = FALSE /\ done = FALSE
  /\ conn = 0 /\ conns = 0 /\ open = {} /\ broken = {}
  /\ rpc = [r \in Runs |-> "unborn"] /\ mine = [r \in Runs |-> 0]
  /\ errConn = [r \in Runs |-> FALSE]
  /\ reader = [r \in Runs |-> "off"] /\ pinger = [r \in Runs |-> "off"]
  /\ upc = [u \in Users |-> "idle"] /\ stopped = FALSE

Goto(r, l) == rpc' = [rpc EXCEPT ![r] = l]

\* A connection loses its peer.
Break ==
  /\ \E c \in open \ broken : broken' = broken \cup {c}
  /\ UNCHANGED <<isRunning, isConnected, done, conn, conns, open, run, upc, stopped>>

-----------------------------------------------------------------------------
(* Start and Stop.  The compare-and-swap is a step of its own.               *)

\* Start, when the swap succeeds (it returns otherwise; Runs bounds the Starts) ...
Start(u) ==
  /\ Cardinality({w \in Users : upc[w] = "launch"}) < Cardinality({r \in Runs : rpc[r] = "unborn"})
  /\ upc[u] = "idle" /\ ~ isRunning /\ isRunning' = TRUE
  /\ upc' = [upc EXCEPT ![u] = "launch"]
  /\ UNCHANGED <<isConnected, done, conn, conns, open, broken, run, stopped>>

\* ... and its wg.Add and go.
Launch(u) ==
  /\ upc[u] = "launch" /\ upc' = [upc EXCEPT ![u] = "idle"]
  /\ \E r \in Runs : rpc[r] = "unborn" /\ Goto(r, "top")
  /\ UNCHANGED <<shared, mine, errConn, reader, pinger, stopped>>

\* Stop, when the swap succeeds ...
Stop(u) ==
  /\ upc[u] = "idle" /\ isRunning /\ isRunning' = FALSE
  /\ upc' = [upc EXCEPT ![u] = "close"]
  /\ UNCHANGED <<isConnected, done, conn, conns, open, broken, run, stopped>>

\* ... the close of done, unless it is closed ...
CloseDone(u) ==
  /\ upc[u] = "close" /\ upc' = [upc EXCEPT ![u] = "wait"] /\ done' = TRUE
  /\ UNCHANGED <<isRunning, isConnected, conn, conns, open, broken, run, stopped>>

\* Mutant: Stop does not wait.
WaitedNot(u) ==
  /\ upc[u] = "wait" /\ upc' = [upc EXCEPT ![u] = "closeConn"]
  /\ UNCHANGED <<shared, run, stopped>>

\* ... wg.Wait ...
Waited(u) ==
  /\ upc[u] = "wait" /\ wg = 0 /\ upc' = [upc EXCEPT ![u] = "closeConn"]
  /\ UNCHANGED <<shared, run, stopped>>

\* ... and closeConn.
closeConn(u) ==
  /\ upc[u] = "closeConn" /\ upc' = [upc EXCEPT ![u] = "idle"]
  /\ conn' = 0 /\ open' = open \ {conn} /\ stopped' = TRUE
  /\ UNCHANGED <<isRunning, isConnected, done, conns, broken, run>>

-----------------------------------------------------------------------------
(* run *)

\* The look at done at the top of the loop.
Top(r) ==
  /\ rpc[r] = "top" /\ Goto(r, IF done THEN "ended" ELSE "dial")
  /\ UNCHANGED <<shared, mine, errConn, reader, pinger, upc, stopped>>

\* connect: the dial fails ...
DialFailed(r) ==
  /\ rpc[r] = "dial" /\ Goto(r, "backoff")
  /\ UNCHANGED <<shared, mine, errConn, reader, pinger, upc, stopped>>

\* ... or gives a connection.
Dialled(r) ==
  /\ rpc[r] = "dial" /\ conns < MaxConns /\ Goto(r, "switch")
  /\ conns' = conns + 1 /\ mine' = [mine EXCEPT ![r] = conns'] /\ open' = open \cup {conns'}
  /\ UNCHANGED <<isRunning, isConnected, done, conn, broken, errConn, reader, pinger, upc, stopped>>

\* Another connection in c.conn is closed, with mu released ...
Switch(r) ==
  /\ rpc[r] = "switch" /\ Goto(r, "adopt") /\ open' = open \ {conn}
  /\ UNCHANGED <<isRunning, isConnected, done, conn, conns, broken, mine, errConn, reader, pinger, upc, stopped>>

\* ... before c.conn is set.  isConnected, onConnect and the two loops follow.
Adopt(r) ==
  /\ rpc[r] = "adopt" /\ Goto(r, "select") /\ conn' = mine[r] /\ isConnected' = TRUE
  /\ reader' = [reader EXCEPT ![r] = "on"] /\ pinger' = [pinger EXCEPT ![r] = "on"]
  /\ UNCHANGED <<isRunning, done, conns, open, broken, mine, errConn, upc, stopped>>

\* Mutant: only errConn is waited for.
SelectError(r) ==
  /\ rpc[r] = "select" /\ errConn[r] /\ Goto(r, "close")
  /\ UNCHANGED <<shared, mine, errConn, reader, pinger, upc, stopped>>

\* The select on errConn and done.
Select(r) ==
  /\ rpc[r] = "select" /\ (errConn[r] \/ done) /\ Goto(r, "close")
  /\ UNCHANGED <<shared, mine, errConn, reader, pinger, upc, stopped>>

\* Mutant: the connection is left to the garbage collector.
closeSpecificConnNot(r) ==
  /\ rpc[r] = "close" /\ Goto(r, "join")
  /\ conn' = IF conn = mine[r] THEN 0 ELSE conn
  /\ UNCHANGED <<isRunning, isConnected, done, conns, open, broken, mine, errConn, reader, pinger, upc, stopped>>

\* cancelConn and closeSpecificConn.
closeSpecificConn(r) ==
  /\ rpc[r] = "close" /\ Goto(r, "join")
  /\ open' = open \ {mine[r]} /\ conn' = IF conn = mine[r] THEN 0 ELSE conn
  /\ UNCHANGED <<isRunning, isConnected, done, conns, broken, mine, errConn, reader, pinger, upc, stopped>>

\* wgConn.Wait, isConnected, onDisconnect, and the look at done.
Disconnected(r) ==
  /\ rpc[r] = "join" /\ reader[r] = "off" /\ pinger[r] = "off"
  /\ isConnected' = FALSE /\ Goto(r, IF done THEN "ended" ELSE "backoff")
  /\ mine' = [mine EXCEPT ![r] = 0] /\ errConn' = [errConn EXCEPT ![r] = FALSE]
  /\ broken' = broken \cap open
  /\ UNCHANGED <<isRunning, done, conn, conns, open, reader, pinger, upc, stopped>>

\* waitOrDone: the timer, whose duration is backoff's, or done.
waitOrDone(r) ==
  /\ rpc[r] = "backoff"
  /\ \/ Goto(r, "top")
     \/ done /\ Goto(r, "ended")
  /\ UNCHANGED <<shared, mine, errConn, reader, pinger, upc, stopped>>

-----------------------------------------------------------------------------
(* The loops of a connection.  A read blocks until a message, or until the   *)
(* connection breaks or is closed; ctxConn is cancelled from "join" on.      *)

Dead(r) == mine[r] \notin open \ broken

\* A message arrives; onMessage runs in readLoop.
Message(r) ==
  /\ reader[r] = "on" /\ ~ Dead(r) /\ reader' = [reader EXCEPT ![r] = "onMessage"]
  /\ UNCHANGED <<shared, rpc, mine, errConn, pinger, upc, stopped>>

\* onMessage returns, and the loop looks at the context.
MessageHandled(r) ==
  /\ reader[r] = "onMessage"
  /\ reader' = [reader EXCEPT ![r] = IF rpc[r] = "join" THEN "off" ELSE "on"]
  /\ UNCHANGED <<shared, rpc, mine, errConn, pinger, upc, stopped>>

\* The read fails: the error is sent unless one is there.
ReadFailed(r) ==
  /\ reader[r] = "on" /\ Dead(r) /\ reader' = [reader EXCEPT ![r] = "off"]
  /\ errConn' = [errConn EXCEPT ![r] = TRUE]
  /\ UNCHANGED <<shared, rpc, mine, pinger, upc, stopped>>

\* A ping fails: the error is sent unless one is there.
PingFailed(r) ==
  /\ pinger[r] = "on" /\ Dead(r) /\ pinger' = [pinger EXCEPT ![r] = "off"]
  /\ errConn' = [errConn EXCEPT ![r] = TRUE]
  /\ UNCHANGED <<shared, rpc, mine, reader, upc, stopped>>

\* pingLoop sees the cancelled context.
PingEnds(r) ==
  /\ pinger[r] = "on" /\ rpc[r] = "join" /\ pinger' = [pinger EXCEPT ![r] = "off"]
  /\ UNCHANGED <<shared, rpc, mine, errConn, reader, upc, stopped>>

-----------------------------------------------------------------------------

RunStep(r) ==
  \/ Top(r) \/ DialFailed(r) \/ Dialled(r) \/ Switch(r) \/ Adopt(r) \/ Select(r)
  \/ closeSpecificConn(r) \/ Disconnected(r) \/ waitOrDone(r)

ReaderStep(r) == MessageHandled(r) \/ ReadFailed(r)
PingerStep(r) == PingFailed(r) \/ PingEnds(r)

UserStep(u) == Launch(u) \/ CloseDone(u) \/ Waited(u) \/ closeConn(u)

Next ==
  \/ \E r \in Runs : RunStep(r) \/ ReaderStep(r) \/ PingerStep(r) \/ Message(r)
  \/ \E u \in Users : Start(u) \/ Stop(u) \/ UserStep(u)
  \/ Break

Spec == Init /\ [][Next]_vars

-----------------------------------------------------------------------------
(* Properties *)

\* The variables keep their types.
TypeOK ==
  /\ isRunning \in BOOLEAN /\ isConnected \in BOOLEAN /\ done \in BOOLEAN
  /\ conns \in 0 .. MaxConns /\ conn \in 0 .. conns /\ open \subseteq 1 .. conns
  /\ \A r \in Runs : reader[r] # "off" \/ pinger[r] # "off" => rpc[r] \in {"select", "close", "join"}

\* Every connection that is not closed belongs to a run goroutine that will close
\* it, also when two of them switch c.conn under each other.
OpenIsServed ==
  \A c \in open : \E r \in Runs : mine[r] = c /\ rpc[r] \in {"switch", "adopt", "select", "close"}

\* Once a Stop has returned the client is not connected and never will be, even
\* when a Start raced with the Stop.
StoppedIsQuiet == stopped => open = {} /\ conn = 0 /\ ~ isConnected

\* No Stop is waiting.
Returned == \A u \in Users : upc[u] = "idle"

\* No goroutine of a client that is not stopped is without a connection that
\* works; the bound on the connections aside.
Connected ==
  \A r \in Runs : rpc[r] \in {"top", "dial", "backoff", "close", "join"} \/ (rpc[r] = "select" /\ mine[r] \in broken)
                  => done \/ conns = MaxConns
=============================================================================
