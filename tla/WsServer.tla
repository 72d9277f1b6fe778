------------------------------ MODULE WsServer ------------------------------
(***************************************************************************)
(* net/ws/server.go: a Server, the run and pingLoop goroutines of each of  *)
(* its connections, and the users who call Send, Broadcast and CloseAll.   *)
(*                                                                         *)
(* A write has a deadline, so the sections under writeMu are one step -    *)
(* except the one of Send whose write fails: it calls Close with writeMu   *)
(* held.  The custom data of a connection is left out.                     *)
(***************************************************************************)
EXTENDS Integers, FiniteSets

CONSTANTS
  Conns,             \* connections that may be accepted
  Users,             \* goroutines that call Broadcast and CloseAll
  MaxCalls           \* bound on their calls

VARIABLES
  conns,             \* s.conns
  closed,            \* connections with closed set and stopCh closed
  once,              \* closeOnce: "no", "running", "done"
  broken,            \* connections whose peer or network is gone
  wsOpen,            \* connections whose socket is not closed
  writeMu,           \* who holds writeMu of each connection past a step, or Nobody
  onClose,           \* calls of OnClose
  pc,                \* where each goroutine is
  target,            \* the connection it works on
  todo,              \* what is left of a user's copy of s.conns
  job,               \* what the user does with it
  calls              \* calls of each user

server == <<conns, closed, once, broken, wsOpen, writeMu, onClose>>
vars == <<server, pc, target, todo, job, calls>>

Reader(c) == <<"run", c>>
Pinger(c) == <<"pingLoop", c>>
User(u) == <<"user", u>>
Procs == {"run", "pingLoop"} \X Conns \cup {"user"} \X Users
Nobody == <<"nobody">>

Init ==
  /\ conns = {} /\ closed = {} /\ broken = {} /\ wsOpen = {}
  /\ once = [c \in Conns |-> "no"] /\ writeMu = [c \in Conns |-> Nobody]
  /\ onClose = [c \in Conns |-> 0]
  /\ pc = [p \in Procs |-> IF p[1] = "user" THEN "idle" ELSE "unborn"]
  /\ target = [p \in Procs |-> p[2]]
  /\ todo = [u \in Users |-> {}] /\ job = [u \in Users |-> "none"]
  /\ calls = [u \in Users |-> 0]

Goto(p, l) == pc' = [pc EXCEPT ![p] = l]
user == <<target, todo, job, calls>>

\* Where a goroutine goes on after Send or Close.
Back(p) == CASE p[1] = "user" -> "each" [] p[1] = "run" /\ pc[p] = "send" -> "read" [] OTHER -> "ended"

\* A peer, or the network, goes away.
Break(c) ==
  /\ c \in wsOpen \ broken /\ broken' = broken \cup {c}
  /\ UNCHANGED <<conns, closed, once, wsOpen, writeMu, onClose, pc, user>>

-----------------------------------------------------------------------------
(* Close, called by any goroutine at "close" *)

\* Mutant: a flag in place of the Once, whose loser does not wait.
CloseBeginFlag(p, c) ==
  /\ pc[p] = "close" /\ target[p] = c
  /\ IF once[c] # "no"
     THEN Goto(p, Back(p)) /\ UNCHANGED <<conns, closed, once>>
     ELSE /\ once' = [once EXCEPT ![c] = "running"] /\ Goto(p, "closing")
          /\ closed' = closed \cup {c} /\ conns' = conns \ {c}
  /\ UNCHANGED <<broken, wsOpen, writeMu, onClose, user>>

\* The Once: the first caller sets closed, closes stopCh and calls removeConn; a
\* later one waits until the first is done.
CloseBegin(p, c) ==
  /\ pc[p] = "close" /\ target[p] = c
  /\ \/ once[c] = "done" /\ Goto(p, Back(p)) /\ UNCHANGED <<conns, closed, once>>
     \/ /\ once[c] = "no" /\ once' = [once EXCEPT ![c] = "running"] /\ Goto(p, "closing")
        /\ closed' = closed \cup {c} /\ conns' = conns \ {c}
  /\ UNCHANGED <<broken, wsOpen, writeMu, onClose, user>>

\* Under writeMu: the close message and the close of the socket.
CloseSocket(p, c) ==
  /\ pc[p] = "closing" /\ target[p] = c /\ writeMu[c] = Nobody
  /\ wsOpen' = wsOpen \ {c} /\ Goto(p, "onClose")
  /\ UNCHANGED <<conns, closed, once, broken, writeMu, onClose, user>>

\* OnClose, and the end of the Once.
OnClose(p, c) ==
  /\ pc[p] = "onClose" /\ target[p] = c
  /\ onClose' = [onClose EXCEPT ![c] = @ + 1] /\ once' = [once EXCEPT ![c] = "done"]
  /\ Goto(p, Back(p))
  /\ UNCHANGED <<conns, closed, broken, wsOpen, writeMu, user>>

Close(p, c) == CloseBegin(p, c) \/ CloseSocket(p, c) \/ OnClose(p, c)

-----------------------------------------------------------------------------
(* Send, called at "send": the first look at closed, then the section under  *)
(* writeMu with the second look and the write.                               *)

\* The write fails on a connection that broke: Close, with writeMu held.
SendFails(p, c) ==
  /\ c \notin closed /\ c \in broken
  /\ writeMu' = [writeMu EXCEPT ![c] = p] /\ Goto(p, "close")

\* It succeeds, or the connection is closed.
SendReturns(p, c) ==
  /\ c \in closed \/ c \notin broken
  /\ Goto(p, Back(p)) /\ UNCHANGED writeMu

Send(p, c) ==
  /\ pc[p] = "send" /\ target[p] = c
  /\ \/ c \in closed /\ Goto(p, Back(p)) /\ UNCHANGED writeMu
     \/ writeMu[c] = Nobody /\ (SendFails(p, c) \/ SendReturns(p, c))
  /\ UNCHANGED <<conns, closed, once, broken, wsOpen, onClose, user>>

-----------------------------------------------------------------------------
(* The goroutines of a connection *)

\* upgrade: addConn, then OnUpgrade; OnConnect follows.
Upgrade(c) ==
  /\ pc[Reader(c)] = "unborn" /\ Goto(Reader(c), "start")
  /\ conns' = conns \cup {c} /\ wsOpen' = wsOpen \cup {c}
  /\ UNCHANGED <<closed, once, broken, writeMu, onClose, user>>

\* run starts pingLoop, and reads.
Start(c) ==
  /\ pc[Reader(c)] = "start"
  /\ pc' = [pc EXCEPT ![Reader(c)] = "read", ![Pinger(c)] = "select"]
  /\ UNCHANGED <<server, user>>

\* A message, which OnMessage may answer with Send, or a ping.
Message(c) ==
  /\ pc[Reader(c)] = "read" /\ c \in wsOpen \ broken
  /\ \E l \in {"send", "pong"} : Goto(Reader(c), l)
  /\ UNCHANGED <<server, user>>

\* The handler of pings answers under writeMu, unless closed; its error is the
\* read's.
Pong(c) ==
  /\ pc[Reader(c)] = "pong" /\ writeMu[c] = Nobody
  /\ Goto(Reader(c), IF c \in broken \ closed THEN "close" ELSE "read")
  /\ UNCHANGED <<server, user>>

\* The read fails, or its deadline passes: Close, deferred.
ReadFailed(c) ==
  /\ pc[Reader(c)] = "read" /\ c \notin wsOpen \ broken /\ Goto(Reader(c), "close")
  /\ UNCHANGED <<server, user>>

\* pingLoop: a tick, and the ping under writeMu, unless closed.
Tick(c) ==
  /\ pc[Pinger(c)] = "select" /\ writeMu[c] = Nobody
  /\ \/ c \in closed /\ Goto(Pinger(c), "ended")
     \/ c \in broken \ closed /\ Goto(Pinger(c), "close")
  /\ UNCHANGED <<server, user>>

\* pingLoop: stopCh.
PingStops(c) ==
  /\ pc[Pinger(c)] = "select" /\ c \in closed /\ Goto(Pinger(c), "ended")
  /\ UNCHANGED <<server, user>>

-----------------------------------------------------------------------------
(* Broadcast and CloseAll: a copy of conns, then Send or Close for each.     *)

Call(u, j) ==
  /\ pc[User(u)] = "idle" /\ calls[u] < MaxCalls /\ Goto(User(u), "each")
  /\ calls' = [calls EXCEPT ![u] = @ + 1]
  /\ todo' = [todo EXCEPT ![u] = conns] /\ job' = [job EXCEPT ![u] = j]
  /\ UNCHANGED <<server, target>>

Broadcast(u) == Call(u, "send")
CloseAll(u) == Call(u, "close")

Each(u) ==
  /\ pc[User(u)] = "each"
  /\ \E c \in todo[u] : /\ todo' = [todo EXCEPT ![u] = @ \ {c}]
                        /\ target' = [target EXCEPT ![User(u)] = c]
                        /\ Goto(User(u), job[u])
  /\ UNCHANGED <<server, job, calls>>

Return(u) ==
  /\ pc[User(u)] = "each" /\ todo[u] = {} /\ Goto(User(u), "idle")
  /\ target' = [target EXCEPT ![User(u)] = u] /\ job' = [job EXCEPT ![u] = "none"]
  /\ UNCHANGED <<server, todo, calls>>

-----------------------------------------------------------------------------

ConnStep(c) == Start(c) \/ Pong(c) \/ ReadFailed(c) \/ Tick(c) \/ PingStops(c)
ProcStep(p) == \E c \in Conns : Send(p, c) \/ Close(p, c)
UserStep(u) == Each(u) \/ Return(u)

Next ==
  \/ \E c \in Conns : Upgrade(c) \/ Break(c) \/ Message(c) \/ ConnStep(c)
  \/ \E p \in Procs : ProcStep(p)
  \/ \E u \in Users : Broadcast(u) \/ CloseAll(u) \/ UserStep(u)

Spec == Init /\ [][Next]_vars

\* Goroutines that can go on do, and callbacks return.
Fairness ==
  /\ \A c \in Conns : WF_vars(Start(c) \/ Pong(c) \/ ReadFailed(c)) /\ WF_vars(PingStops(c))
  /\ \A p \in Procs : WF_vars(ProcStep(p))
  /\ \A u \in Users : WF_vars(UserStep(u))

FairSpec == Spec /\ Fairness

-----------------------------------------------------------------------------
(* Properties *)

\* The variables keep their types.
TypeOK ==
  /\ conns \subseteq Conns \ closed /\ broken \subseteq Conns /\ wsOpen \subseteq Conns
  /\ \A c \in Conns : writeMu[c] \in Procs \cup {Nobody} /\ (once[c] = "no" <=> c \notin closed)
  /\ \A p \in Procs : pc[p] \in {"send", "close", "closing", "onClose"} => target[p] \in Conns

\* When ServeHTTP returns its connection is no longer counted, its socket is
\* closed and OnClose was called exactly once, whoever called Close first.
ServedIsClosed ==
  \A c \in Conns : pc[Reader(c)] = "ended" => c \notin conns \cup wsOpen /\ onClose[c] = 1

\* A Send whose write failed holds writeMu and waits for Close, which waits for
\* writeMu: in the same goroutine, or in the one that runs the Once.
SendLocked(c) == writeMu[c] # Nobody

\* OnClose was called for every connection that was closed, except when a Send whose
\* write failed holds writeMu.
ClosedOrLocked == \A c \in closed : onClose[c] = 1 \/ SendLocked(c)

\* OnClose is called for every connection that is closed.
OnCloseCalled == \A c \in Conns : c \in closed ~> onClose[c] = 1
=============================================================================
