--------------------------- MODULE MCConnections ----------------------------
(* What a process keeps with others: the lock in Redis, in memory and in etcd
   with three clients, the RabbitMQ connection with its watcher, a queue whose
   messages are to be handled in the end, the WebSocket client and the WebSocket
   server; each in behaviours of its own, the others unchanged. *)
EXTENDS RedisLock

CONSTANTS
  c1,
  MaxDrops, MaxAttempt,
  Batch, Consumers, UseTransaction, DelayEnabled, Prefetch, HandlerCalls, MaxRetry, MaxFaults, m1, m2,
  Users, Runs, MaxConns,
  Conns, Callers, MaxCalls

VARIABLES
  part,
  refs, ch, memory,
  queue, etcd, gone,
  conn, dials, open, dropped, wpc, watched, attempt, wait, kpc, late,
  mode, ready, call, actor, inbox, cur, up, faults, sent, finished,
  isRunning, isConnected, done, link, links, linksOpen, broken, rpc, mine, errConn, reader, pinger, upc,
  stopped,
  conns, closed, once, lost, wsOpen, writeMu, onClose, proc, target, todo, job, calls

M == INSTANCE MemoryLock WITH pc <- memory
E == INSTANCE EtcdLock WITH pc <- etcd
B == INSTANCE RabbitConnection
Q == INSTANCE RabbitQueue WITH pc <- actor
W == INSTANCE WsClient WITH conn <- link, conns <- links, open <- linksOpen
S == INSTANCE WsServer WITH Users <- Callers, broken <- lost, pc <- proc

memoryVars == <<refs, ch, memory>>
etcdVars == <<queue, etcd, gone>>
brokerVars == <<conn, dials, open, dropped, wpc, watched, attempt, wait, kpc, late>>
queueVars == <<mode, ready, call, actor, inbox, cur, up, faults, sent, finished>>
clientVars ==
  <<isRunning, isConnected, done, link, links, linksOpen, broken, rpc, mine, errConn, reader, pinger, upc,
    stopped>>
serverVars == <<conns, closed, once, lost, wsOpen, writeMu, onClose, proc, target, todo, job, calls>>
everything == <<part, vars, memoryVars, etcdVars, brokerVars, queueVars, clientVars, serverVars>>

MCBatch == <<m1, m2>>

ConnectionsInit ==
  /\ part \in {"redis", "memory", "etcd", "broker", "queue", "client", "server"}
  /\ Init /\ M!Init /\ E!Init /\ B!Init /\ Q!Init /\ W!Init /\ S!Init
  /\ part # "queue" => mode = [tx |-> TRUE, delay |-> TRUE]

InRedis(act) ==
  /\ part = "redis" /\ act
  /\ UNCHANGED <<part, memoryVars, etcdVars, brokerVars, queueVars, clientVars, serverVars>>
InMemory(act) ==
  /\ part = "memory" /\ act
  /\ UNCHANGED <<part, vars, etcdVars, brokerVars, queueVars, clientVars, serverVars>>
InEtcd(act) ==
  /\ part = "etcd" /\ act
  /\ UNCHANGED <<part, vars, memoryVars, brokerVars, queueVars, clientVars, serverVars>>
InBroker(act) ==
  /\ part = "broker" /\ act
  /\ UNCHANGED <<part, vars, memoryVars, etcdVars, queueVars, clientVars, serverVars>>
InQueue(act) ==
  /\ part = "queue" /\ act
  /\ UNCHANGED <<part, vars, memoryVars, etcdVars, brokerVars, clientVars, serverVars>>
InClient(act) ==
  /\ part = "client" /\ act
  /\ UNCHANGED <<part, vars, memoryVars, etcdVars, brokerVars, queueVars, serverVars>>
InServer(act) ==
  /\ part = "server" /\ act
  /\ UNCHANGED <<part, vars, memoryVars, etcdVars, brokerVars, queueVars, clientVars>>

ConnectionsNext ==
  \/ InRedis(Next) \/ InMemory(M!Next) \/ InEtcd(E!Next) \/ InBroker(B!Next) \/ InQueue(Q!Next)
  \/ InClient(W!Next) \/ InServer(S!Next)

\* Goroutines that can go on do, and callbacks return; holders of the lock in etcd
\* unlock, waiters look, leases without keepalive expire; a broker or a peer that
\* is dialled again and again is reached.
ConnectionsSpec ==
  /\ ConnectionsInit /\ [][ConnectionsNext]_everything
  /\ \A c \in Clients : /\ WF_everything(InEtcd(E!Unlock(c))) /\ WF_everything(InEtcd(E!Acquire(c)))
                        /\ WF_everything(InEtcd(E!Expire(c)))
  /\ WF_everything(InBroker(B!WatcherStep))
  /\ SF_everything(InBroker(B!DialOk) \/ InClient(\E r \in Runs : W!Dialled(r)))
  /\ \A a \in Q!Actors : WF_everything(InQueue(Q!SendStep(a)))
  /\ WF_everything(InQueue(Q!ProducerStep)) /\ \A k \in Consumers : WF_everything(InQueue(Q!ConsumerStep(k)))
  /\ \A r \in Runs : /\ WF_everything(InClient(W!RunStep(r))) /\ WF_everything(InClient(W!ReaderStep(r)))
                     /\ WF_everything(InClient(W!PingerStep(r)))
  /\ \A u \in Users : WF_everything(InClient(W!UserStep(u)))
  /\ \A c \in Conns : /\ WF_everything(InServer(S!Start(c) \/ S!Pong(c) \/ S!ReadFailed(c)))
                      /\ WF_everything(InServer(S!PingStops(c)))
  /\ \A p \in S!Procs : WF_everything(InServer(S!ProcStep(p)))
  /\ \A u \in Callers : WF_everything(InServer(S!UserStep(u)))

-----------------------------------------------------------------------------
\* Every variable keeps its type.
TypesOK ==
  /\ TypeOK
  /\ part = "memory" => M!TypeOK
  /\ part = "etcd" => E!TypeOK
  /\ part = "broker" => B!TypeOK
  /\ part = "queue" => Q!TypeOK
  /\ part = "client" => W!TypeOK
  /\ part = "server" => S!TypeOK


\* The wait between two attempts to reach the broker is at most a minute.
WaitIsLimited == part = "broker" => B!WaitIsLimited

\* Whoever opens a connection closes it.  After Close the watcher of the broker's
\* connection makes at most the one it was about to make; every open connection
\* of the WebSocket client has a goroutine that closes it, and once a Stop has
\* returned the client is not connected any more; when the server's ServeHTTP
\* returns the connection is closed and OnClose was called once.
ConnectionsClose ==
  /\ part = "broker" => B!OneLateDial
  /\ part = "client" => W!OpenIsServed /\ W!StoppedIsQuiet
  /\ part = "server" => S!ServedIsClosed

\* Everything that waits comes to its end.  The lock in etcd is fair, so that c1,
\* a client like any other, does not wait for ever; the watcher of the broker's
\* connection replaces a dropped one or, after Close, ends; messages reported as
\* sent are handled; Stop of the WebSocket client returns and until then a broken
\* connection is replaced; and OnClose follows every close of the server, unless
\* a Send whose write failed holds writeMu.
NothingHangs ==
  []<>( /\ part = "etcd" => ~ E!Waits(c1)
        /\ part = "broker" => B!Recovered
        /\ part = "queue" => Q!AllFinished
        /\ part = "client" => W!Returned /\ W!Connected
        /\ part = "server" => S!ClosedOrLocked )
=============================================================================
