----------------------------- MODULE MCRequests -----------------------------
(* What becomes of one request or query, or of a few that meet: a batch of
   three requests, a client's middleware chain, two downloads, the log of a
   body, a filtered query, nested transactions, three callers that save one key,
   and a key's cache; each in behaviours of its own. *)
EXTENDS UntilComplete, Sequences

CONSTANTS
  Chains, Inner, MaxRetries, MaxInt8, Codes,
  Requests, Names, Rows, BatchSize,
  Bodies, Limits,
  Texts, TextValues, DefaultSize, Pagings, Null, NilList, Nothing,
  Dbs, MaxFrames, MaxWrites,
  Callers, Calls,
  Insts, Readers, Inst, Home, MaxVersion, r1, r2, r3, i1, i2,
  None

VARIABLES
  part,
  at,                \* pc of the downloads, the callers and the readers
  chain, handlers, index, stack, error, response, got, aborted, outcome,
  name, csv, cached, body, rows, dir, by, length, alone, spilled,
  binary, limit, sent, buffer, written, logged,
  field, scopes, where, page, total, state,
  ended, data, panicking,
  call, row, born, lock, held, op, created,
  twoLevel, origin, remote, local, val, leader, wpc, wval, missed

H == INSTANCE HttpChain
D == INSTANCE Download WITH pc <- at
L == INSTANCE RequestLog
F == INSTANCE Filter
T == INSTANCE Transaction
Q == INSTANCE QueryAndSave WITH pc <- at, pending <- held
C == INSTANCE Cache WITH pc <- at

chainOnly == <<chain, handlers, index, error, response, got, aborted, outcome>>
downloadOnly == <<name, csv, cached, dir, by, length, alone, spilled>>
logOnly == <<binary, limit, sent, buffer, written, logged>>
filterOnly == <<field, scopes, where, page, total, state>>
transactionOnly == <<ended, data, panicking>>
saveOnly == <<call, row, born, lock, held, op, created>>
cacheOnly == <<twoLevel, origin, remote, local, val, leader, wpc, wval, missed>>
others ==
  <<part, at, stack, rows, body, chainOnly, downloadOnly, logOnly, filterOnly, transactionOnly, saveOnly,
    cacheOnly>>
everything == <<vars, others>>

-----------------------------------------------------------------------------
(* The instances *)

Kinds == {"recovery", "wrap", "validate", "check", "retry", "faulty", "compose"}
MCChains == UNION {[1 .. n -> Kinds] : n \in 0 .. 3}
MCInner == <<"validate", "faulty">>
\* "h" and "t" are the two bytes of one rune.
MCBodies == UNION {[1 .. n -> {"a", "h", "t"}] : n \in 0 .. 4}
MCLimits == {-1, 0, 1, 2, 3, 5}
MCTexts == << <<"a">>, <<"%">>, <<"_">>, <<"\\">>, <<"a", "%">>, <<"\\", "%">>, <<"a", "_">>, <<>> >>
MCTextValues == {<<>>, <<"a">>, <<"%">>, <<"_">>, <<"\\">>, <<"\\", "%">>, <<"a", "%">>}
MCPagings == [page : 0 .. 3, size : {0, 2}, all : {FALSE}] \cup [page : {1}, size : {2}, all : {TRUE}]
MCInst == [r \in {r1, r2, r3} |-> IF r = r3 THEN i2 ELSE i1]

\* The variables of the parts that do not run have the value None.
NoChain == /\ chain = None /\ handlers = None /\ index = None /\ error = None /\ response = None
           /\ got = None /\ aborted = None /\ outcome = None
NoDownload == /\ name = None /\ csv = None /\ cached = None /\ dir = None /\ by = None /\ length = None
              /\ alone = None /\ spilled = None
NoLog == /\ binary = None /\ limit = None /\ sent = None /\ buffer = None /\ written = None /\ logged = None
NoFilter == /\ field = None /\ scopes = None /\ where = None /\ page = None /\ total = None /\ state = None
NoTransaction == ended = None /\ data = None /\ panicking = None
NoSave == /\ call = None /\ row = None /\ born = None /\ lock = None /\ held = None /\ op = None
          /\ created = None
NoCache == /\ twoLevel = None /\ origin = None /\ remote = None /\ local = None /\ val = None /\ leader = None /\ wpc = None
           /\ wval = None /\ missed = None

RequestsInit ==
  /\ Init
  /\ part \in {"batch", "chain", "download", "log", "filter", "transaction", "save", "cache"}
  /\ IF part = "chain" THEN H!Init ELSE NoChain
  /\ IF part = "download" THEN D!Init ELSE NoDownload
  /\ IF part = "log" THEN L!Init ELSE NoLog
  /\ IF part = "filter" THEN F!Init ELSE NoFilter
  /\ IF part = "transaction" THEN T!Init ELSE NoTransaction
  /\ IF part = "save" THEN Q!Init ELSE NoSave
  /\ IF part = "cache" THEN C!Init ELSE NoCache
  /\ part \in {"chain", "transaction"} \/ stack = None
  /\ part \in {"download", "transaction"} \/ rows = None
  /\ part \in {"download", "log"} \/ body = None
  /\ part \in {"download", "save", "cache"} \/ at = None

-----------------------------------------------------------------------------
InBatch(A) == part = "batch" /\ A /\ UNCHANGED others
InChain(A) ==
  /\ part = "chain" /\ A
  /\ UNCHANGED <<vars, part, at, rows, body, downloadOnly, logOnly, filterOnly, transactionOnly, saveOnly, cacheOnly>>
InDownload(A) ==
  /\ part = "download" /\ A
  /\ UNCHANGED <<vars, part, stack, chainOnly, logOnly, filterOnly, transactionOnly, saveOnly, cacheOnly>>
InLog(A) ==
  /\ part = "log" /\ A
  /\ UNCHANGED <<vars, part, at, stack, rows, chainOnly, downloadOnly, filterOnly, transactionOnly, saveOnly, cacheOnly>>
InFilter(A) ==
  /\ part = "filter" /\ A
  /\ UNCHANGED <<vars, part, at, stack, rows, body, chainOnly, downloadOnly, logOnly, transactionOnly, saveOnly,
                 cacheOnly>>
InTransaction(A) ==
  /\ part = "transaction" /\ A
  /\ UNCHANGED <<vars, part, at, body, chainOnly, downloadOnly, logOnly, filterOnly, saveOnly, cacheOnly>>
InSave(A) ==
  /\ part = "save" /\ A
  /\ UNCHANGED <<vars, part, stack, rows, body, chainOnly, downloadOnly, logOnly, filterOnly, transactionOnly, cacheOnly>>
InCache(A) ==
  /\ part = "cache" /\ A
  /\ UNCHANGED <<vars, part, twoLevel, stack, rows, body, chainOnly, downloadOnly, logOnly, filterOnly, transactionOnly, saveOnly>>

RequestsNext ==
  \/ InBatch(Next) \/ InChain(H!Next) \/ InDownload(D!Next) \/ InLog(L!Next) \/ InFilter(F!Next)
  \/ InTransaction(T!Next) \/ InSave(Q!Next) \/ InCache(C!Next)

\* A batch's context has a deadline; a chain is one goroutine, which runs on;
\* callers of the database go on, their commits get through in the end, and
\* nobody need be told of an error; calls of the cache go on and entries expire.
RequestsSpec ==
  /\ RequestsInit /\ [][RequestsNext]_everything
  /\ WF_everything(InBatch(Step)) /\ WF_everything(InBatch(Deadline))
  /\ WF_everything(InChain(H!Next))
  /\ \A c \in Callers : WF_everything(InSave(Q!CallerStep(c)))
  /\ \A r \in Readers : WF_everything(InCache(C!ReaderStep(r)))
  /\ WF_everything(InCache(C!WriterStep)) /\ WF_everything(InCache(C!ExpireRemote))
  /\ \A i \in Insts : WF_everything(InCache(C!ExpireLocal(i)))

-----------------------------------------------------------------------------
\* Every variable keeps its type.
TypesOK ==
  /\ TypeOK
  /\ part = "chain" => H!TypeOK
  /\ part = "download" => D!TypeOK
  /\ part = "log" => L!TypeOK
  /\ part = "filter" => F!TypeOK
  /\ part = "transaction" => T!TypeOK
  /\ part = "save" => Q!TypeOK
  /\ part = "cache" => C!TypeOK

\* A middleware that aborts keeps the request from being sent, save for a
\* RetryMiddleware further out; a result without an error has a response that
\* satisfies every check that is not registered inside a RetryMiddleware; and
\* RetryMiddleware repeats at most maxRetries times and never after a 4xx.
ChainHolds == part = "chain" => H!AbortHolds /\ H!NoErrorMeansChecked /\ H!RetriesAreLimited

\* The node is blamed for what the node did, by the classifier and the transport.
NodeIsJudgedByReply == part = "chain" => H!NodeIsJudgedByReply

\* A download that overlaps none of the same file name delivers its own rows, all
\* of them; a request is answered once, unless its service wrote and then failed;
\* and no file is left behind save by a panic or a failure right after creating it.
DownloadIsWhole == part = "download" => D!SentIsOwn /\ D!AnsweredOnce /\ D!NoFileLeft

\* The buffer of the response log holds the first bytes up to the limit, however
\* the handler cuts its writes, and what is logged as text is a readable beginning
\* of the body within the limit.
LogIsReadable == part = "log" => L!BufferIsPrefix /\ L!LogIsReadable


\* The database holds what its callers were told.  A row is committed exactly when
\* all frames of its context ended well.  Of the callers that save one key, who
\* asks for an insert is told that it inserted exactly when it created the row,
\* which without a Delete happens once, and the row to be read is one whose writer
\* was told of success.
DatabaseIsAsTold ==
  /\ part = "transaction" => T!CommittedIsApproved /\ T!ApprovedIsCommitted
  /\ part = "save" => Q!InsertIsCreation /\ Q!CreatedOnce /\ Q!RowIsAcknowledged


\* DoUntilComplete returns when its context has a deadline, a client's chain comes
\* to its end, and no two callers that save wait for each other's lock.
RequestsReturn ==
  []<>( /\ part = "batch" => Returned
        /\ part = "chain" => H!Returned
        /\ part = "save" => Q!Returned )
=============================================================================
