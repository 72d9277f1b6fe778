------------------------------- MODULE Download -------------------------------
(* A request served by the gin controller C / CD (provider/HTTPServer/gin) and,
   when it asks for a download, by the exporter (provider/exporter, export): the
   answer is taken from the request cache or computed, and goes out as JSON or
   as a file that is written under the name the request gives, sent and removed.
   The requests run at the same time and share the directory.                *)
EXTENDS Naturals, Sequences, FiniteSets

CONSTANTS Requests, Names,
          Rows,        \* rows in the list to export
          BatchSize,   \* rows per WriteRows (100 in the code)
          None

VARIABLES pc,          \* what each request does next
          name,        \* X-DOWNLOAD-NAME with the extension, None for JSON
          csv,         \* the format writes its file as it goes, not at the end
          cached,      \* the answer is in option.Cache (all requests ask the same)
          body,        \* what was written to each client
          rows,        \* rows handed to each request's writer
          dir,         \* the directory: the file under each name
          by, length,  \* who wrote each file last, and how many rows are in it
          alone,       \* requests that overlap no other of the same name
          spilled      \* requests that ended without removing their file

vars == <<pc, name, csv, cached, body, rows, dir, by, length, alone, spilled>>

Steps == {"start", "work", "store", "answer", "create", "write", "close", "send", "cleanup", "done"}
Writing == {"write", "close", "send", "cleanup"}

(* A file is known by the request that created it. *)
TypeOK == /\ pc \in [Requests -> Steps]
          /\ name \in [Requests -> Names \cup {None}]
          /\ csv \in [Requests -> BOOLEAN]
          /\ cached \in BOOLEAN
          /\ \A r \in Requests : Len(body[r]) <= 2
          /\ rows \in [Requests -> 0 .. Rows]
          /\ dir \in [Names -> Requests \cup {None}]
          /\ by \in [Requests -> Requests \cup {None}]
          /\ length \in [Requests -> 0 .. Rows]
          /\ alone \subseteq Requests /\ spilled \subseteq Requests

Init == /\ pc = [r \in Requests |-> "start"]
        /\ name \in [Requests -> Names \cup {None}]
        /\ csv \in [Requests -> BOOLEAN]
        /\ cached = FALSE
        /\ body = [r \in Requests |-> <<>>]
        /\ rows = [r \in Requests |-> 0]
        /\ dir = [n \in Names |-> None]
        /\ by = [r \in Requests |-> None]
        /\ length = [r \in Requests |-> 0]
        /\ alone = Requests /\ spilled = {}

Goto(r, p) == pc' = [pc EXCEPT ![r] = p]
Plain(what) == [what |-> what, by |-> None, rows |-> 0]
Answered(r, msg) == body' = [body EXCEPT ![r] = Append(@, msg)]
AbortWithError(r) == Goto(r, "done") /\ Answered(r, Plain("error"))
Files == <<dir, by, length>>

---------------------------------------------------------------------------
(* The request's body cannot be read or bound. *)
BindFails(r) == /\ pc[r] = "start"
                /\ AbortWithError(r)
                /\ UNCHANGED <<name, csv, cached, rows, Files, alone, spilled>>

(* The cache answers, or fails and is reported, or has nothing. *)
CacheGet(r) == /\ pc[r] = "start"
               /\ Goto(r, "work") \/ (cached /\ Goto(r, "answer"))
               /\ UNCHANGED <<name, csv, cached, body, rows, Files, alone, spilled>>

(* The service function, which may write the response itself. *)
Wrapper(r, own, err) ==
    /\ pc[r] = "work"
    /\ body' = [body EXCEPT ![r] = (IF own THEN <<Plain("own")>> ELSE <<>>)
                                      \o (IF err THEN <<Plain("error")>> ELSE <<>>)]
    /\ Goto(r, IF err THEN "done" ELSE "store")
    /\ UNCHANGED <<name, csv, cached, rows, Files, alone, spilled>>

(* Recovery: status 500 and no body. *)
Recovery(r) == /\ pc[r] = "work"
               /\ Goto(r, "done") /\ Answered(r, Plain("500"))
               /\ UNCHANGED <<name, csv, cached, rows, Files, alone, spilled>>

(* option.Cache.Set, whose error is only reported. *)
CacheSet(r) == /\ pc[r] = "store"
               /\ Goto(r, "answer")
               /\ cached' \in {cached, TRUE}
               /\ UNCHANGED <<name, csv, body, rows, Files, alone, spilled>>

(* Mutant: C answers although the service function has answered. *)
AnswerAgain(r) == /\ pc[r] = "answer"
                  /\ \/ name[r] # None /\ Goto(r, "create") /\ UNCHANGED body
                     \/ name[r] = None /\ Goto(r, "done") /\ Answered(r, Plain("json"))
                  /\ UNCHANGED <<name, csv, cached, rows, Files, alone, spilled>>

(* C: nothing when the response is written, else a file or JSON. *)
Answer(r) == /\ pc[r] = "answer"
             /\ \/ body[r] # <<>> /\ Goto(r, "done") /\ UNCHANGED body
                \/ body[r] = <<>> /\ name[r] # None /\ Goto(r, "create") /\ UNCHANGED body
                \/ body[r] = <<>> /\ name[r] = None /\ Goto(r, "done") /\ Answered(r, Plain("json"))
             /\ UNCHANGED <<name, csv, cached, rows, Files, alone, spilled>>

---------------------------------------------------------------------------
Others(r) == {q \in Requests \ {r} : pc[q] \in Writing /\ name[q] = name[r]}

(* os.Create: the file under the name, emptied, or a new one.  Two CSV writers
   of one file write into each other; the file then counts as the later one's. *)
Create(r) == LET f == IF dir[name[r]] = None THEN r ELSE dir[name[r]]
             IN  /\ dir' = [dir EXCEPT ![name[r]] = f]
                 /\ by' = [by EXCEPT ![f] = r]
                 /\ length' = [length EXCEPT ![f] = 0]

(* NewWriter: CSV creates its file and writes the byte order mark. *)
NewWriter(r) ==
    /\ pc[r] = "create"
    /\ IF csv[r] THEN Create(r) ELSE UNCHANGED Files
    /\ alone' = IF Others(r) = {} THEN alone ELSE alone \ (Others(r) \cup {r})
    /\ Goto(r, "write")
    /\ UNCHANGED <<name, csv, cached, body, rows, spilled>>

(* NewWriter fails: an unknown format, a refused name, or CSV's byte order mark
   cannot be written, which leaves the created file behind. *)
NewWriterFails(r, made) ==
    /\ pc[r] = "create"
    /\ IF made THEN csv[r] /\ Create(r) /\ spilled' = spilled \cup {r}
               ELSE UNCHANGED <<Files, spilled>>
    /\ alone' = IF made THEN alone \ (Others(r) \cup {r}) ELSE alone
    /\ AbortWithError(r)
    /\ UNCHANGED <<name, csv, cached, rows>>

(* Mutant: what is left after the last full batch is not written. *)
WriteRowsFull(r) ==
    /\ pc[r] = "write"
    /\ LET n == IF rows[r] + BatchSize <= Rows THEN rows[r] + BatchSize ELSE rows[r]
       IN  /\ rows' = [rows EXCEPT ![r] = n]
           /\ Goto(r, IF n + BatchSize > Rows THEN "close" ELSE "write")
    /\ UNCHANGED <<name, csv, cached, body, Files, alone, spilled>>

(* analysis: the header, then batch after batch and the rest. *)
WriteRows(r) ==
    /\ pc[r] = "write"
    /\ LET n == IF rows[r] + BatchSize <= Rows THEN rows[r] + BatchSize ELSE Rows
       IN  /\ rows' = [rows EXCEPT ![r] = n]
           /\ Goto(r, IF n = Rows THEN "close" ELSE "write")
    /\ UNCHANGED <<name, csv, cached, body, Files, alone, spilled>>

Remove(r) == dir' = [dir EXCEPT ![name[r]] = None] /\ UNCHANGED <<by, length>>

(* Mutant: an aborted export leaves its file. *)
ExportFailsDirty(r) ==
    /\ pc[r] \in {"write", "close"}
    /\ AbortWithError(r)
    /\ UNCHANGED <<name, csv, cached, rows, Files, alone, spilled>>

(* No List, no exported field, a cancelled context, a full disk: Export closes
   and removes the file, whoever's it is by now. *)
ExportFails(r) ==
    /\ pc[r] \in {"write", "close"}
    /\ Remove(r)
    /\ AbortWithError(r)
    /\ UNCHANGED <<name, csv, cached, rows, alone, spilled>>

(* A method or escape function of the exported type panics: nothing in Export is
   deferred, the file stays. *)
ExportPanics(r) ==
    /\ pc[r] = "write"
    /\ Goto(r, "done") /\ Answered(r, Plain("500"))
    /\ spilled' = spilled \cup {r}
    /\ UNCHANGED <<name, csv, cached, rows, Files, alone>>

(* Close: CSV flushes into the file it created, wherever that is now; Excel
   makes its file only here. *)
Close(r) ==
    /\ pc[r] = "close"
    /\ LET f == IF dir[name[r]] = None THEN r ELSE dir[name[r]]
       IN  IF csv[r]
           THEN /\ length' = [q \in Requests |-> IF by[q] = r THEN rows[r] ELSE length[q]]
                /\ UNCHANGED <<dir, by>>
           ELSE /\ dir' = [dir EXCEPT ![name[r]] = f]
                /\ by' = [by EXCEPT ![f] = r]
                /\ length' = [length EXCEPT ![f] = rows[r]]
    /\ Goto(r, "send")
    /\ UNCHANGED <<name, csv, cached, body, rows, alone, spilled>>

(* SendFile opens the path again. *)
SendFile(r) ==
    /\ pc[r] = "send"
    /\ LET f == dir[name[r]]
       IN  Answered(r, IF f = None THEN Plain("missing")
                       ELSE [what |-> "file", by |-> by[f], rows |-> length[f]])
    /\ Goto(r, "cleanup")
    /\ UNCHANGED <<name, csv, cached, rows, Files, alone, spilled>>

Cleanup(r) ==
    /\ pc[r] = "cleanup"
    /\ Remove(r)
    /\ Goto(r, "done")
    /\ UNCHANGED <<name, csv, cached, body, rows, alone, spilled>>

Step(r) == \/ BindFails(r) \/ CacheGet(r) \/ Recovery(r) \/ CacheSet(r) \/ Answer(r)
           \/ \E own, err \in BOOLEAN : Wrapper(r, own, err)
           \/ NewWriter(r) \/ WriteRows(r) \/ ExportFails(r) \/ ExportPanics(r)
           \/ \E made \in BOOLEAN : NewWriterFails(r, made)
           \/ Close(r) \/ SendFile(r) \/ Cleanup(r)
Next == \E r \in Requests : Step(r)
Spec == Init /\ [][Next]_vars

---------------------------------------------------------------------------
(* A download that overlaps no other one of the same file name delivers exactly
   its own rows, every batch and the rest, whatever other requests do. *)
SentIsOwn ==
    \A r \in alone : name[r] # None =>
        \A i \in DOMAIN body[r] :
            /\ body[r][i].what # "missing"
            /\ body[r][i].what = "file" => body[r][i].by = r /\ body[r][i].rows = Rows

(* A request is answered once.  The exception: a service function that has
   written the response itself and then returns an error. *)
AnsweredOnce ==
    \A r \in Requests : pc[r] = "done" => Len(body[r]) = 1 \/ body[r] = <<Plain("own"), Plain("error")>>

(* When every request is over, no file is left except by a request that panicked
   while exporting or failed right after creating its file. *)
NoFileLeft ==
    (\A r \in Requests : pc[r] = "done") =>
        \A n \in Names : dir[n] # None => \E r \in spilled : name[r] = n
=============================================================================
