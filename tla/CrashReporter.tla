--------------------------- MODULE CrashReporter ----------------------------
(***************************************************************************)
(* common/coroutines/crash.go: processes that share a dump directory.      *)
(* Each opens a dump file of its own when it starts, into which the        *)
(* runtime writes when the process crashes; once per start it reports the  *)
(* dumps that earlier processes left.                                      *)
(*                                                                         *)
(* A file is known by the number of the start that made it; of its name    *)
(* the pid and the suffix matter.  Errors of the file system are left out, *)
(* but for files that another process has renamed.                         *)
(***************************************************************************)
EXTENDS Integers, FiniteSets

CONSTANTS
  Instances,         \* processes that run at the same time
  Pids,              \* the pids the system gives out, again and again
  MaxEnds            \* bound on the processes that crash or exit

VARIABLES
  starts,            \* processes, and files, so far
  filePid,           \* the pid in the name of each file
  suffix,            \* "crash", "uploaded" or "removed"
  dumps,             \* files with a dump
  reported,          \* dumps the uploader accepted
  pc, pid, mine,     \* processes: where they are, their pid, their file
  todo, cur,         \* the files ReportPendingCrashes found, and the current one
  refused,           \* dumps the uploader refused since the last start
  ends

files == <<starts, filePid, suffix, dumps, reported>>
report == <<todo, cur>>
vars == <<files, pc, pid, mine, report, refused, ends>>

MaxStarts == Cardinality(Instances) + MaxEnds
Files == 1 .. MaxStarts

Init ==
  /\ starts = 0 /\ filePid = [n \in Files |-> 0] /\ suffix = [n \in Files |-> "none"]
  /\ dumps = {} /\ reported = {}
  /\ pc = [i \in Instances |-> "down"] /\ pid = [i \in Instances |-> 0]
  /\ mine = [i \in Instances |-> 0] /\ todo = [i \in Instances |-> {}]
  /\ cur = [i \in Instances |-> 0] /\ ends = 0 /\ refused = {}

Goto(i, l) == pc' = [pc EXCEPT ![i] = l]

-----------------------------------------------------------------------------

\* A process starts, with any pid that no live one has: InitCrashReporter opens
\* its file and hands it to the runtime.
InitCrashReporter(i) ==
  /\ pc[i] = "down" /\ Goto(i, "started") /\ starts' = starts + 1
  /\ \E p \in Pids \ {pid[j] : j \in Instances} :
       pid' = [pid EXCEPT ![i] = p] /\ filePid' = [filePid EXCEPT ![starts'] = p]
  /\ mine' = [mine EXCEPT ![i] = starts'] /\ suffix' = [suffix EXCEPT ![starts'] = "crash"]
  /\ UNCHANGED <<dumps, reported, report, refused, ends>>

\* Mutant: a dump that was refused is not looked at again.
ScanNew(i) ==
  /\ pc[i] = "started" /\ Goto(i, "next")
  /\ todo' = [todo EXCEPT ![i] = {n \in Files \ refused : suffix[n] = "crash" /\ filePid[n] # pid[i]}]
  /\ refused' = {} /\ UNCHANGED <<files, pid, mine, cur, ends>>

\* ReportPendingCrashes: the files ending in .crash, except those with its pid.
Scan(i) ==
  /\ pc[i] = "started" /\ Goto(i, "next")
  /\ todo' = [todo EXCEPT ![i] = {n \in Files : suffix[n] = "crash" /\ filePid[n] # pid[i]}]
  /\ refused' = {} /\ UNCHANGED <<files, pid, mine, cur, ends>>

\* parseCrashFile of the next one: gone, which is an error; empty, which is
\* archived at once; or a dump, for the uploader.
Parse(i) ==
  /\ pc[i] = "next"
  /\ \E n \in todo[i] :
       /\ todo' = [todo EXCEPT ![i] = @ \ {n}]
       /\ suffix' = [suffix EXCEPT ![n] = IF @ = "crash" /\ n \notin dumps THEN "uploaded" ELSE @]
       /\ IF suffix[n] = "crash" /\ n \in dumps
          THEN Goto(i, "upload") /\ cur' = [cur EXCEPT ![i] = n]
          ELSE UNCHANGED <<pc, cur>>
  /\ UNCHANGED <<starts, filePid, dumps, reported, pid, mine, refused, ends>>

\* The uploader accepts the dump ...
Upload(i) ==
  /\ pc[i] = "upload" /\ Goto(i, "rename") /\ reported' = reported \cup {cur[i]}
  /\ UNCHANGED <<starts, filePid, suffix, dumps, pid, mine, report, refused, ends>>

\* Mutant: the dump is archived although the uploader failed.
UploadFailsArchived(i) ==
  /\ pc[i] = "upload" /\ refused' = refused \cup {cur[i]}
  /\ Goto(i, "rename") /\ UNCHANGED <<files, pid, mine, report, ends>>

\* ... or fails: the file stays for the next start.
UploadFails(i) ==
  /\ pc[i] = "upload" /\ refused' = refused \cup {cur[i]}
  /\ Goto(i, "next") /\ cur' = [cur EXCEPT ![i] = 0]
  /\ UNCHANGED <<files, pid, mine, todo, ends>>

\* The rename that archives it.
Rename(i) ==
  /\ pc[i] = "rename" /\ Goto(i, "next") /\ cur' = [cur EXCEPT ![i] = 0]
  /\ suffix' = [suffix EXCEPT ![cur[i]] = IF @ = "crash" THEN "uploaded" ELSE @]
  /\ UNCHANGED <<starts, filePid, dumps, reported, pid, mine, todo, refused, ends>>

\* cleanupUploaded removes archived files that are old enough; then it returns.
Cleanup(i) ==
  /\ pc[i] = "next" /\ todo[i] = {} /\ Goto(i, "up")
  /\ \E old \in SUBSET {n \in Files : suffix[n] = "uploaded"} :
       suffix' = [n \in Files |-> IF n \in old THEN "removed" ELSE suffix[n]]
  /\ UNCHANGED <<starts, filePid, dumps, reported, pid, mine, report, refused, ends>>

\* A process ends: it exits or is killed, or it crashes and the runtime writes
\* into its file, whatever the name of that is by now.
End(i) ==
  /\ pc[i] # "down" /\ ends < MaxEnds /\ ends' = ends + 1 /\ Goto(i, "down")
  /\ \/ UNCHANGED dumps
     \/ dumps' = dumps \cup {mine[i]}
  /\ pid' = [pid EXCEPT ![i] = 0] /\ mine' = [mine EXCEPT ![i] = 0]
  /\ todo' = [todo EXCEPT ![i] = {}] /\ cur' = [cur EXCEPT ![i] = 0]
  /\ UNCHANGED <<starts, filePid, suffix, reported, refused>>

ReportStep(i) ==
  InitCrashReporter(i) \/ Scan(i) \/ Parse(i) \/ Upload(i) \/ UploadFails(i) \/ Rename(i) \/ Cleanup(i)

Next == \E i \in Instances : ReportStep(i) \/ End(i)

Spec == Init /\ [][Next]_vars

-----------------------------------------------------------------------------
(* Properties *)

\* The variables keep their types.
TypeOK ==
  /\ starts \in 0 .. MaxStarts /\ reported \subseteq dumps /\ dumps \subseteq 1 .. starts
  /\ \A n \in Files : suffix[n] \in {"none", "crash", "uploaded", "removed"}
  /\ \A i \in Instances : (pc[i] = "down" <=> mine[i] = 0) /\ (pc[i] \in {"upload", "rename"} <=> cur[i] # 0)

\* A dump the uploader has not accepted keeps its name, through any crash in the
\* middle of a report, so that a later start finds it.
NoDumpArchivedUnreported == \A n \in dumps \ reported : suffix[n] = "crash"

\* Every dump has been reported, or the last start had it refused, or the process
\* that runs has the pid of the one that crashed.
ReportedOrSamePid ==
  \A n \in dumps \ (reported \cup refused) : \E i \in Instances : pid[i] = filePid[n]
=============================================================================
