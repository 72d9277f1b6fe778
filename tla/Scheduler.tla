------------------------------ MODULE Scheduler ------------------------------
(* Scheduler (cmd): jobs under a business id, kept in a map beside gocron, which
   runs them.  Every operation holds the mutex; the calls it makes into gocron
   are steps of their own, because gocron starts runs between them and because
   each of them may fail.                                                    *)
EXTENDS Naturals, FiniteSets

CONSTANTS Names,     \* business ids
          MaxJobs,   \* bound: jobs registered in one behaviour
          None       \* no job

VARIABLES entries,   \* the map: the job of each id
          jobs,      \* jobs registered in gocron
          owner,     \* the id each job was made for
          running,   \* jobs whose task is running
          orphans,   \* replaced jobs that gocron did not remove
          op         \* the operation that holds the mutex

vars == <<entries, jobs, owner, running, orphans, op>>

Free == [kind |-> "free", id |-> None, old |-> None]
Made == DOMAIN owner

TypeOK == /\ entries \in [Names -> Made \cup {None}]
          /\ Made = 1 .. Cardinality(Made) /\ Cardinality(Made) <= MaxJobs
          /\ owner \in [Made -> Names]
          /\ jobs \subseteq Made /\ running \subseteq Made /\ orphans \subseteq jobs
          /\ op.kind \in {"free", "AddJob", "ForceAddJob", "RemoveOld", "RemoveJob"}

Init == /\ entries = [n \in Names |-> None]
        /\ jobs = {} /\ running = {} /\ orphans = {}
        /\ owner = [j \in {} |-> None]
        /\ op = Free

(* The mutex is taken and the map is read: AddJob returns when the id is
   there, RemoveJob when it is not. *)
Lock(kind, n) ==
    /\ op = Free
    /\ kind = "AddJob" => entries[n] = None
    /\ kind = "RemoveJob" => entries[n] # None
    /\ op' = [kind |-> kind, id |-> n, old |-> entries[n]]
    /\ UNCHANGED <<entries, jobs, owner, running, orphans>>

(* addJobLocked: NewJob registers the job and the map names it; ForceAddJob
   has the old one still to remove. *)
addJobLocked ==
    /\ op.kind \in {"AddJob", "ForceAddJob"}
    /\ Cardinality(Made) < MaxJobs
    /\ LET j == Cardinality(Made) + 1
       IN  /\ owner' = [i \in Made \cup {j} |-> IF i = j THEN op.id ELSE owner[i]]
           /\ jobs' = jobs \cup {j}
           /\ entries' = [entries EXCEPT ![op.id] = j]
    /\ op' = IF op.kind = "ForceAddJob" /\ op.old # None
             THEN [op EXCEPT !.kind = "RemoveOld"]
             ELSE Free
    /\ UNCHANGED <<running, orphans>>

(* Mutant: ForceAddJob removes the old job before it registers the new one. *)
addJobFailsLate ==
    /\ op.kind \in {"AddJob", "ForceAddJob"}
    /\ jobs' = jobs \ {op.old}
    /\ op' = Free
    /\ UNCHANGED <<entries, owner, running, orphans>>

(* NewJob refuses the cron expression: nothing changes. *)
addJobFails ==
    /\ op.kind \in {"AddJob", "ForceAddJob"}
    /\ op' = Free
    /\ UNCHANGED <<entries, jobs, owner, running, orphans>>

(* ForceAddJob ends: the replaced job leaves gocron, a run of it goes on; an
   error of gocron is ignored, and the job stays. *)
RemoveOld ==
    /\ op.kind = "RemoveOld"
    /\ \/ jobs' = jobs \ {op.old} /\ UNCHANGED orphans
       \/ orphans' = orphans \cup {op.old} /\ UNCHANGED jobs
    /\ op' = Free
    /\ UNCHANGED <<entries, owner, running>>

(* RemoveJob: gocron drops the job and the map forgets it, or gocron returns an
   error and both keep it. *)
RemoveJob ==
    /\ op.kind = "RemoveJob"
    /\ \/ jobs' = jobs \ {op.old} /\ entries' = [entries EXCEPT ![op.id] = None]
       \/ UNCHANGED <<jobs, entries>>
    /\ op' = Free
    /\ UNCHANGED <<owner, running, orphans>>

(* gocron's singleton mode: the job is due and its last run is over. *)
Run(j) ==
    /\ j \in jobs \ running
    /\ running' = running \cup {j}
    /\ UNCHANGED <<entries, jobs, owner, orphans, op>>

(* wrapTask ends, with whatever Do did: an error, a panic and an overlong run
   are reported and go no further. *)
wrapTask(j) ==
    /\ j \in running
    /\ running' = running \ {j}
    /\ UNCHANGED <<entries, jobs, owner, orphans, op>>

Next == \/ \E n \in Names, kind \in {"AddJob", "ForceAddJob", "RemoveJob"} : Lock(kind, n)
        \/ addJobLocked \/ addJobFails \/ RemoveOld \/ RemoveJob
        \/ \E j \in Made : Run(j) \/ wrapTask(j)

Spec == Init /\ [][Next]_vars

---------------------------------------------------------------------------
(* A job the map names is registered in gocron at every moment, also while
   ForceAddJob is between registering the new job and removing the old one and
   also when the new one is refused; and between operations gocron has no job
   the map does not name, so that RemoveJob can reach every job - except a
   replaced one that gocron refused to remove, whose error ForceAddJob drops. *)
MapIsRegistered ==
    /\ \A n \in Names : entries[n] # None => entries[n] \in jobs /\ owner[entries[n]] = n
    /\ op = Free => jobs \ orphans = {entries[n] : n \in Names} \ {None}
=============================================================================
