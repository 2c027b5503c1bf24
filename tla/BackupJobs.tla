----------------------------- MODULE BackupJobs -----------------------------
(* Scheduled and manual backup jobs (backupjobs/scheduler.go,                *)
(* store/backupjobs.go, api/backup_handlers.go, docker/volumebackup.go).     *)
(* Workers are the scheduler, which runs the due jobs of a tick one after    *)
(* the other from the rows it listed, and the requests of "Run now".         *)
(* backupSem bounds the helper containers; a run that finds it full fails    *)
(* and is recorded like any other failure.                                   *)
EXTENDS Naturals, Sequences, FiniteSets

CONSTANTS
    Jobs,        \* ids of jobs
    Requests,    \* "Run now" requests in flight
    Editors,     \* edit and delete requests in flight
    Envs,        \* environments an edit can store
    Slots,       \* capacity of backupSem
    Interval,    \* ticks between scheduled runs
    MaxRunsKept, \* maxBackupRunsPerJob
    MaxRuns,     \* bound: runs started
    MaxEdits     \* bound: edits made

Scheduler == "scheduler"
Workers == Requests \cup {Scheduler}

VARIABLES
    job,         \* backup_jobs: [exists, enabled, env, last, ok, age]
    runs,        \* backup_runs of each job, oldest first: [id, ok]
    due,         \* rows the tick listed and has not run yet
    work,        \* where each worker stands
    edit,        \* where each editor stands
    helpers,     \* helper containers on the hosts, by the run that made them
    nextRun,     \* history: runs started
    edits,       \* history: edits made
    lostEnv,     \* history: an edit that kept the environment undid another's
    orphans,     \* history: helpers a crash left behind
    early        \* history: the schedule ran a job twice within its interval

bvars == <<job, runs, due, work, edit, helpers, nextRun, edits, lostEnv, orphans, early>>

NoEnv == "none"
Idle == [pc |-> "idle"]
WorkTo(w, to) == work' = [work EXCEPT ![w] = to]
EditTo(e, to) == edit' = [edit EXCEPT ![e] = to]
AtPc(w, pc) == work[w].pc = pc

Init ==
    /\ job = [j \in Jobs |-> [exists |-> TRUE, enabled |-> TRUE, env |-> NoEnv, last |-> 0,
                              ok |-> FALSE, age |-> Interval, sched |-> Interval]]
    /\ runs = [j \in Jobs |-> <<>>]
    /\ due = {}
    /\ work = [w \in Workers |-> Idle]
    /\ edit = [e \in Editors |-> Idle]
    /\ helpers = {}
    /\ nextRun = 1 /\ edits = 0
    /\ lostEnv = FALSE /\ orphans = {} /\ early = FALSE

-----------------------------------------------------------------------------
(* DueBackupJobs: enabled, never run or the interval has passed.             *)
Due(j) == job[j].exists /\ job[j].enabled /\ (job[j].last = 0 \/ job[j].age >= Interval)

(* tick lists the due jobs; the loop works from these rows.                  *)
Tick ==
    /\ AtPc(Scheduler, "idle") /\ due = {}
    /\ \E j \in Jobs : Due(j)
    /\ due' = {j \in Jobs : Due(j)}
    /\ UNCHANGED <<job, runs, work, edit, helpers, nextRun, edits, lostEnv, orphans, early>>

(* A run of job j begins at worker w (RunJob's started).                     *)
Start(w, j) ==
    /\ nextRun <= MaxRuns
    /\ nextRun' = nextRun + 1
    /\ WorkTo(w, [pc |-> "resolve", job |-> j, run |-> nextRun])

(* tick's loop takes the next row, as it was listed.                         *)
RunDue(j) ==
    /\ AtPc(Scheduler, "idle")
    /\ j \in due
    /\ due' = due \ {j}
    /\ Start(Scheduler, j)
    /\ early' = (early \/ (job[j].exists /\ job[j].sched < Interval))
    /\ UNCHANGED <<job, runs, edit, helpers, edits, lostEnv, orphans>>

(* TriggerNow: the row must still be there; the schedule is not asked.       *)
TriggerNow(w, j) ==
    /\ w # Scheduler /\ AtPc(w, "idle")
    /\ job[j].exists
    /\ Start(w, j)
    /\ UNCHANGED <<job, runs, due, edit, helpers, edits, lostEnv, orphans, early>>

(* resolveTarget and BackupJobEnv: the project or the volumes may be gone,   *)
(* and so may the job's row; either way the run has failed.                  *)
Resolve(w, found) ==
    /\ AtPc(w, "resolve")
    /\ WorkTo(w, IF found /\ job[work[w].job].exists
                 THEN [work[w] EXCEPT !.pc = "slot"]
                 ELSE [pc |-> "record", job |-> work[w].job, run |-> work[w].run, ok |-> FALSE])
    /\ UNCHANGED <<job, runs, due, edit, helpers, nextRun, edits, lostEnv, orphans, early>>

(* RunBackupJob's semaphore has room.                                        *)
SlotFree == Cardinality({w \in Workers : work[w].pc \in {"create", "wait", "remove"}}) < Slots

Acquire(w) ==
    /\ AtPc(w, "slot")
    /\ WorkTo(w, IF SlotFree
                 THEN [work[w] EXCEPT !.pc = "create"]
                 ELSE [pc |-> "record", job |-> work[w].job, run |-> work[w].run, ok |-> FALSE])
    /\ UNCHANGED <<job, runs, due, edit, helpers, nextRun, edits, lostEnv, orphans, early>>

(* Client, the image pull and ContainerCreate; one of them may fail.         *)
CreateHelper(w, created) ==
    /\ AtPc(w, "create")
    /\ helpers' = IF created THEN helpers \cup {work[w].run} ELSE helpers
    /\ WorkTo(w, IF created
                 THEN [work[w] EXCEPT !.pc = "wait"]
                 ELSE [pc |-> "record", job |-> work[w].job, run |-> work[w].run, ok |-> FALSE])
    /\ UNCHANGED <<job, runs, due, edit, nextRun, edits, lostEnv, orphans, early>>

(* ContainerStart, ContainerWait and the logs: exit code zero, another one,  *)
(* an error or the timeout.                                                  *)
Finish(w, ok) ==
    /\ AtPc(w, "wait")
    /\ WorkTo(w, [pc |-> "remove", job |-> work[w].job, run |-> work[w].run, ok |-> ok])
    /\ UNCHANGED <<job, runs, due, edit, helpers, nextRun, edits, lostEnv, orphans, early>>

(* The deferred removal, under a context of its own.                         *)
HelpersAfter(w) == helpers \ {work[w].run}

RemoveHelper(w) ==
    /\ AtPc(w, "remove")
    /\ helpers' = HelpersAfter(w)
    /\ WorkTo(w, [work[w] EXCEPT !.pc = "record"])
    /\ UNCHANGED <<job, runs, due, edit, nextRun, edits, lostEnv, orphans, early>>

(* The pruning of RecordBackupRun, keeping the oldest.                       *)
KeepOldest(s) == SubSeq(s, 1, MaxRunsKept)

(* The pruning of RecordBackupRun: the newest maxBackupRunsPerJob stay.      *)
Prune(s) == IF Len(s) <= MaxRunsKept THEN s ELSE SubSeq(s, Len(s) - MaxRunsKept + 1, Len(s))

(* RecordBackupRun commits only when the job's row was there to update.      *)
Records(j) == job[j].exists

(* The row after a run: the badge, and the time of the run.                   *)
Ran(row, r, scheduled) ==
    [row EXCEPT !.last = r.id, !.ok = r.ok, !.age = 0, !.sched = IF scheduled THEN 0 ELSE row.sched]

(* RecordBackupRun, one transaction: history, badge and pruning.             *)
RecordBackupRun(w) ==
    /\ AtPc(w, "record")
    /\ LET j == work[w].job
           r == [id |-> work[w].run, ok |-> work[w].ok]
       IN  /\ runs' = IF Records(j) THEN [runs EXCEPT ![j] = Prune(Append(@, r))] ELSE runs
           /\ job' = IF job[j].exists
                     THEN [job EXCEPT ![j] = Ran(job[j], r, w = Scheduler)]
                     ELSE job
    /\ WorkTo(w, Idle)
    /\ UNCHANGED <<due, edit, helpers, nextRun, edits, lostEnv, orphans, early>>

Older(ticks) == IF ticks < Interval THEN ticks + 1 ELSE ticks

(* A tick's worth of time passes.                                            *)
Time ==
    /\ \E j \in Jobs : job[j].age < Interval \/ job[j].sched < Interval
    /\ job' = [j \in Jobs |-> [job[j] EXCEPT !.age = Older(job[j].age), !.sched = Older(job[j].sched)]]
    /\ UNCHANGED <<runs, due, work, edit, helpers, nextRun, edits, lostEnv, orphans, early>>

-----------------------------------------------------------------------------
Edited == edits < MaxEdits /\ edits' = edits + 1

(* UpdateBackupJob with an environment, or with clearEnv.                    *)
UpdateEnv(j, env) ==
    /\ Edited
    /\ job[j].exists
    /\ job' = [job EXCEPT ![j] = [@ EXCEPT !.env = env]]
    /\ UNCHANGED <<runs, due, work, edit, helpers, nextRun, lostEnv, orphans, early>>

(* UpdateBackupJob with an empty one reads what is stored ...                *)
UpdateReads(e, j) ==
    /\ Edited
    /\ edit[e] = Idle /\ job[j].exists
    /\ EditTo(e, [pc |-> "update", job |-> j, env |-> job[j].env])
    /\ UNCHANGED <<job, runs, due, work, helpers, nextRun, lostEnv, orphans, early>>

(* ... and writes it back with the other fields.                             *)
UpdateWrites(e) ==
    /\ edit[e].pc = "update"
    /\ LET j == edit[e].job
       IN  /\ job' = IF job[j].exists THEN [job EXCEPT ![j] = [@ EXCEPT !.env = edit[e].env]] ELSE job
           /\ lostEnv' = (lostEnv \/ (job[j].exists /\ job[j].env # edit[e].env))
    /\ EditTo(e, Idle)
    /\ UNCHANGED <<runs, due, work, helpers, nextRun, edits, orphans, early>>

(* SetBackupJobEnabled.                                                      *)
SetEnabled(j) ==
    /\ Edited
    /\ job[j].exists
    /\ job' = [job EXCEPT ![j] = [@ EXCEPT !.enabled = ~job[j].enabled]]
    /\ UNCHANGED <<runs, due, work, edit, helpers, nextRun, lostEnv, orphans, early>>

(* DeleteBackupJob: the runs ...                                             *)
DeleteRuns(e, j) ==
    /\ Edited
    /\ edit[e] = Idle /\ job[j].exists
    /\ runs' = [runs EXCEPT ![j] = <<>>]
    /\ EditTo(e, [pc |-> "delete", job |-> j])
    /\ UNCHANGED <<job, due, work, helpers, nextRun, lostEnv, orphans, early>>

(* ... then the job.                                                         *)
DeleteJob(e) ==
    /\ edit[e].pc = "delete"
    /\ job' = [job EXCEPT ![edit[e].job] = [@ EXCEPT !.exists = FALSE]]
    /\ EditTo(e, Idle)
    /\ UNCHANGED <<runs, due, work, helpers, nextRun, edits, lostEnv, orphans, early>>

(* The process dies and starts again; containers and rows are as they were.  *)
Crash ==
    /\ \E w \in Workers : work[w] # Idle
    /\ work' = [w \in Workers |-> Idle]
    /\ edit' = [e \in Editors |-> Idle]
    /\ due' = {}
    /\ orphans' = helpers
    /\ UNCHANGED <<job, runs, helpers, nextRun, edits, lostEnv, early>>

Run(w) ==
    \/ \E found \in BOOLEAN : Resolve(w, found)
    \/ Acquire(w)
    \/ \E b \in BOOLEAN : CreateHelper(w, b) \/ Finish(w, b)
    \/ RemoveHelper(w)
    \/ RecordBackupRun(w)

Next ==
    \/ Tick \/ Time \/ Crash
    \/ \E j \in Jobs : RunDue(j) \/ SetEnabled(j) \/ \E env \in Envs \cup {NoEnv} : UpdateEnv(j, env)
    \/ \E w \in Workers : Run(w) \/ \E j \in Jobs : TriggerNow(w, j)
    \/ \E e \in Editors : UpdateWrites(e) \/ DeleteJob(e)
                          \/ \E j \in Jobs : UpdateReads(e, j) \/ DeleteRuns(e, j)

Spec == Init /\ [][Next]_bvars

-----------------------------------------------------------------------------
(* What the theorems assume of the constants.                                *)
BoundsOK ==
    /\ IsFiniteSet(Requests)
    /\ {Slots, Interval, MaxRuns, MaxEdits} \subseteq Nat /\ MaxRunsKept \in Nat \ {0}

JobType == [exists : BOOLEAN, enabled : BOOLEAN, env : Envs \cup {NoEnv}, last : 0 .. MaxRuns,
            ok : BOOLEAN, age : 0 .. Interval, sched : 0 .. Interval]
RunType == [id : 1 .. MaxRuns, ok : BOOLEAN]

(* A worker with a run under way, or with its outcome; an editor.             *)
Underway == [pc : {"resolve", "slot", "create", "wait"}, job : Jobs, run : 1 .. MaxRuns]
Ending == [pc : {"remove", "record"}, job : Jobs, run : 1 .. MaxRuns, ok : BOOLEAN]
Updating == [pc : {"update"}, job : Jobs, env : Envs \cup {NoEnv}]
Deleting == [pc : {"delete"}, job : Jobs]

TypeOK ==
    /\ job \in [Jobs -> JobType]
    /\ runs \in [Jobs -> Seq(RunType)] /\ \A j \in Jobs : Len(runs[j]) <= MaxRunsKept
    /\ due \subseteq Jobs /\ helpers \subseteq 1 .. MaxRuns
    /\ work \in [Workers -> {Idle} \cup Underway \cup Ending]
    /\ edit \in [Editors -> {Idle} \cup Updating \cup Deleting]
    /\ nextRun \in 1 .. MaxRuns + 1 /\ early \in BOOLEAN

(* The badge of a job and its history tell the same: the newest run kept is  *)
(* the one last_run_ok is about, whoever records at the same time and        *)
(* whatever the pruning drops.                                               *)
BadgeMatchesHistory ==
    \A j \in Jobs : runs[j] # <<>> /\ job[j].exists =>
        runs[j][Len(runs[j])] = [id |-> job[j].last, ok |-> job[j].ok]

(* A helper container that no crash left behind belongs to a run under way,  *)
(* on every path out of RunBackupJob, and backupSem bounds their number.     *)
HelpersAreOwned ==
    /\ \A r \in helpers \ orphans : \E w \in Workers : work[w] # Idle /\ work[w].run = r
                                              /\ work[w].pc \in {"wait", "remove"}
    /\ Cardinality(helpers \ orphans) <= Slots

(* A run recorded by the schedule is an interval away from the schedule's    *)
(* previous one, with manual runs in between or not.                         *)
ScheduleKeepsInterval == ~early

(* A job's badge is about the newest run kept, a helper container belongs to *)
(* a run under way, and scheduled runs keep their distance.                  *)
RunsAreRecorded == TypeOK /\ BadgeMatchesHistory /\ HelpersAreOwned /\ ScheduleKeepsInterval

(* RecordBackupRun's comment: no "history for a job that no longer exists".  *)
NoOrphanRuns == \A j \in Jobs : ~job[j].exists => runs[j] = <<>>

(* UpdateBackupJob's comment: "An empty env leaves the stored one untouched".*)
EmptyEnvKeepsTheStored == ~lostEnv

(* RunBackupJob's comment: the helper is "removed unconditionally".          *)
NoHelperPersists ==
    \A r \in helpers : \E w \in Workers : work[w] # Idle /\ work[w].run = r
=============================================================================
