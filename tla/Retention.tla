------------------------------ MODULE Retention -----------------------------
(* The purge of history: the policy and its rules, the run over the alert     *)
(* feed, the deliveries, the queued retries, the audit log and the snapshots  *)
(* of one project, its record, and what goes on beside it                     *)
(* (internal/api/retention.go, internal/store/retention.go).                  *)
(*                                                                            *)
(* An age is in days.  A run deletes in batches with other work between them, *)
(* judges by the moment it began, and can meet an expired context, a          *)
(* statement that fails and the end of the process anywhere.                  *)
EXTENDS Integers, FiniteSets, FiniteSetsExt, Functions

CONSTANTS
    Submitted,    \* the policies administrators send
    Stored,       \* what the settings may hold at the start
    Default,      \* DefaultRetention
    MinAudit,     \* MinAuditRetentionDays
    MinKeep,      \* MinRevisionsKeep
    MaxDays,      \* MaxRetentionDays
    Batch,        \* purgeBatch
    Feed, Log, Snapshots,  \* what is there at the start: events, audit rows, revisions
    AgeCap,       \* bound: ages beyond it are not told apart
    MaxRows,      \* bound: ids of deliveries and audit rows
    MaxRuns,      \* bound: runs begun
    MaxFaults     \* bound: statements and removals that fail

(* No policy was ever saved. *)
Unset == [events |-> -1, deliveries |-> -1, audit |-> -1, keep |-> -1]

VARIABLES
    policy,      \* the setting retention.policy, or Unset
    events,      \* alert_events: id -> age
    deliveries,  \* alert_deliveries: id -> [event, age, late]
    retries,     \* alert_delivery_retries, the events they are for
    audit,       \* audit_log: id -> age
    revs, files, \* project_revisions, and the snapshot files on disk
    run,         \* the purge that holds retentionMu
    lastRun,     \* the setting retention.lastRun
    sending,     \* deliveries under way, by the event they looked up
    asked,       \* history: the setting when the run began
    gone,        \* history: what the run has deleted
    runs, faults

vars == <<policy, events, deliveries, retries, audit, revs, files, run, lastRun, sending, asked,
          gone, runs, faults>>
tables == <<events, deliveries, retries, audit, revs, files>>

Areas == {"events", "deliveries", "audit", "revisions", "files"}
Nothing == [a \in Areas |-> 0]
Idle == [pc |-> "idle", policy |-> Default, count |-> Nothing, elapsed |-> 0, done |-> FALSE,
         error |-> FALSE, list |-> {}, trimmed |-> {}]
NoRun == [count |-> Nothing, gone |-> Nothing, error |-> FALSE]

Init ==
    /\ policy \in Stored
    /\ events = Feed /\ audit = Log /\ revs = Snapshots /\ files = Snapshots
    /\ deliveries = [e \in DOMAIN Feed |-> [event |-> e, age |-> Max({0, Feed[e] - 1}), late |-> FALSE]]
    /\ retries = DOMAIN Feed
    /\ run = Idle /\ lastRun = NoRun /\ sending = {} /\ asked = Unset /\ gone = Nothing
    /\ runs = 0 /\ faults = 0

-----------------------------------------------------------------------------
(* RetentionPolicy.Validate: 0 keeps forever, and deliveries are not to be    *)
(* kept longer than the events they belong to.                                *)
DaysValid(v, min) == v = 0 \/ v \in min .. MaxDays
Validate(p) ==
    /\ DaysValid(p.events, 1) /\ DaysValid(p.deliveries, 1) /\ DaysValid(p.audit, MinAudit)
    /\ p.keep = 0 \/ p.keep >= MinKeep
    /\ p.events # 0 => p.deliveries # 0 /\ p.deliveries <= p.events

(* Store.Retention: the defaults when nothing was saved, an error when what   *)
(* is saved cannot be used.                                                   *)
UsableAlways == TRUE
Usable == policy = Unset \/ Validate(policy)
Effective == IF policy # Unset /\ Validate(policy) THEN policy ELSE Default

handleSetRetention(p) ==
    /\ Validate(p) /\ policy' = p
    /\ UNCHANGED <<tables, run, lastRun, sending, asked, gone, runs, faults>>

(* runRetention, for the loop or an administrator: one at a time.             *)
Begin ==
    /\ run.pc = "idle" /\ runs < MaxRuns /\ runs' = runs + 1
    /\ Usable
    /\ run' = [Idle EXCEPT !.pc = "events", !.policy = Effective]
    /\ asked' = policy /\ gone' = Nothing
    /\ UNCHANGED <<policy, tables, lastRun, sending, faults>>

-----------------------------------------------------------------------------
(* cutoffFor: older than the days, seen from the start of the run.            *)
Expired(age, days) == days > 0 /\ age - run.elapsed > days

OldEvents == {e \in DOMAIN events : Expired(events[e], run.policy.events)}
Orphans == {d \in DOMAIN deliveries : run.policy.events > 0 /\ deliveries[d].event \notin DOMAIN events}
LostRetries == {e \in retries : run.policy.events > 0 /\ e \notin DOMAIN events}
OldDeliveries == {d \in DOMAIN deliveries : Expired(deliveries[d].age, run.policy.deliveries)}
OldAudit == {i \in DOMAIN audit : run.policy.audit >= MinAudit /\ Expired(audit[i], run.policy.audit)}

Fault == faults < MaxFaults /\ faults' = faults + 1

(* deleteBatched: one batch, counted; a short batch is the last one.          *)
LastBatch(n) == n < Batch
Deleted(S, B) == B \in SUBSET S /\ Cardinality(B) = Min({Batch, Cardinality(S)})

Counted(area, n, next) ==
    /\ run' = [run EXCEPT !.count[area] = @ + n, !.pc = IF LastBatch(n) THEN next ELSE @]
    /\ gone' = [gone EXCEPT ![area] = @ + n]

(* An error ends the area and is noted; what was deleted stays counted.       *)
Stopped(next) ==
    /\ run' = [run EXCEPT !.error = TRUE, !.pc = next] /\ UNCHANGED gone
    /\ \/ run.done /\ UNCHANGED faults
       \/ ~run.done /\ Fault
    /\ UNCHANGED tables

PurgeAlertEvents ==
    \/ /\ run.pc = "events" /\ ~run.done
       /\ \E B \in SUBSET OldEvents :
            /\ Deleted(OldEvents, B) /\ events' = Restrict(events, DOMAIN events \ B)
            /\ Counted("events", Cardinality(B), "orphans")
       /\ UNCHANGED <<deliveries, retries, audit, revs, files, faults>>
    \/ /\ run.pc = "orphans" /\ ~run.done
       /\ \E B \in SUBSET Orphans :
            /\ Deleted(Orphans, B) /\ deliveries' = Restrict(deliveries, DOMAIN deliveries \ B)
            /\ Counted("deliveries", Cardinality(B), "retries")
       /\ UNCHANGED <<events, retries, audit, revs, files, faults>>
    \/ /\ run.pc = "retries" /\ ~run.done
       /\ \E B \in SUBSET LostRetries :
            /\ Deleted(LostRetries, B) /\ retries' = retries \ B
            /\ run' = [run EXCEPT !.pc = IF LastBatch(Cardinality(B)) THEN "deliveries" ELSE @]
       /\ UNCHANGED <<events, deliveries, audit, revs, files, gone, faults>>
    \/ run.pc \in {"events", "orphans", "retries"} /\ run.policy.events > 0 /\ Stopped("deliveries")

PurgeAlertDeliveries ==
    \/ /\ run.pc = "deliveries" /\ ~run.done
       /\ \E B \in SUBSET OldDeliveries :
            /\ Deleted(OldDeliveries, B) /\ deliveries' = Restrict(deliveries, DOMAIN deliveries \ B)
            /\ Counted("deliveries", Cardinality(B), "audit")
       /\ UNCHANGED <<events, retries, audit, revs, files, faults>>
    \/ run.pc = "deliveries" /\ run.policy.deliveries > 0 /\ Stopped("audit")

PurgeAudit ==
    \/ /\ run.pc = "audit" /\ ~run.done
       /\ \E B \in SUBSET OldAudit :
            /\ Deleted(OldAudit, B) /\ audit' = Restrict(audit, DOMAIN audit \ B)
            /\ Counted("audit", Cardinality(B), "trim")
       /\ UNCHANGED <<events, deliveries, retries, revs, files, faults>>
    \/ run.pc = "audit" /\ run.policy.audit > 0 /\ Stopped("trim")

(* An area whose days are 0 is passed over, context or not.                   *)
PassOver ==
    /\ run.done
    /\ \/ run.pc = "events" /\ run.policy.events = 0 /\ run' = [run EXCEPT !.pc = "deliveries"]
       \/ run.pc = "deliveries" /\ run.policy.deliveries = 0 /\ run' = [run EXCEPT !.pc = "audit"]
       \/ run.pc = "audit" /\ run.policy.audit = 0 /\ run' = [run EXCEPT !.pc = "trim"]
    /\ UNCHANGED <<tables, gone, faults>>

-----------------------------------------------------------------------------
(* TrimRevisions reads what lies behind the newest ones, deletes it row by    *)
(* row and, when it stops early, returns what it did delete.                  *)
Behind ==
    {n \in revs : run.policy.keep > 0 /\ Cardinality({m \in revs : m > n}) >= run.policy.keep}
Refs == run.trimmed

TrimRevisions ==
    \/ /\ run.pc = "trim" /\ (run.policy.keep = 0 \/ ~run.done)
       /\ run' = [run EXCEPT !.pc = "rows", !.list = Behind]
       /\ UNCHANGED <<tables, gone, faults>>
    \/ /\ run.pc = "rows" /\ ~run.done
       /\ \E n \in run.list :
            /\ revs' = revs \ {n} /\ gone' = [gone EXCEPT !["revisions"] = @ + 1]
            /\ run' = [run EXCEPT !.list = @ \ {n}, !.trimmed = @ \cup {n}]
       /\ UNCHANGED <<events, deliveries, retries, audit, files, faults>>
    \/ /\ run.pc = "rows" /\ run.list = {}
       /\ run' = [run EXCEPT !.pc = "unlink", !.list = Refs,
                             !.count["revisions"] = Cardinality(run.trimmed)]
       /\ UNCHANGED <<tables, gone, faults>>
    \/ /\ run.pc = "trim" /\ run.policy.keep > 0 /\ Stopped("unlink")
    \/ /\ run.pc = "rows" /\ run.list # {}
       /\ run' = [run EXCEPT !.pc = "unlink", !.list = Refs, !.error = TRUE,
                             !.count["revisions"] = Cardinality(run.trimmed)]
       /\ IF run.done THEN UNCHANGED faults ELSE Fault
       /\ UNCHANGED <<tables, gone>>

(* The files of the rows that went; one that cannot be removed is left to the *)
(* sweep, which reports it.                                                   *)
RemoveFiles ==
    \/ /\ run.pc \in {"unlink", "sweep"}
       /\ \E n \in run.list :
            \/ /\ files' = files \ {n} /\ UNCHANGED faults
               /\ run' = [run EXCEPT !.list = @ \ {n}, !.count["files"] = @ + Cardinality(files \cap {n})]
               /\ gone' = [gone EXCEPT !["files"] = @ + Cardinality(files \cap {n})]
            \/ /\ Fault /\ UNCHANGED <<files, gone>>
               /\ run' = [run EXCEPT !.list = @ \ {n}, !.error = @ \/ run.pc = "sweep"]
       /\ UNCHANGED <<events, deliveries, retries, audit, revs>>
    \/ /\ run.pc = "unlink" /\ run.list = {} /\ run' = [run EXCEPT !.pc = "orphaned"]
       /\ UNCHANGED <<tables, gone, faults>>
    \/ /\ run.pc = "sweep" /\ run.list = {} /\ run' = [run EXCEPT !.pc = "save"]
       /\ UNCHANGED <<tables, gone, faults>>

(* sweepOrphanRevisionFiles: the rows are read first; without an answer the   *)
(* files are left alone.                                                      *)
sweepOrphanRevisionFiles ==
    \/ /\ run.pc = "orphaned" /\ ~run.done
       /\ run' = [run EXCEPT !.pc = "sweep", !.list = files \ revs] /\ UNCHANGED <<tables, gone, faults>>
    \/ run.pc = "orphaned" /\ Stopped("save")

(* A row with a new id.                                                       *)
Inserted(table, id, row) == [i \in DOMAIN table \cup {id} |-> IF i = id THEN row ELSE table[i]]

(* The record and the audit entry are written on a context of their own.      *)
SaveRetentionRun ==
    /\ run.pc = "save"
    /\ \/ lastRun' = [count |-> run.count, gone |-> gone, error |-> run.error] /\ UNCHANGED faults
       \/ UNCHANGED lastRun /\ Fault
    /\ LET free == (1 .. MaxRows) \ DOMAIN audit
           told == run.error \/ \E a \in Areas \ {"files"} : run.count[a] > 0
       IN audit' = IF told /\ free # {} THEN Inserted(audit, Min(free), 0) ELSE audit
    /\ run' = Idle
    /\ UNCHANGED <<events, deliveries, retries, revs, files, gone>>

Purge ==
    /\ \/ PurgeAlertEvents \/ PurgeAlertDeliveries \/ PurgeAudit \/ PassOver
       \/ TrimRevisions \/ RemoveFiles \/ sweepOrphanRevisionFiles
    /\ UNCHANGED <<policy, lastRun, sending, asked, runs>>
Record == SaveRetentionRun /\ UNCHANGED <<policy, sending, asked, runs>>

(* The run's ten minutes pass, or the administrator's client hangs up.        *)
Expire ==
    /\ run.pc # "idle" /\ ~run.done /\ run' = [run EXCEPT !.done = TRUE]
    /\ UNCHANGED <<policy, tables, lastRun, sending, asked, gone, runs, faults>>

(* The process ends and starts again.                                         *)
Kill ==
    /\ run.pc # "idle" /\ Fault /\ run' = Idle /\ sending' = {}
    /\ UNCHANGED <<policy, tables, lastRun, asked, gone, runs>>

-----------------------------------------------------------------------------
(* A delivery, or the retry of one, looks its event up and is recorded later. *)
LookUp(e) ==
    /\ e \in DOMAIN events /\ e \notin sending /\ sending' = sending \cup {e}
    /\ UNCHANGED <<policy, tables, run, lastRun, asked, gone, runs, faults>>
RecordAlertDelivery(e) ==
    /\ e \in sending /\ sending' = sending \ {e}
    /\ LET free == (1 .. MaxRows) \ DOMAIN deliveries IN
         /\ free # {}
         /\ deliveries' = Inserted(deliveries, Min(free),
                                   [event |-> e, age |-> 0, late |-> e \notin DOMAIN events])
    /\ UNCHANGED <<policy, events, retries, audit, revs, files, run, lastRun, asked, gone, runs, faults>>

Older(f) == [i \in DOMAIN f |-> Min({f[i] + 1, AgeCap})]
Tick ==
    /\ run.elapsed = 0 /\ \E e \in DOMAIN events : events[e] < AgeCap
    /\ events' = Older(events) /\ audit' = Older(audit)
    /\ deliveries' = [d \in DOMAIN deliveries |-> [deliveries[d] EXCEPT !.age = Min({@ + 1, AgeCap})]]
    /\ run' = IF run.pc = "idle" THEN run ELSE [run EXCEPT !.elapsed = 1]
    /\ UNCHANGED <<policy, retries, revs, files, lastRun, sending, asked, gone, runs, faults>>

Next ==
    \/ \E p \in Submitted : handleSetRetention(p)
    \/ Begin \/ Purge \/ Record \/ Expire \/ Kill \/ Tick
    \/ \E e \in DOMAIN Feed : LookUp(e) \/ RecordAlertDelivery(e)

Spec == Init /\ [][Next]_vars

-----------------------------------------------------------------------------
(* What the theorems assume of the constants: the defaults are a policy, and  *)
(* what is there at the start is finite.                                      *)
BoundsOK ==
    /\ Validate(Default) /\ MinAudit \in Nat \ {0} /\ MinKeep \in Nat /\ MaxDays \in Nat /\ Batch \in Nat
    /\ \A p \in Submitted \cup Stored \cup {Default} :
         p.events \in Int /\ p.deliveries \in Int /\ p.audit \in Int /\ p.keep \in Int
    /\ MaxRows \in Nat /\ MaxRuns \in Nat /\ MaxFaults \in Nat /\ AgeCap \in Nat
    /\ Feed \in [DOMAIN Feed -> 0 .. AgeCap] /\ DOMAIN Feed \subseteq 1 .. MaxRows
    /\ Log \in [DOMAIN Log -> 0 .. AgeCap] /\ DOMAIN Log \subseteq 1 .. MaxRows
    /\ Snapshots \subseteq Int /\ IsFiniteSet(Snapshots)

TypeOK ==
    /\ policy \in Submitted \cup Stored
    /\ DOMAIN events \subseteq DOMAIN Feed /\ \A e \in DOMAIN events : events[e] \in 0 .. AgeCap
    /\ DOMAIN deliveries \subseteq 1 .. MaxRows /\ DOMAIN audit \subseteq 1 .. MaxRows
    /\ retries \subseteq DOMAIN Feed /\ revs \subseteq Snapshots /\ files \subseteq Snapshots
    /\ run.list \subseteq Snapshots /\ run.trimmed \subseteq Snapshots
    /\ runs \in 0 .. MaxRuns /\ faults \in 0 .. MaxFaults

(* A row goes only when the policy that was saved when the run began says so: *)
(* nothing of an area kept forever, nothing under a policy that cannot be     *)
(* used, no young audit row, none of the newest revisions, and a delivery     *)
(* before its days only after its event.                                      *)
Judged == IF asked = Unset THEN Default ELSE asked
RemovesOnlyOld ==
    /\ \A e \in DOMAIN events \ DOMAIN events' :
         Validate(Judged) /\ Judged.events > 0 /\ events[e] > Judged.events
    /\ \A d \in DOMAIN deliveries \ DOMAIN deliveries' :
         /\ Validate(Judged)
         /\ \/ Judged.events > 0 /\ deliveries[d].event \notin DOMAIN events
            \/ Judged.deliveries > 0 /\ deliveries[d].age > Judged.deliveries
    /\ \A i \in DOMAIN audit \ DOMAIN audit' :
         Validate(Judged) /\ Judged.audit >= MinAudit /\ audit[i] > Judged.audit
    /\ \A n \in revs \ revs' :
         Validate(Judged) /\ Judged.keep > 0 /\ Cardinality({m \in revs' : m > n}) >= MinKeep
PurgesOnlyOld == [][RemovesOnlyOld]_vars

(* The settings page tells the truth about the last run, also about one that  *)
(* stopped early: every count is what was really deleted.                     *)
RecordIsTrue == lastRun.count = lastRun.gone

(* TrimRevisions' comment: "a failed file removal can never leave a row       *)
(* pointing at a missing file".                                               *)
RowsHaveFiles == revs \subseteq files

(* A run without an error leaves no snapshot without a row, and no delivery   *)
(* without its event but one that was recorded after the event went, also of  *)
(* runs cut short before it.                                                  *)
SweptClean ==
    run.pc = "save" /\ ~run.error =>
        /\ files \subseteq revs
        /\ run.policy.events > 0 =>
             /\ \A d \in DOMAIN deliveries : deliveries[d].late \/ deliveries[d].event \in DOMAIN events
             /\ retries \subseteq DOMAIN events
=============================================================================
