----------------------------- MODULE ProjectOps -----------------------------
(***************************************************************************)
(* The operations on one project: save, deploy, down, change of host,      *)
(* delete and restore, the per-project lock they take, the revisions a     *)
(* deploy leaves behind and the retention that trims them                  *)
(* (internal/api/project_*.go, mcp_projects.go, retention.go).             *)
(*                                                                         *)
(* Every handler loads the project's row first and claims the lock after:  *)
(* it works with the row as it was before.  The project's folder, the two  *)
(* scratch folders of a restore and a snapshot are each one content, a     *)
(* number that every save makes anew.  Each step that touches the disk,    *)
(* the store or a Docker host is an action, so requests, retention and a   *)
(* stop of the process interleave anywhere between them.                   *)
(***************************************************************************)
EXTENDS Integers, FiniteSets, FiniteSetsExt

CONSTANTS
    Requests,    \* handler goroutines
    Kinds,       \* the operations requests are made for
    Hosts,
    NoOne,       \* nobody holds the lock
    Keep,        \* RevisionsKeep
    MaxSaves, MaxRevisions, MaxFaults, MaxCrashes   \* bounds

AllKinds == {"save", "deploy", "mcpdeploy", "down", "settings", "delete", "restore"}

ASSUME KindsAssumption == Kinds \subseteq AllKinds
ASSUME LockAssumption == NoOne \notin Requests
ASSUME BoundsAssumption ==
    /\ Keep \in Nat \ {0} /\ MaxSaves \in Nat /\ MaxRevisions \in Nat
    /\ MaxFaults \in Nat /\ MaxCrashes \in Nat

Absent == 0                       \* no such folder, file or stack
Mixed == -1                       \* what a compose up that failed half-way leaves
Contents == 1..(MaxSaves + 1)
Revisions == 1..MaxRevisions

VARIABLES
    row,       \* the project's row: the host it targets, or "gone"
    root,      \* the project's folder
    staging, backup,   \* root.restore-staging, root.restore-backup
    running,   \* [Hosts -> what the stack there was deployed from]
    rev,       \* [Revisions -> "none", "pending" (valid = 0) or "valid"]
    zip,       \* [Revisions -> the snapshot file]
    op,        \* the request that holds the project, or NoOne
    req,       \* [Requests -> where the handler is]
    sweep,     \* the orphan sweep: off, or the row numbers it has read
    saves, faults, crashes,
    want,      \* observer: the folder as the last answered request left it
    what,      \* observer: [Revisions -> the content its deploy brought up]
    hurt       \* observer: a delete has begun to remove files

disk == <<root, staging, backup>>
history == <<rev, zip, what>>
bounds == <<saves, faults, crashes>>
vars == <<row, disk, running, history, op, req, sweep, bounds, want, hurt>>

Idle == [pc |-> "idle", kind |-> "none", host |-> "gone", n |-> 0, up |-> Absent]
Steps == {"idle", "loaded", "held", "staged", "out", "in", "up", "row", "zip",
          "torn", "free", "rootless", "ziplines"}

(* Where a handler is, the row's host as it loaded it, the revision it is   *)
(* writing and the content it brought up.                                   *)
Handlers == [pc : Steps, kind : AllKinds \cup {"none"}, host : Hosts \cup {"gone"},
             n : 0..MaxRevisions, up : Contents \cup {Absent}]

(* A handler past its claim is the one that holds the project.              *)
OneAtATime == \A r \in Requests : op = r <=> req[r].pc \notin {"idle", "loaded"}

TypeOK ==
    /\ row \in Hosts \cup {"gone"}
    /\ {root, staging, backup, want} \subseteq Contents \cup {Absent}
    /\ running \in [Hosts -> Contents \cup {Absent, Mixed}]
    /\ rev \in [Revisions -> {"none", "pending", "valid"}]
    /\ zip \in [Revisions -> Contents \cup {Absent}]
    /\ what \in [Revisions -> Contents \cup {Absent}]
    /\ op \in Requests \cup {NoOne}
    /\ req \in [Requests -> Handlers]
    /\ sweep \in [on : BOOLEAN, live : SUBSET Revisions]
    /\ saves \in 0..MaxSaves /\ faults \in 0..MaxFaults /\ crashes \in 0..MaxCrashes
    /\ hurt \in BOOLEAN
    /\ OneAtATime

Init ==
    /\ row \in Hosts
    /\ root = 1 /\ staging = Absent /\ backup = Absent /\ want = 1
    /\ running = [h \in Hosts |-> Absent]
    /\ rev = [n \in Revisions |-> "none"]
    /\ zip = [n \in Revisions |-> Absent]
    /\ what = [n \in Revisions |-> Absent]
    /\ op = NoOne /\ req = [r \in Requests |-> Idle]
    /\ sweep = [on |-> FALSE, live |-> {}]
    /\ saves = 0 /\ faults = 0 /\ crashes = 0 /\ hurt = FALSE

-----------------------------------------------------------------------------
(* Steps every handler shares.                                              *)

At(r, kinds, pc) == req[r].kind \in kinds /\ req[r].pc = pc
Goto(r, pc) == req' = [req EXCEPT ![r].pc = pc] /\ UNCHANGED op

(* The handler answers; its deferred release gives the project back.        *)
Answer(r) == req' = [req EXCEPT ![r] = Idle] /\ op' = NoOne

(* Something fails that normally works: a rename, a write, a store call.    *)
Fault == faults < MaxFaults /\ faults' = faults + 1 /\ UNCHANGED <<saves, crashes>>

(* loadProject: the row is read before anything is claimed.                 *)
loadProject(r, kind) ==
    /\ req[r].pc = "idle" /\ row # "gone"
    /\ req' = [req EXCEPT ![r] = [Idle EXCEPT !.pc = "loaded", !.kind = kind, !.host = row]]
    /\ UNCHANGED <<row, disk, running, history, op, sweep, bounds, want, hurt>>

(* Mutant: a save that does not ask for the project.                        *)
BeginProjectOpNotForSaves(r) ==
    /\ req[r].pc = "loaded"
    /\ \/ /\ op = NoOne \/ req[r].kind = "save"
          /\ op' = r /\ req' = [req EXCEPT ![r].pc = "held"]
       \/ op # NoOne /\ req' = [req EXCEPT ![r] = Idle] /\ UNCHANGED op
    /\ UNCHANGED <<row, disk, running, history, sweep, bounds, want, hurt>>

(* beginProjectOp: claim the project, or answer 409.                        *)
beginProjectOp(r) ==
    /\ req[r].pc = "loaded"
    /\ \/ op = NoOne /\ op' = r /\ req' = [req EXCEPT ![r].pc = "held"]
       \/ op # NoOne /\ req' = [req EXCEPT ![r] = Idle] /\ UNCHANGED op
    /\ UNCHANGED <<row, disk, running, history, sweep, bounds, want, hurt>>

-----------------------------------------------------------------------------
(* Saves, down, settings.                                                   *)

(* A file written, uploaded or removed, a folder made: MkdirAll(root) comes *)
(* first, so the folder is there afterwards whatever was there before.      *)
handleWriteProjectFile(r) ==
    /\ At(r, {"save"}, "held")
    /\ \/ /\ saves < MaxSaves /\ saves' = saves + 1
          /\ root' = saves + 2 /\ want' = saves + 2
          /\ UNCHANGED <<faults, crashes>>
       \/ UNCHANGED <<root, want, bounds>>       \* refused: name, size, count
    /\ Answer(r)
    /\ UNCHANGED <<row, staging, backup, running, history, sweep, hurt>>

(* compose down on the host of the row the request loaded.                  *)
ComposeDown(h) == running' = [running EXCEPT ![h] = Absent]

(* Mutant: a down that waits for a stack which is not there.                *)
RunProjectComposeWaits(r) ==
    /\ At(r, {"down"}, "held")
    /\ running[req[r].host] # Absent
    /\ ComposeDown(req[r].host) \/ UNCHANGED running
    /\ Answer(r)
    /\ UNCHANGED <<row, disk, history, sweep, bounds, want, hurt>>

runProjectCompose(r) ==
    /\ At(r, {"down"}, "held")
    /\ ComposeDown(req[r].host) \/ UNCHANGED running
    /\ Answer(r)
    /\ UNCHANGED <<row, disk, history, sweep, bounds, want, hurt>>

(* Settings with another host and the box ticked: down on the old host,     *)
(* and only then the row.                                                   *)
tearDownOnHost(r) ==
    /\ At(r, {"settings"}, "held")
    /\ \/ ComposeDown(req[r].host) /\ Goto(r, "torn")
       \/ UNCHANGED running /\ Answer(r)
    /\ UNCHANGED <<row, disk, history, sweep, bounds, want, hurt>>

UpdateProjectSettings(r) ==
    /\ At(r, {"settings"}, "torn")
    /\ \/ /\ \E h \in Hosts \ {req[r].host} : row' = IF row = "gone" THEN row ELSE h
          /\ UNCHANGED bounds
       \/ Fault /\ UNCHANGED row
    /\ Answer(r)
    /\ UNCHANGED <<disk, running, history, sweep, want, hurt>>

-----------------------------------------------------------------------------
(* Deploys and their revisions.                                             *)

(* compose up from the folder: it succeeds, or fails and may leave some     *)
(* services changed.                                                        *)
Up(r) == running' = [running EXCEPT ![req[r].host] = root]
UpFails(r) ==
    \/ UNCHANGED running
    \/ running' = [running EXCEPT ![req[r].host] = Mixed]

NextRevision == Max({n \in Revisions : rev[n] # "none"} \cup {0}) + 1

(* Mutant: a deploy that forgets to capture its revision.                   *)
DeployUncaptured(r) ==
    /\ At(r, {"deploy"}, "held")
    /\ \/ root # Absent /\ Up(r)
       \/ UpFails(r)
    /\ Answer(r)
    /\ UNCHANGED <<row, disk, history, sweep, bounds, want, hurt>>

handleDeployProject(r) ==
    /\ At(r, {"deploy"}, "held")
    /\ \/ /\ root # Absent /\ Up(r) /\ NextRevision \in Revisions   \* bound
          /\ req' = [req EXCEPT ![r].pc = "up", ![r].up = root] /\ UNCHANGED op
       \/ UpFails(r) /\ Answer(r)
    /\ UNCHANGED <<row, disk, history, sweep, bounds, want, hurt>>

(* The same through MCP: no revision is captured.                           *)
mcpDeployProject(r) ==
    /\ At(r, {"mcpdeploy"}, "held")
    /\ \/ root # Absent /\ Up(r)
       \/ UpFails(r)
    /\ Answer(r)
    /\ UNCHANGED <<row, disk, history, sweep, bounds, want, hurt>>

(* The end of a deploy or a restore; a restore drops its backup folder.     *)
Deployed(r) ==
    /\ backup' = IF req[r].kind = "restore" THEN Absent ELSE backup
    /\ UNCHANGED <<root, staging>>
    /\ Answer(r)

(* CreateRevision: the row first, not valid yet.                            *)
CreateRevision(r) ==
    /\ req[r].pc = "up"
    /\ \/ /\ NextRevision \in Revisions      \* bound
          /\ rev' = [rev EXCEPT ![NextRevision] = "pending"]
          /\ what' = [what EXCEPT ![NextRevision] = req[r].up]
          /\ req' = [req EXCEPT ![r].pc = "row", ![r].n = NextRevision]
          /\ UNCHANGED <<op, disk, bounds>>
       \/ Fault /\ Deployed(r) /\ UNCHANGED <<rev, what>>
    /\ UNCHANGED <<row, running, zip, sweep, want, hurt>>

(* The folder zipped into a temporary file and renamed into place.          *)
PublishSnapshot(r) ==
    /\ req[r].pc = "row"
    /\ \/ /\ zip' = [zip EXCEPT ![req[r].n] = root]
          /\ Goto(r, "zip") /\ UNCHANGED <<disk, bounds>>
       \/ Fault /\ Deployed(r) /\ UNCHANGED zip
    /\ UNCHANGED <<row, running, rev, what, sweep, want, hurt>>

SetRevisionValid(r) ==
    /\ req[r].pc = "zip"
    /\ \/ /\ rev' = [rev EXCEPT ![req[r].n] = IF @ = "none" THEN @ ELSE "valid"]
          /\ UNCHANGED bounds
       \/ Fault /\ UNCHANGED rev
    /\ Deployed(r)
    /\ UNCHANGED <<row, running, zip, what, sweep, want, hurt>>

captureRevision(r) == CreateRevision(r) \/ PublishSnapshot(r) \/ SetRevisionValid(r)

-----------------------------------------------------------------------------
(* Delete.                                                                  *)

(* projectDeployed; an error of the listing reads as "not deployed".        *)
CheckDeployed(r) ==
    /\ At(r, {"delete"}, "held")
    /\ \/ /\ running[req[r].host] = Absent
          /\ Goto(r, "free") /\ UNCHANGED <<running, bounds>>
       \/ /\ running[req[r].host] # Absent
          /\ \/ Answer(r) /\ UNCHANGED <<running, bounds>>      \* refused, or down failed
             \/ ComposeDown(req[r].host) /\ Goto(r, "free") /\ UNCHANGED bounds
             \/ Fault /\ Goto(r, "free") /\ UNCHANGED running
    /\ UNCHANGED <<row, disk, history, sweep, want, hurt>>

RemoveFolder(r) ==
    /\ At(r, {"delete"}, "free")
    /\ \/ root' = Absent /\ hurt' = TRUE /\ Goto(r, "rootless") /\ UNCHANGED bounds
       \/ Fault /\ Answer(r) /\ UNCHANGED <<root, hurt>>
    /\ UNCHANGED <<row, staging, backup, running, history, sweep, want>>

RemoveSnapshots(r) ==
    /\ At(r, {"delete"}, "rootless")
    /\ \/ zip' = [n \in Revisions |-> Absent] /\ Goto(r, "ziplines") /\ UNCHANGED bounds
       \/ Fault /\ Answer(r) /\ UNCHANGED zip
    /\ UNCHANGED <<row, disk, running, rev, what, sweep, want, hurt>>

(* store.DeleteProject: the revisions' rows, then the project's.            *)
DeleteProject(r) ==
    /\ At(r, {"delete"}, "ziplines")
    /\ \/ /\ rev' = [n \in Revisions |-> "none"] /\ row' = "gone"
          /\ UNCHANGED bounds
       \/ /\ rev' \in {rev, [n \in Revisions |-> "none"]}
          /\ Fault /\ UNCHANGED row
    /\ Answer(r)
    /\ UNCHANGED <<disk, running, zip, what, sweep, want, hurt>>

handleDeleteProject(r) ==
    CheckDeployed(r) \/ RemoveFolder(r) \/ RemoveSnapshots(r) \/ DeleteProject(r)

-----------------------------------------------------------------------------
(* Restore.                                                                 *)

(* Find the revision, clear what an earlier attempt left, unzip, validate.  *)
StageRevision(r) ==
    /\ At(r, {"restore"}, "held")
    /\ \/ /\ \E n \in Revisions :
               rev[n] = "valid" /\ zip[n] # Absent /\ staging' = zip[n]
          /\ backup' = Absent /\ Goto(r, "staged")
       \/ Answer(r) /\ UNCHANGED <<staging, backup>>      \* not found, not valid
    /\ UNCHANGED <<row, root, running, history, sweep, bounds, want, hurt>>

RefuseRestore(r) ==
    /\ At(r, {"restore"}, "staged")
    /\ staging' = Absent /\ Answer(r)
    /\ UNCHANGED <<row, root, backup, running, history, sweep, bounds, want, hurt>>

SwapOut(r) ==
    /\ At(r, {"restore"}, "staged")
    /\ \/ /\ backup' = root /\ root' = Absent       \* nothing to move if it was absent
          /\ Goto(r, "out") /\ UNCHANGED <<staging, bounds>>
       \/ /\ root # Absent /\ Fault
          /\ staging' = Absent /\ Answer(r) /\ UNCHANGED <<root, backup>>
    /\ UNCHANGED <<row, running, history, sweep, want, hurt>>

SwapIn(r) ==
    /\ At(r, {"restore"}, "out")
    /\ staging' = Absent
    /\ \/ root' = staging /\ Goto(r, "in") /\ UNCHANGED <<backup, bounds>>
       \/ Fault /\ root' = backup /\ backup' = Absent /\ Answer(r)
    /\ UNCHANGED <<row, running, history, sweep, want, hurt>>

(* The deploy of the swapped-in files, or the previous folder put back.     *)
RestoreUp(r) ==
    /\ At(r, {"restore"}, "in")
    /\ \/ /\ Up(r) /\ want' = root /\ NextRevision \in Revisions   \* bound
          /\ req' = [req EXCEPT ![r].pc = "up", ![r].up = root]
          /\ UNCHANGED <<op, root, backup>>
       \/ /\ UpFails(r) /\ Answer(r)
          /\ root' = backup /\ backup' = Absent /\ UNCHANGED want
    /\ UNCHANGED <<row, staging, history, sweep, bounds, hurt>>

handleRestoreRevision(r) ==
    StageRevision(r) \/ RefuseRestore(r) \/ SwapOut(r) \/ SwapIn(r) \/ RestoreUp(r)

-----------------------------------------------------------------------------
(* Retention, which takes no project's lock, and the process.               *)

(* Mutant: the comparison of the revision numbers the other way round.      *)
Older(n) == {m \in Revisions : m < n /\ rev[m] # "none"}

Newer(n) == {m \in Revisions : m > n /\ rev[m] # "none"}

(* TrimRevisions, then the removal of the files of the rows it deleted; it  *)
(* may stop half-way, and a file that stays is an orphan for the sweep.     *)
TrimRevisions ==
    LET old == {n \in Revisions : rev[n] # "none" /\ Cardinality(Newer(n)) >= Keep}
    IN  \E gone \in SUBSET old, kept \in SUBSET old :
          /\ gone # {}
          /\ rev' = [n \in Revisions |-> IF n \in gone THEN "none" ELSE rev[n]]
          /\ zip' = [n \in Revisions |-> IF n \in gone \ kept THEN Absent ELSE zip[n]]
          /\ IF gone = old /\ kept = {} THEN UNCHANGED bounds ELSE kept \subseteq gone /\ Fault
          /\ UNCHANGED <<row, disk, running, what, op, req, sweep, want, hurt>>

(* sweepOrphanRevisionFiles: RevisionNumbers first ...                      *)
SweepReadsRows ==
    /\ ~sweep.on
    /\ sweep' = [on |-> TRUE, live |-> {n \in Revisions : rev[n] # "none"}]
    /\ UNCHANGED <<row, disk, running, history, op, req, bounds, want, hurt>>

(* ... then ReadDir, and every file without a number among them goes.       *)
SweepRemovesFiles ==
    /\ sweep.on
    /\ zip' = [n \in Revisions |-> IF n \in sweep.live THEN zip[n] ELSE Absent]
    /\ sweep' = [on |-> FALSE, live |-> {}]
    /\ UNCHANGED <<row, disk, running, rev, what, op, req, bounds, want, hurt>>

(* The process stops; the next one knows nothing of what was under way.     *)
Crash ==
    /\ crashes < MaxCrashes /\ crashes' = crashes + 1
    /\ req' = [r \in Requests |-> Idle] /\ op' = NoOne
    /\ sweep' = [on |-> FALSE, live |-> {}]
    /\ UNCHANGED <<row, disk, running, history, saves, faults, want, hurt>>

Handler(r) ==
    \/ beginProjectOp(r)
    \/ handleWriteProjectFile(r) \/ runProjectCompose(r)
    \/ tearDownOnHost(r) \/ UpdateProjectSettings(r)
    \/ handleDeployProject(r) \/ mcpDeployProject(r) \/ captureRevision(r)
    \/ handleDeleteProject(r) \/ handleRestoreRevision(r)

Next ==
    \/ \E r \in Requests, kind \in Kinds : loadProject(r, kind)
    \/ \E r \in Requests : Handler(r)
    \/ TrimRevisions \/ SweepReadsRows \/ SweepRemovesFiles
    \/ Crash

Spec == Init /\ [][Next]_vars

(* A handler that has the project runs to its end.                          *)
FairSpec == Spec /\ \A r \in Requests : WF_vars(Handler(r))

-----------------------------------------------------------------------------
(* Properties.                                                              *)

AtRest == op = NoOne
Alive == row # "gone" /\ ~hurt

(***************************************************************************)
(* A snapshot of a valid revision is what that deploy brought up: no save, *)
(* restore or retention run can slip between compose up and zipDir.        *)
(***************************************************************************)
SnapshotIsWhatRan ==
    \A n \in Revisions : rev[n] = "valid" /\ zip[n] # Absent => zip[n] = what[n]

(***************************************************************************)
(* Unless the process stopped, the folder of a project nobody works on is  *)
(* what the last answered save or restore made of it: a save that was      *)
(* answered is not thrown away, and a restore that failed at any step put  *)
(* the folder back.                                                        *)
(***************************************************************************)
AnsweredFilesKept == AtRest /\ Alive /\ crashes = 0 => root = want

(***************************************************************************)
(* Snapshots are what ran, and the folder is what was answered.            *)
(***************************************************************************)
FilesHold == SnapshotIsWhatRan /\ AnsweredFilesKept

(***************************************************************************)
(* docs/projects.md:225: "history only grows forward": until a delete      *)
(* begins, a revision number is never given to a second deploy, whatever   *)
(* retention removed and wherever the process stopped.                     *)
(***************************************************************************)
HistoryOnlyGrows ==
    [][\A n \in Revisions :
         ~hurt /\ what[n] # Absent => ~(rev[n] = "none" /\ rev'[n] = "pending")]_vars

(***************************************************************************)
(* A claimed project is given back on every path of every handler.         *)
(***************************************************************************)
ProjectIsReleased == op # NoOne ~> op = NoOne

(***************************************************************************)
(* project_revisions_handlers.go:402: leftovers of a crashed restore "are  *)
(* scratch state, never the live project".  The folder as it was last      *)
(* answered is in the project's folder or in its backup.                   *)
(***************************************************************************)
CrashKeepsFiles == Alive => want \in {root, backup}

(***************************************************************************)
(* docs/projects.md:193: "Every successful deploy as a revision".  Without *)
(* faults, what runs on the project's host at rest is its last revision.   *)
(***************************************************************************)
EveryDeployIsRecorded ==
    AtRest /\ Alive /\ faults = 0 /\ crashes = 0 /\ running[row] \in Contents
        => NextRevision > 1 /\ what[NextRevision - 1] = running[row]

(***************************************************************************)
(* docs/projects.md:357: a second live copy on another host "no longer     *)
(* happens by accident" when the old host is brought down first.           *)
(***************************************************************************)
NoStrandedStack ==
    AtRest /\ Alive /\ faults = 0 /\ crashes = 0 =>
        \A h \in Hosts : running[h] \in Contents => h = row

(***************************************************************************)
(* docs/projects.md:196: Delete is "Refused while deployed".               *)
(***************************************************************************)
DeleteRefusedWhileDeployed ==
    [][row # "gone" /\ row' = "gone" => running[row] = Absent]_vars

(***************************************************************************)
(* project_handlers.go:408 keeps a delete from leaving files "orphaned on  *)
(* disk forever, with no reachable DB record": the project's folder is     *)
(* gone once its row is.                                                   *)
(***************************************************************************)
DeletedLeavesNothing == AtRest /\ row = "gone" => root = Absent

(***************************************************************************)
(* retention.go:139: "a file without a row is never one in the middle of   *)
(* being created".  A valid revision keeps its snapshot.                   *)
(***************************************************************************)
ValidHasSnapshot == Alive => \A n \in Revisions : rev[n] = "valid" => zip[n] # Absent

=============================================================================
