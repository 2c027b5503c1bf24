------------------------------- MODULE MCHosts -------------------------------
(* Instances of the modules about hosts, streams and the background jobs for *)
(* TLC: a behaviour is of one of them, chosen at the start.                  *)
EXTENDS HostWatch, Integers, TLC

CONSTANTS Parts, Ids, MaxGen, Rights,
          Keys, Callers, Admins, MaxConns, RowEdits, MaxReinstalls,
          Jobs, Requests, Editors, Envs, Slots, Interval, MaxRunsKept, MaxRuns, JobEdits,
          Services, Digests, MaxMoves, PollFaults,
          Projects, Short(_), Rels, Files, Sources, MaxBytes, MaxOps, MaxUser, MaxWrites, SeedFaults, MaxCrashes,
          Versions, Rejected, Targets, StackFaults,
          Submitted, Stored, DefaultPolicy, MinAudit, MinKeep, MaxDays, Batch, Feed, Log, Snapshots,
          AgeCap, MaxRows, PurgeRuns, PurgeFaults

VARIABLES part
VARIABLES open, rights, loaded, subs, gen, streams, reader, late, wrongEnd
VARIABLES row, presents, clients, sshConns, conns, lock, call, admin, rowEdits, reinstalls, raced, reviewed
VARIABLES job, runs, due, work, edit, helpers, nextRun, jobEdits, lostEnv, orphans, early
VARIABLES running, registry, stored, poll, moves, pollFaults, told, faulty, again, missed
VARIABLES rPolicy, rEvents, rDeliveries, rRetries, rAudit, rRevs, rFiles, rRun, rLast, rSending, rAsked,
          rGone, rRuns, rFaults
VARIABLES eTarget, eOwned, eFile, ePrev, eTemps, eRunning, eOp, ePlaced, eOverlapped, eCut, eFaults
VARIABLES vol, helper, mounted, op, disk, reply, shipped, was, dirty, browsing, spent

ASSUME WatchBounds == BoundsOK
S == INSTANCE StreamHub
ASSUME StreamBounds == S!BoundsOK
C == INSTANCE HostClients WITH MaxEdits <- RowEdits, edits <- rowEdits
ASSUME ClientBounds == C!BoundsOK
B == INSTANCE BackupJobs WITH MaxEdits <- JobEdits, edits <- jobEdits
ASSUME JobBounds == B!BoundsOK
U == INSTANCE ImageUpdates WITH MaxFaults <- PollFaults, faults <- pollFaults
ASSUME PollBounds == U!BoundsOK
D == INSTANCE RemoteSeed WITH MaxFaults <- SeedFaults, open <- browsing, up <- mounted
ASSUME SeedBounds == D!BoundsOK

R == INSTANCE Retention WITH
       Default <- DefaultPolicy, MaxRuns <- PurgeRuns, MaxFaults <- PurgeFaults,
       policy <- rPolicy, events <- rEvents, deliveries <- rDeliveries, retries <- rRetries,
       audit <- rAudit, revs <- rRevs, files <- rFiles, run <- rRun, lastRun <- rLast,
       sending <- rSending, asked <- rAsked, gone <- rGone, runs <- rRuns, faults <- rFaults
ASSUME PurgeBounds == R!BoundsOK

E == INSTANCE StackEdit WITH
       Editors <- Requests, MaxFaults <- StackFaults,
       target <- eTarget, owned <- eOwned, file <- eFile, prev <- ePrev, temps <- eTemps,
       running <- eRunning, op <- eOp, placed <- ePlaced, overlapped <- eOverlapped,
       cut <- eCut, faults <- eFaults
ASSUME StackBounds == E!BoundsOK

(* Policies for the purge: keep everything, the default, one that is refused, *)
(* and one that was stored and cannot be used.                               *)
Policy(e, d, a, k) == [events |-> e, deliveries |-> d, audit |-> a, keep |-> k]
TheDefault == Policy(1, 1, 2, 1)
SentPolicies == {Policy(0, 0, 0, 0), TheDefault, Policy(2, 1, 1, 1)}
SavedPolicies == {Policy(-1, -1, -1, -1), Policy(1, 2, 1, 1)}
OneEvent == 1 :> 2
OneEntry == 1 :> 3

ShortOwn(p) == p
ShortSame(p) == 1     \* slugs that agree in their first 40 characters
TwoSources == {[f \in Files |-> IF f = 1 THEN 1 ELSE 0], [f \in Files |-> 2]}
(* Stacks: editable here and over ssh, read-only, outside their directory,   *)
(* and with a file beyond what is read.                                      *)
Target(kind, inside, writable, big) ==
    [kind |-> kind, dir |-> TRUE, inside |-> inside, writable |-> writable, big |-> big]
SomeTargets ==
    {Target("local", TRUE, TRUE, FALSE), Target("local", TRUE, FALSE, FALSE),
     Target("ssh", TRUE, TRUE, FALSE), Target("ssh", FALSE, TRUE, FALSE),
     Target("local", TRUE, TRUE, TRUE), Target("ssh", TRUE, TRUE, TRUE)}
Always == {[admin |-> TRUE, granted |-> TRUE]}
AnyRights == [admin : BOOLEAN, granted : BOOLEAN]

(* The callers of the client cache are interchangeable.                      *)
Symmetry == Permutations(Callers)

-----------------------------------------------------------------------------
svars == <<open, rights, loaded, subs, gen, streams, reader, late, wrongEnd>>
cvars == <<row, presents, clients, sshConns, conns, lock, call, admin, rowEdits, reinstalls, raced, reviewed>>
bvars == <<job, runs, due, work, edit, helpers, nextRun, jobEdits, lostEnv, orphans, early>>
uvars == <<running, registry, stored, poll, moves, pollFaults, told, faulty, again, missed>>
dvars == <<vol, helper, mounted, op, disk, reply, shipped, was, dirty, browsing, spent>>
rvars == <<rPolicy, rEvents, rDeliveries, rRetries, rAudit, rRevs, rFiles, rRun, rLast, rSending, rAsked,
           rGone, rRuns, rFaults>>
evars == <<eTarget, eOwned, eFile, ePrev, eTemps, eRunning, eOp, ePlaced, eOverlapped, eCut, eFaults>>
vars == <<part, wvars, svars, cvars, bvars, uvars, dvars, rvars, evars>>

MCInit ==
    /\ part \in Parts
    /\ Init /\ S!Init /\ C!Init /\ B!Init /\ U!Init /\ D!Init /\ R!Init /\ E!Init
    /\ part # "streams" => rights = CHOOSE r \in Rights : TRUE
    /\ part # "clients" => presents = [h \in Hosts |-> CHOOSE k \in Keys : TRUE]
    /\ part # "purge" => rPolicy = CHOOSE p \in Stored : TRUE
    /\ part # "stacks" => eTarget = CHOOSE t \in Targets : TRUE
    /\ part # "updates" => running = [s \in Services |-> CHOOSE d \in Digests : TRUE]

MCNext ==
    /\ UNCHANGED part
    /\ \/ part = "watch" /\ Next /\ UNCHANGED <<svars, cvars, bvars, uvars, dvars, rvars, evars>>
       \/ part = "streams" /\ S!Next /\ UNCHANGED <<wvars, cvars, bvars, uvars, dvars, rvars, evars>>
       \/ part = "clients" /\ C!Next /\ UNCHANGED <<wvars, svars, bvars, uvars, dvars, rvars, evars>>
       \/ part = "backups" /\ B!Next /\ UNCHANGED <<wvars, svars, cvars, uvars, dvars, rvars, evars>>
       \/ part = "updates" /\ U!Next /\ UNCHANGED <<wvars, svars, cvars, bvars, dvars, rvars, evars>>
       \/ part = "seeds" /\ D!Next /\ UNCHANGED <<wvars, svars, cvars, bvars, uvars, rvars, evars>>
       \/ part = "purge" /\ R!Next /\ UNCHANGED <<wvars, svars, cvars, bvars, uvars, dvars, evars>>
       \/ part = "stacks" /\ E!Next /\ UNCHANGED <<wvars, svars, cvars, bvars, uvars, dvars, rvars>>

MCSpec == MCInit /\ [][MCNext]_vars

-----------------------------------------------------------------------------
(* A stream nobody cancelled is the one under its id, a replaced one sends   *)
(* one more frame per goroutine at most, and nothing follows its "end"       *)
(* (finish, writeSub, demuxLines).                                           *)
StreamsAreOwned ==
    part = "streams" => S!StreamsAreOwned

(* Racing callers leave one open connection, a cached one follows the row    *)
(* and its pin, and a pinned key was approved (Client, Disconnect,           *)
(* handleTrustHost).                                                         *)
ConnectionsFollowRows ==
    part = "clients" => C!ConnectionsFollowRows

(* A job's badge is about the newest run kept, a helper container belongs to *)
(* a run under way, and scheduled runs keep their distance (RecordBackupRun, *)
(* RunBackupJob, DueBackupJobs).                                             *)
RunsAreRecorded ==
    part = "backups" => B!RunsAreRecorded

(* An image update is told of, and once (pollImageUpdatesForProject,         *)
(* imageUpdatesToNotify).                                                    *)
UpdatesAreTold ==
    part = "updates" => U!UpdatesAreTold

(* A deploy that succeeded has shipped every file, a restore that says the   *)
(* volumes are as before is right, no helper is left behind, and what a      *)
(* restore saves is bounded and discarded (SeedProjectBinds, Restore,        *)
(* CloseVolumeBrowser, SnapshotSeedVolumes).                                 *)
SeedsAreTrue ==
    part = "seeds" =>
        D!TypeOK /\ D!PutBackIsTrue /\ D!SeededIsShipped /\ D!HelpersAreClosed
        /\ D!SnapshotIsBounded

(* A purge deletes what the saved policy says and nothing else; its record   *)
(* is what it deleted, a revision's row keeps its snapshot, and a purge      *)
(* without an error leaves nothing behind (runRetention, TrimRevisions,      *)
(* PurgeAlertEvents).                                                        *)
PurgeIsTrue ==
    /\ [](part = "purge" =>
            R!TypeOK /\ R!RecordIsTrue /\ R!RowsHaveFiles /\ R!SweptClean)
    /\ [][R!RemovesOnlyOld]_rvars

(* A stack's file is one compose accepted, a save that failed has changed    *)
(* nothing, and a save keeps what it replaces (StackWriteComposeFile,        *)
(* writeLocal, writeOverSSH).                                                *)
StackFileIsWhole ==
    /\ [](part = "stacks" => E!TypeOK /\ E!FileIsAccepted /\ E!RefusedIsNotApplied)
    /\ [][E!KeepsReplaced]_evars

(* Comments of the code that TLC refutes (see the README).                   *)
RaceIsOneFrameWide == S!RaceIsOneFrameWide
EndNamesNoLiveSubscription == S!EndNamesNoLiveSubscription
GateIsLive == S!GateIsLive
NextUseIsFresh == C!NextUseIsFresh
TunnelIsOwned == C!TunnelIsOwned
NoDialUnderTheLock == C!NoDialUnderTheLock
NoOrphanRuns == B!NoOrphanRuns
EmptyEnvKeepsTheStored == B!EmptyEnvKeepsTheStored
NoHelperPersists == B!NoHelperPersists
SeedsAreLabelled == D!SeedsAreLabelled
VolumeMirrorsDirectory == D!VolumeMirrorsDirectory
NoHalfFile == E!NoHalfFile \/ eTarget.big
PreviousOfAnySize == [][eOverlapped \/ \A e \in Requests : E!Replaces(e) => ePrev = eFile]_evars
EveryPreviousIsKept == [][eTarget.big \/ \A e \in Requests : E!Replaces(e) => ePrev = eFile]_evars
NotAppliedIsTrue == E!NotAppliedIsTrue
=============================================================================
