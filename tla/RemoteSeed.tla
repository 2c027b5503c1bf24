----------------------------- MODULE RemoteSeed -----------------------------
(* The volumes that stand in for a project's bind mounts on a remote host    *)
(* (docker/compose_binds.go, seed_snapshot.go, volumefiles.go; projectSeed   *)
(* in api/project_handlers.go; handleRestoreRevision). A deploy copies the   *)
(* project's files into them; a restore saves what they held first and puts  *)
(* it back when a later step fails. Files go in and out through one helper   *)
(* container per volume, which the volume browser of any user shares; the    *)
(* project's containers write to the volumes meanwhile. A volume's content   *)
(* is the version of each file, 0 for none.                                  *)
EXTENDS Naturals, FiniteSets

CONSTANTS
    Projects,     \* projects on the host
    Short(_),     \* sanitizeVolumeSlug of a project's slug
    Rels,         \* bind sources of a project, in the order of its compose file
    Files,        \* names of files
    Sources,      \* contents a bind source may have: the version of each file, 0 for none
    MaxBytes,     \* maxSeedSnapshotBytes; a file is one unit
    MaxOps,       \* bound: operations started
    MaxUser,      \* bound: actions of users of the volume pages
    MaxWrites,    \* bound: writes of containers
    MaxFaults,    \* bound: errors of the daemon
    MaxCrashes    \* bound: crashes of the server

(* SeedVolumeName.                                                           *)
SeedVolumeName(p, rel) == <<Short(p), rel>>
Vols == {SeedVolumeName(p, r) : p \in Projects, r \in Rels}
VolsOf(p) == {SeedVolumeName(p, r) : r \in Rels}

Empty == [f \in Files |-> 0]
Absent == [there |-> FALSE]
Idle == [pc |-> "idle"]
Written == 3      \* the version a container writes, in no bind source

(* A bind source has a version of each file, and the bound on a snapshot is  *)
(* a number.                                                                 *)
BoundsOK ==
    /\ IsFiniteSet(Files) /\ MaxBytes \in Nat
    /\ \A src \in Sources : src = [f \in Files |-> src[f]] /\ \A f \in Files : src[f] \in 0..Written

(* No two slugs agree once they are sanitised and cut to 40 characters, which *)
(* nothing in the code sees to.                                              *)
NamesApart == \A p, q \in Projects : Short(p) = Short(q) => p = q

VARIABLES
    vol,      \* volumes: Absent, or [there, c, label: the project it is labelled with, if any]
    helper,   \* volumes that have a running helper container
    up,       \* volumes a container of a project has mounted
    op,       \* where each project's operation stands (one at a time: opLock)
    disk,     \* sizes of the dc-seed-snapshot-* directories: of the operation under way (now),
              \* and of those a crash left
    reply,    \* what each project's last operation answered
    shipped,  \* history: what the last successful operation copied
    was,      \* history: the volumes when the operation began
    dirty,    \* history: volumes written or removed by others since then
    open,     \* history: volumes users have a browser open on
    spent     \* history: what the bounds count

svars == <<vol, helper, up, op, disk, reply, shipped, was, dirty, open, spent>>

Init ==
    /\ vol = [v \in Vols |-> Absent] /\ helper = {} /\ up = {}
    /\ op = [p \in Projects |-> Idle]
    /\ disk = [p \in Projects |-> [now |-> 0, left |-> 0]] /\ reply = [p \in Projects |-> "none"]
    /\ shipped = [v \in Vols |-> Empty] /\ was = vol
    /\ dirty = {} /\ open = {}
    /\ spent = [op |-> 0, user |-> 0, write |-> 0, fault |-> 0, crash |-> 0]

Spend(what, bound) == spent[what] < bound /\ spent' = [spent EXCEPT ![what] = @ + 1]
OpTo(p, to) == op' = [op EXCEPT ![p] = to]
ReplyTo(p, r) == reply' = [reply EXCEPT ![p] = r]
Size(c) == Cardinality({f \in Files : c[f] # 0})
Content(x) == IF x.there THEN x.c ELSE Empty
InUse(v) == v \in helper \cup up
FirstOf(vs, v) == v \in vs /\ \A w \in vs : v[2] <= w[2]   \* the loops go through a slice

(* volumeHelper starts a container that mounts the volume by name: Docker    *)
(* creates a volume that is not there, without a label.                      *)
Mounted(v) == IF vol[v].there THEN vol ELSE [vol EXCEPT ![v] = [there |-> TRUE, c |-> Empty, label |-> {}]]
OpenHelper(v) == helper' = helper \cup {v} /\ vol' = Mounted(v)

(* CloseVolumeBrowser of every volume an operation opened.                   *)
Close(vs) == helper \ vs

-----------------------------------------------------------------------------
(* Users of the volume pages, and the containers.                            *)
BrowseVolume(v) ==
    /\ Spend("user", MaxUser)
    /\ v \notin helper
    /\ OpenHelper(v)
    /\ open' = open \cup {v}
    /\ dirty' = IF vol[v].there THEN dirty ELSE dirty \cup {v}
    /\ UNCHANGED <<up, op, disk, reply, shipped, was>>

(* handleCloseVolumeBrowser; reapVolumeHelpers does the same by age.         *)
CloseBrowser(v) ==
    /\ Spend("user", MaxUser)
    /\ v \in helper
    /\ helper' = helper \ {v} /\ open' = open \ {v}
    /\ UNCHANGED <<vol, up, op, disk, reply, shipped, was, dirty>>

RemoveVolume(v) ==
    /\ Spend("user", MaxUser)
    /\ vol[v].there /\ ~InUse(v)
    /\ vol' = [vol EXCEPT ![v] = Absent]
    /\ dirty' = dirty \cup {v}
    /\ UNCHANGED <<helper, up, op, disk, reply, shipped, was, open>>

ContainerWrites(v, f) ==
    /\ Spend("write", MaxWrites)
    /\ v \in up
    /\ vol' = [vol EXCEPT ![v].c[f] = Written]
    /\ dirty' = dirty \cup {v}
    /\ UNCHANGED <<helper, up, op, disk, reply, shipped, was, open>>

-----------------------------------------------------------------------------
(* projectDeployEnv and the policy check come before the seed and write      *)
(* nothing; the files are those of the project, or the revision's.           *)
Start(p, kind, files) ==
    /\ Spend("op", MaxOps)
    /\ op[p].pc = "idle"
    /\ OpTo(p, [pc |-> IF kind = "restore" THEN "inspect" ELSE "create", kind |-> kind, src |-> files,
                todo |-> VolsOf(p), at |-> Absent, budget |-> MaxBytes, touched |-> {},
                snap |-> [v \in {} |-> Absent], errs |-> {}])
    /\ ReplyTo(p, "none")
    /\ was' = [v \in Vols |-> IF v \in VolsOf(p) THEN vol[v] ELSE was[v]]
    /\ dirty' = dirty \ VolsOf(p)
    /\ UNCHANGED <<vol, helper, up, disk, shipped, open>>

(* SnapshotSeedVolumes: a volume that is not there is noted as such.         *)
With(fn, v, x) == [w \in DOMAIN fn \cup {v} |-> IF w = v THEN x ELSE fn[w]]

SnapshotInspect(p, v) ==
    LET x == op[p] IN
    /\ x.pc = "inspect" /\ FirstOf(x.todo, v)
    /\ IF vol[v].there
         THEN OpenHelper(v) /\ OpTo(p, [x EXCEPT !.pc = "save", !.at = v, !.touched = @ \cup {v}])
         ELSE /\ OpTo(p, [x EXCEPT !.todo = @ \ {v}, !.snap = With(x.snap, v, Absent)])
              /\ UNCHANGED <<vol, helper>>
    /\ UNCHANGED <<up, disk, reply, shipped, was, dirty, open, spent>>

(* saveVolume: the budget is shared by all volumes.                          *)
Left(x, n) == x.budget - n
Discard(p) == [disk EXCEPT ![p].now = 0]

Refuse(p) ==
    /\ helper' = Close(op[p].touched)
    /\ disk' = Discard(p)
    /\ ReplyTo(p, "unchanged") /\ OpTo(p, Idle)

SaveVolume(p) ==
    LET x == op[p]
        n == Size(vol[x.at].c) IN
    /\ x.pc = "save"
    /\ \/ /\ x.at \in helper /\ n <= x.budget
          /\ disk' = [disk EXCEPT ![p].now = @ + n]
          /\ OpTo(p, [x EXCEPT !.pc = "inspect", !.todo = @ \ {x.at}, !.budget = Left(x, n),
                               !.snap = With(x.snap, x.at, vol[x.at])])
          /\ UNCHANGED <<helper, reply, spent>>
       \/ /\ x.at \in helper /\ n > x.budget /\ Refuse(p) /\ UNCHANGED spent
       \/ /\ IF x.at \in helper THEN Spend("fault", MaxFaults) ELSE UNCHANGED spent
          /\ Refuse(p)
    /\ UNCHANGED <<vol, up, shipped, was, dirty, open>>

Snapshotted(p) ==
    /\ op[p].pc = "inspect" /\ op[p].todo = {}
    /\ helper' = Close(op[p].touched)
    /\ OpTo(p, [op[p] EXCEPT !.pc = "create", !.todo = VolsOf(p), !.touched = {}])
    /\ UNCHANGED <<vol, up, disk, reply, shipped, was, dirty, open, spent>>

-----------------------------------------------------------------------------
(* SeedProjectBinds: VolumeCreate answers with a volume that is there        *)
(* already, as it is. It opens the helper, and copies the files over.        *)
SeedCreate(p, v) ==
    LET x == op[p] IN
    /\ x.pc = "create" /\ FirstOf(x.todo, v)
    /\ vol' = IF vol[v].there THEN vol ELSE [vol EXCEPT ![v] = [there |-> TRUE, c |-> Empty, label |-> {p}]]
    /\ OpTo(p, [x EXCEPT !.pc = "open", !.at = v, !.touched = @ \cup {v}])
    /\ UNCHANGED <<helper, up, disk, reply, shipped, was, dirty, open, spent>>

SeedOpen(p) ==
    /\ op[p].pc = "open"
    /\ OpenHelper(op[p].at)
    /\ OpTo(p, [op[p] EXCEPT !.pc = "copy"])
    /\ UNCHANGED <<up, disk, reply, shipped, was, dirty, open, spent>>

Over(c, src, some) == [f \in Files |-> IF f \in some /\ src[f] # 0 THEN src[f] ELSE c[f]]

SeedCopy(p) ==
    LET x == op[p] IN
    /\ x.pc = "copy" /\ x.at \in helper
    /\ vol' = [vol EXCEPT ![x.at].c = Over(@, x.src, Files)]
    /\ OpTo(p, [x EXCEPT !.pc = "create", !.todo = @ \ {x.at}])
    /\ UNCHANGED <<helper, up, disk, reply, shipped, was, dirty, open, spent>>

(* An error, or a helper somebody closed: some files have been copied. A     *)
(* restore puts the volumes back, a deploy reports.                          *)
AfterSeedError(x) == IF x.kind = "restore" THEN [x EXCEPT !.pc = "undo"] ELSE Idle

SeedFails(p) ==
    LET x == op[p] IN
    /\ x.pc = "copy"
    /\ IF x.at \in helper THEN Spend("fault", MaxFaults) ELSE UNCHANGED spent
    /\ \E some \in SUBSET Files :
         vol' = IF vol[x.at].there THEN [vol EXCEPT ![x.at].c = Over(@, x.src, some)] ELSE vol
    /\ helper' = Close(x.touched)
    /\ OpTo(p, AfterSeedError(x))
    /\ IF x.kind = "restore" THEN UNCHANGED reply ELSE ReplyTo(p, "failed")
    /\ UNCHANGED <<up, disk, shipped, was, dirty, open>>

Seeded(p) ==
    /\ op[p].pc = "create" /\ op[p].todo = {}
    /\ helper' = Close(op[p].touched)
    /\ OpTo(p, [op[p] EXCEPT !.pc = "up"])
    /\ UNCHANGED <<vol, up, disk, reply, shipped, was, dirty, open, spent>>

(* ComposeUpFiles: the override declares the volumes external, so one that   *)
(* is gone fails it. A failure may have created some of the containers; the  *)
(* swap of the folder before it may fail too, with none.                     *)
UpSucceeds(p) ==
    /\ op[p].pc = "up" /\ \A v \in VolsOf(p) : vol[v].there
    /\ up' = up \cup VolsOf(p)
    /\ shipped' = [v \in Vols |-> IF v \in VolsOf(p) THEN op[p].src ELSE shipped[v]]
    /\ disk' = Discard(p)
    /\ ReplyTo(p, "ok") /\ OpTo(p, Idle)
    /\ UNCHANGED <<vol, helper, was, dirty, open, spent>>

UpFails(p) ==
    /\ op[p].pc = "up"
    /\ IF \A v \in VolsOf(p) : vol[v].there THEN Spend("fault", MaxFaults) ELSE UNCHANGED spent
    /\ \E some \in SUBSET VolsOf(p) : up' = up \cup {v \in some : vol[v].there}
    /\ IF op[p].kind = "restore"
         THEN OpTo(p, [op[p] EXCEPT !.pc = "undo"]) /\ UNCHANGED reply
         ELSE OpTo(p, Idle) /\ ReplyTo(p, "failed")
    /\ UNCHANGED <<vol, helper, disk, shipped, was, dirty, open>>

-----------------------------------------------------------------------------
(* SeedSnapshot.Restore, on a context of its own: without a client nothing   *)
(* is put back; otherwise every volume is tried, whatever the others did.    *)
BeginUndo(p) ==
    LET x == op[p] IN
    /\ x.pc = "undo"
    /\ \/ /\ helper' = Close(VolsOf(p))
          /\ OpTo(p, [x EXCEPT !.pc = "put", !.todo = VolsOf(p)])
          /\ UNCHANGED <<disk, reply, spent>>
       \/ /\ Spend("fault", MaxFaults)
          /\ disk' = Discard(p)
          /\ ReplyTo(p, "stuck") /\ OpTo(p, Idle)
          /\ UNCHANGED helper
    /\ UNCHANGED <<vol, up, shipped, was, dirty, open>>

(* Errors are collected and reported.                                        *)
FailedSilently(x, v) == [x EXCEPT !.pc = "put", !.todo = @ \ {v}]
Failed(x, v) == [x EXCEPT !.pc = "put", !.todo = @ \ {v}, !.errs = @ \cup {v}]
PutBack(x, v) == [x EXCEPT !.pc = "put", !.todo = @ \ {v}]

(* A volume the restore created is removed, unless it is in use.             *)
UndoCreated(p, v) ==
    LET x == op[p] IN
    /\ x.pc = "put" /\ FirstOf(x.todo, v) /\ ~x.snap[v].there
    /\ IF InUse(v) THEN OpTo(p, Failed(x, v)) /\ UNCHANGED vol
       ELSE vol' = [vol EXCEPT ![v] = Absent] /\ OpTo(p, PutBack(x, v))
    /\ UNCHANGED <<helper, up, disk, reply, shipped, was, dirty, open, spent>>

(* replaceVolume: the helper, then everything deleted, then the saved copy.  *)
UndoOpen(p, v) ==
    LET x == op[p] IN
    /\ x.pc = "put" /\ FirstOf(x.todo, v) /\ x.snap[v].there
    /\ OpenHelper(v)
    /\ OpTo(p, [x EXCEPT !.pc = "empty", !.at = v])
    /\ UNCHANGED <<up, disk, reply, shipped, was, dirty, open, spent>>

UndoEmpty(p) ==
    LET x == op[p] IN
    /\ x.pc = "empty"
    /\ IF x.at \in helper THEN vol' = [vol EXCEPT ![x.at].c = Empty] /\ OpTo(p, [x EXCEPT !.pc = "fill"])
       ELSE OpTo(p, Failed(x, x.at)) /\ UNCHANGED vol
    /\ UNCHANGED <<helper, up, disk, reply, shipped, was, dirty, open, spent>>

UndoFill(p) ==
    LET x == op[p] IN
    /\ x.pc = "fill"
    /\ \/ /\ x.at \in helper
          /\ vol' = [vol EXCEPT ![x.at].c = Over(Empty, x.snap[x.at].c, Files)]
          /\ OpTo(p, PutBack(x, x.at)) /\ UNCHANGED spent
       \/ /\ IF x.at \in helper THEN Spend("fault", MaxFaults) ELSE UNCHANGED spent
          /\ OpTo(p, Failed(x, x.at)) /\ UNCHANGED vol
    /\ UNCHANGED <<helper, up, disk, reply, shipped, was, dirty, open>>

EndUndo(p) ==
    LET x == op[p] IN
    /\ x.pc = "put" /\ x.todo = {}
    /\ helper' = Close(VolsOf(p))
    /\ disk' = Discard(p)
    /\ ReplyTo(p, IF x.errs = {} THEN "back" ELSE "stuck") /\ OpTo(p, Idle)
    /\ UNCHANGED <<vol, up, shipped, was, dirty, open, spent>>

-----------------------------------------------------------------------------
(* handleDeleteProject and teardownOnHost: compose down, and then            *)
(* RemoveSeedVolumes of the volumes that carry the project's label.          *)
StartRemove(p) ==
    /\ Spend("op", MaxOps)
    /\ op[p].pc = "idle"
    /\ up' = up \ VolsOf(p)
    /\ OpTo(p, [pc |-> "close", at |-> Absent, todo |-> {v \in VolsOf(p) : vol[v].there /\ p \in vol[v].label},
                errs |-> {}])
    /\ ReplyTo(p, "none")
    /\ shipped' = [v \in Vols |-> IF v \in VolsOf(p) THEN Empty ELSE shipped[v]]
    /\ UNCHANGED <<vol, helper, disk, was, dirty, open>>

RemoveClose(p, v) ==
    /\ op[p].pc = "close" /\ FirstOf(op[p].todo, v)
    /\ helper' = Close({v})
    /\ OpTo(p, [op[p] EXCEPT !.pc = "remove", !.at = v])
    /\ UNCHANGED <<vol, up, disk, reply, shipped, was, dirty, open, spent>>

RemoveSeed(p) ==
    LET x == op[p] IN
    /\ x.pc = "remove"
    /\ IF InUse(x.at) THEN UNCHANGED vol ELSE vol' = [vol EXCEPT ![x.at] = Absent]
    /\ OpTo(p, [x EXCEPT !.pc = "close", !.todo = @ \ {x.at}, !.errs = IF InUse(x.at) THEN @ \cup {x.at} ELSE @])
    /\ UNCHANGED <<helper, up, disk, reply, shipped, was, dirty, open, spent>>

EndRemove(p) ==
    /\ op[p].pc = "close" /\ op[p].todo = {}
    /\ ReplyTo(p, IF op[p].errs = {} THEN "removed" ELSE "inuse") /\ OpTo(p, Idle)
    /\ UNCHANGED <<vol, helper, up, disk, shipped, was, dirty, open, spent>>

(* The server dies: its helpers stay, and its snapshots, which the next       *)
(* restore (os.MkdirTemp) does not find again.                               *)
Crash ==
    /\ Spend("crash", MaxCrashes)
    /\ op' = [p \in Projects |-> Idle] /\ reply' = [p \in Projects |-> "none"]
    /\ disk' = [p \in Projects |-> [now |-> 0, left |-> disk[p].left + disk[p].now]]
    /\ UNCHANGED <<vol, helper, up, shipped, was, dirty, open>>

Others ==
    \/ \E v \in Vols : BrowseVolume(v) \/ CloseBrowser(v) \/ RemoveVolume(v)
    \/ \E v \in Vols, f \in Files : ContainerWrites(v, f)
    \/ Crash

Step(p) ==
    \/ \E kind \in {"deploy", "restore"}, files \in Sources : Start(p, kind, files)
    \/ \E v \in VolsOf(p) : \/ SnapshotInspect(p, v) \/ SeedCreate(p, v) \/ UndoCreated(p, v)
                            \/ UndoOpen(p, v) \/ RemoveClose(p, v)
    \/ SaveVolume(p) \/ Snapshotted(p) \/ SeedOpen(p) \/ SeedCopy(p) \/ SeedFails(p) \/ Seeded(p)
    \/ UpSucceeds(p) \/ UpFails(p) \/ BeginUndo(p) \/ UndoEmpty(p) \/ UndoFill(p) \/ EndUndo(p)
    \/ StartRemove(p) \/ RemoveSeed(p) \/ EndRemove(p)

Next == Others \/ \E p \in Projects : Step(p)

Spec == Init /\ [][Next]_svars

-----------------------------------------------------------------------------
TypeOK ==
    /\ \A v \in Vols : vol[v].there => vol[v].c \in [Files -> 0..Written] /\ vol[v].label \subseteq Projects
    /\ helper \subseteq Vols /\ up \subseteq Vols /\ open \subseteq Vols /\ dirty \subseteq Vols
    /\ \A v \in helper \cup up : vol[v].there
    /\ \A p \in Projects : op[p].pc \in {"idle", "inspect", "save", "create", "open", "copy", "up", "undo",
                                         "put", "empty", "fill", "close", "remove"}

(* handleRestoreRevision: "The volumes on the host were put back", and       *)
(* "nothing was changed": when a restore says so, each volume is as it was   *)
(* when the restore began - there with its content, or not there - unless a  *)
(* container or a user wrote to it meanwhile; whatever failed, and whoever   *)
(* closed the shared helper in between.                                      *)
PutBackIsTrue ==
    \A p \in Projects : reply[p] \in {"back", "unchanged"} =>
        \A v \in VolsOf(p) \ dirty : vol[v].there = was[v].there /\ Content(vol[v]) = Content(was[v])

(* SeedProjectBinds: a deploy or restore that succeeded has shipped every    *)
(* file of the project.                                                      *)
SeededIsShipped ==
    \A p \in Projects : reply[p] = "ok" =>
        \A v \in VolsOf(p) \ dirty : \A f \in Files : shipped[v][f] # 0 => Content(vol[v])[f] = shipped[v][f]

(* "The helpers [...] are removed on every way out": once an operation is    *)
(* over, the helpers left are the ones users opened, short of a crash.       *)
HelpersAreClosed ==
    spent.crash = 0 /\ (\A p \in Projects : op[p].pc = "idle") => helper \subseteq open

(* maxSeedSnapshotBytes, "all volumes together": what a restore keeps on the *)
(* machine never exceeds the bound, and is gone when the restore is over; a   *)
(* crash leaves at most that much behind.                                    *)
SnapshotIsBounded ==
    \A p \in Projects : /\ disk[p].now <= MaxBytes
                        /\ disk[p].left <= spent.crash * MaxBytes
                        /\ op[p].pc = "idle" => disk[p].now = 0

(* Refuted: seeded volumes are "found by the label the                       *)
(* seeding stamps on them". A volume that a browser's helper brought into    *)
(* being has no label, and VolumeCreate leaves it as it is.                  *)
SeedsAreLabelled ==
    \A p \in Projects : reply[p] = "ok" => \A v \in VolsOf(p) \ dirty : p \in vol[v].label

(* Refuted: tarPath: "so the volume mirrors the directory".                  *)
(* A file that has left the project stays in the volume.                     *)
VolumeMirrorsDirectory ==
    \A p \in Projects : reply[p] = "ok" => \A v \in VolsOf(p) \ dirty : Content(vol[v]) = shipped[v]
=============================================================================
