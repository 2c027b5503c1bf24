---------------------------- MODULE InstallBackup ----------------------------
(* --backup and --restore (internal/backup, internal/passphrase,             *)
(* store/snapshot.go, main.go's runBackupAction). A backup is a process of   *)
(* its own beside a running server: it snapshots the database and then walks *)
(* the directories, one after another. A restore runs while the server is    *)
(* stopped and unpacks into the data directory. Projects stand for templates *)
(* too: both are a row and a directory; a revision is a zip whose row says   *)
(* valid once the zip is published.                                          *)
EXTENDS Naturals, Sequences, FiniteSets

CONSTANTS
    MaxIds,      \* bound: ids of projects
    MaxGens,     \* bound: projects ever created
    MaxBackups,  \* bound: backups started
    MaxKills     \* bound: processes killed

(* The bounds are numbers.                                                   *)
BoundsOK == MaxIds \in Nat /\ MaxGens \in Nat

Ids == 1..MaxIds
Gens == 1..MaxGens
NoDb == [next |-> 0, row |-> [p \in Ids |-> 0], valid |-> {}]
Fresh == [NoDb EXCEPT !.next = 1]
Idle == [pc |-> "idle"]

VARIABLES
    db,       \* docker-commander.db: next id, each row's project, valid revisions
    hot,      \* its -wal file holds frames
    torn,     \* a -wal of another database was replayed into it
    dirs,     \* projects/<id>: the projects whose files are in it
    zips,     \* project-revisions: the projects that have their zip
    server,   \* "up" or "down"
    pending,  \* requests between their row and their files
    gen,      \* history: projects created so far
    back,     \* where the backup process stands
    archive,  \* the file it writes: state "none", "part", "whole"
    rest,     \* where the restore process stands
    calm,     \* history: no zip was missing when the backup began, none deleted since
    spent     \* history: what the bounds count

bvars == <<db, hot, torn, dirs, zips, server, pending, gen, back, archive, rest, calm, spent>>
install == <<db, hot, torn, dirs, zips>>

Init ==
    /\ db = NoDb /\ hot = FALSE /\ torn = FALSE
    /\ dirs = [p \in Ids |-> {}] /\ zips = {}
    /\ server = "down" /\ pending = {} /\ gen = 0
    /\ back = Idle /\ rest = Idle /\ archive = [state |-> "none"]
    /\ calm = TRUE
    /\ spent = [backup |-> 0, kill |-> 0]

Spend(what, bound) == spent[what] < bound /\ spent' = [spent EXCEPT ![what] = @ + 1]

-----------------------------------------------------------------------------
(* The server, as far as the data directory sees it. Opening a database      *)
(* replays the -wal it finds; closing the last connection removes it.        *)
StartServer ==
    /\ server = "down" /\ rest.pc \in {"idle", "done"}
    /\ server' = "up" /\ rest' = Idle
    /\ db' = IF db = NoDb THEN Fresh ELSE db
    /\ torn' = (torn \/ (rest.pc = "done" /\ hot))
    /\ UNCHANGED <<hot, dirs, zips, pending, gen, back, archive, calm, spent>>

StopServer ==
    /\ server = "up" /\ pending = {}
    /\ server' = "down" /\ hot' = FALSE
    /\ UNCHANGED <<db, torn, dirs, zips, pending, gen, back, archive, rest, calm, spent>>

KillServer ==
    /\ Spend("kill", MaxKills)
    /\ server = "up"
    /\ server' = "down" /\ pending' = {}
    /\ UNCHANGED <<install, gen, back, archive, rest, calm>>

(* handleCreateProject: the row (AUTOINCREMENT), then the folder.            *)
CreateRow ==
    /\ server = "up" /\ gen < MaxGens /\ db.next \in Ids
    /\ gen' = gen + 1
    /\ db' = [db EXCEPT !.next = @ + 1, !.row[db.next] = gen + 1]
    /\ hot' = TRUE
    /\ pending' = pending \cup {db.next}
    /\ UNCHANGED <<torn, dirs, zips, server, back, archive, rest, calm, spent>>

SeedFiles(p) ==
    /\ p \in pending
    /\ dirs' = [dirs EXCEPT ![p] = @ \cup {db.row[p]}]
    /\ pending' = pending \ {p}
    /\ UNCHANGED <<db, hot, torn, zips, server, gen, back, archive, rest, calm, spent>>

(* recordDeployRevision publishes the zip and then marks the row valid.      *)
PublishZip(p) ==
    /\ server = "up" /\ db.row[p] # 0 /\ p \notin pending
    /\ zips' = zips \cup {p}
    /\ UNCHANGED <<db, hot, torn, dirs, server, pending, gen, back, archive, rest, calm, spent>>

MarkValid(p) ==
    /\ server = "up" /\ p \in zips /\ db.row[p] # 0
    /\ db' = [db EXCEPT !.valid = @ \cup {p}]
    /\ hot' = TRUE
    /\ UNCHANGED <<torn, dirs, zips, server, pending, gen, back, archive, rest, calm, spent>>

(* handleDeleteProject, and pruning, remove files along with their rows.     *)
DeleteProject(p) ==
    /\ server = "up" /\ db.row[p] # 0 /\ p \notin pending
    /\ db' = [db EXCEPT !.row[p] = 0, !.valid = @ \ {p}]
    /\ dirs' = [dirs EXCEPT ![p] = {}] /\ zips' = zips \ {p}
    /\ hot' = TRUE /\ calm' = FALSE
    /\ UNCHANGED <<torn, server, pending, gen, back, archive, rest, spent>>

-----------------------------------------------------------------------------
(* backupDataDir and Create. OpenSnapshotSource refuses a directory without  *)
(* a database and never writes to its source; VACUUM INTO reads one commit.  *)
WalksFilesFirst == <<"projects", "revisions", "snapshot">>
Walks == <<"snapshot", "projects", "revisions">>

StartBackup(sealed) ==
    /\ Spend("backup", MaxBackups)
    /\ back.pc = "idle" /\ rest.pc = "idle" /\ db # NoDb /\ ~torn
    /\ back' = [pc |-> "read", at |-> 1, sealed |-> sealed, db |-> NoDb, dirs |-> [p \in Ids |-> {}],
                zips |-> {}, todo |-> {}]
    /\ calm' = (db.valid \subseteq zips)
    /\ UNCHANGED <<install, server, pending, gen, archive, rest>>

Advance(x) == IF x.at = Len(Walks) THEN [x EXCEPT !.pc = "open"] ELSE [x EXCEPT !.at = @ + 1]

Snapshot ==
    /\ back.pc = "read" /\ Walks[back.at] = "snapshot"
    /\ back' = Advance([back EXCEPT !.db = db])
    /\ UNCHANGED <<install, server, pending, gen, archive, rest, calm, spent>>

(* addTree: WalkDir lists a directory and then reads its entries; one that   *)
(* has gone in between fails the whole backup.                               *)
There(tree) == IF tree = "projects" THEN {p \in Ids : dirs[p] # {}} ELSE zips

ListTree ==
    /\ back.pc = "read" /\ Walks[back.at] # "snapshot"
    /\ back' = [back EXCEPT !.pc = "walk", !.todo = There(Walks[back.at])]
    /\ UNCHANGED <<install, server, pending, gen, archive, rest, calm, spent>>

ReadEntry(p) ==
    /\ back.pc = "walk" /\ p \in back.todo
    /\ back' = IF p \notin There(Walks[back.at]) THEN Idle
               ELSE IF Walks[back.at] = "projects"
                 THEN [back EXCEPT !.todo = @ \ {p}, !.dirs[p] = dirs[p]]
                 ELSE [back EXCEPT !.todo = @ \ {p}, !.zips = @ \cup {p}]
    /\ UNCHANGED <<install, server, pending, gen, archive, rest, calm, spent>>

EndTree ==
    /\ back.pc = "walk" /\ back.todo = {}
    /\ back' = Advance([back EXCEPT !.pc = "read"])
    /\ UNCHANGED <<install, server, pending, gen, archive, rest, calm, spent>>

(* The output is truncated, then written or sealed (one AEAD unit).          *)
OpenOut ==
    /\ back.pc = "open"
    /\ archive' = [state |-> "part", sealed |-> back.sealed, db |-> back.db, dirs |-> back.dirs,
                   zips |-> back.zips, calm |-> calm]
    /\ back' = [pc |-> "write"]
    /\ UNCHANGED <<install, server, pending, gen, rest, calm, spent>>

WriteOut ==
    /\ back.pc = "write"
    /\ archive' = [archive EXCEPT !.state = "whole"]
    /\ back' = Idle
    /\ UNCHANGED <<install, server, pending, gen, rest, calm, spent>>

KillBackup ==
    /\ Spend("kill", MaxKills)
    /\ back.pc # "idle"
    /\ back' = Idle
    /\ UNCHANGED <<install, server, pending, gen, archive, rest, calm>>

-----------------------------------------------------------------------------
(* Restore: the flag byte, the target, and for a sealed archive the whole    *)
(* of it authenticated, all before the first write.                          *)
CheckTarget(force) == force \/ db = NoDb
OpenFrom(a) == a.sealed => a.state = "whole"

StartRestore(force) ==
    /\ server = "down" /\ back.pc = "idle" /\ rest.pc = "idle"
    /\ archive.state # "none"
    /\ CheckTarget(force) /\ OpenFrom(archive)
    /\ rest' = [pc |-> "db", force |-> force]
    /\ UNCHANGED <<install, server, pending, gen, back, archive, calm, spent>>

(* A new machine: nothing in the data directory.                             *)
NewMachine ==
    /\ server = "down" /\ back.pc = "idle" /\ rest.pc = "idle" /\ archive.state # "none"
    /\ db # NoDb
    /\ db' = NoDb /\ hot' = FALSE /\ torn' = FALSE
    /\ dirs' = [p \in Ids |-> {}] /\ zips' = {}
    /\ UNCHANGED <<server, pending, gen, back, archive, rest, calm, spent>>

(* extract writes over what is there and removes nothing: neither a -wal nor *)
(* a directory the archive does not have. A plain archive that was cut off   *)
(* ends it anywhere.                                                         *)
ExtractDb ==
    /\ rest.pc = "db"
    /\ db' = archive.db
    /\ rest' = [rest EXCEPT !.pc = "dirs"]
    /\ UNCHANGED <<hot, torn, dirs, zips, server, pending, gen, back, archive, calm, spent>>

ExtractDirs ==
    /\ rest.pc = "dirs"
    /\ dirs' = [p \in Ids |-> dirs[p] \cup archive.dirs[p]]
    /\ rest' = [rest EXCEPT !.pc = "zips"]
    /\ UNCHANGED <<db, hot, torn, zips, server, pending, gen, back, archive, calm, spent>>

ExtractZips ==
    /\ rest.pc = "zips"
    /\ zips' = zips \cup archive.zips
    /\ rest' = [rest EXCEPT !.pc = "done"]
    /\ UNCHANGED <<db, hot, torn, dirs, server, pending, gen, back, archive, calm, spent>>

CutShort ==
    /\ rest.pc \in {"db", "dirs", "zips"} /\ archive.state = "part"
    /\ rest' = Idle
    /\ UNCHANGED <<install, server, pending, gen, back, archive, calm, spent>>

Server ==
    \/ StartServer \/ StopServer \/ KillServer \/ CreateRow
    \/ \E p \in Ids : SeedFiles(p) \/ PublishZip(p) \/ MarkValid(p) \/ DeleteProject(p)

Backup ==
    \/ \E sealed \in BOOLEAN : StartBackup(sealed)
    \/ Snapshot \/ ListTree \/ EndTree \/ OpenOut \/ WriteOut \/ KillBackup
    \/ \E p \in Ids : ReadEntry(p)

Restore ==
    \/ \E force \in BOOLEAN : StartRestore(force)
    \/ NewMachine \/ ExtractDb \/ ExtractDirs \/ ExtractZips \/ CutShort

Next == Server \/ Backup \/ Restore

Spec == Init /\ [][Next]_bvars

-----------------------------------------------------------------------------
TypeOK ==
    /\ db.next \in 0..MaxIds + 1 /\ db.row \in [Ids -> 0..MaxGens] /\ db.valid \subseteq Ids
    /\ hot \in BOOLEAN /\ torn \in BOOLEAN /\ calm \in BOOLEAN
    /\ dirs \in [Ids -> SUBSET Gens] /\ zips \subseteq Ids
    /\ server \in {"up", "down"} /\ pending \subseteq Ids /\ gen \in 0..MaxGens
    /\ archive.state \in {"none", "part", "whole"}

(* A revision the archived database calls valid has its zip in the archive,  *)
(* whatever was created or deployed while the backup ran: the database is    *)
(* read first, and a row says valid only once its zip is there. Deletions    *)
(* during the backup are the exception.                                      *)
RevisionsHaveZips ==
    archive.state # "none" /\ archive.calm => archive.db.valid \subseteq archive.zips

(* An encrypted archive is restored whole or not at all: one cut off while   *)
(* it was written is refused before the first file is replaced.              *)
SealedIsAllOrNothing == rest.pc # "idle" /\ archive.sealed => archive.state = "whole"

(* "It refuses to write over an existing installation unless force is set":  *)
(* what a restore without force replaces was no installation, also when an   *)
(* earlier restore was cut short and left its database.                      *)
PutsOverNothing == rest.pc = "db" /\ ~rest.force /\ rest'.pc = "dirs" => db = NoDb
NotOverAnInstall == [][PutsOverNothing]_bvars

(* Refuted: with project-revisions in the archive, no                        *)
(* restored database "can report a revision as valid while its snapshot is   *)
(* gone" - a project deleted or pruned after the snapshot is an exception.   *)
ArchiveIsConsistent == archive.state # "none" => archive.db.valid \subseteq archive.zips

(* Refuted: "the database is replaced wholesale". The -wal                   *)
(* a killed server left is replayed into the restored database.              *)
ReplacedWholesale == ~torn

(* Refuted: a project's folder holds that project's                          *)
(* files. A restore keeps, or brings, folders of ids its database has yet to *)
(* hand out.                                                                 *)
FolderIsItsProjects == \A p \in Ids : server = "up" /\ db.row[p] # 0 /\ p \notin pending => dirs[p] \subseteq {db.row[p]}
=============================================================================
