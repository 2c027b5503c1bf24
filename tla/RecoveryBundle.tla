--------------------------- MODULE RecoveryBundle ---------------------------
(* Portable recovery bundles (api/recovery_export.go, recovery_import.go,    *)
(* recovery_bundle.go). An export reads the tables one after another and     *)
(* packs the projects' files by slug; an import lists each table, creates    *)
(* what is missing by name, and stages, validates, creates and renames one   *)
(* project at a time. Nothing of this takes a lock, so users, a second       *)
(* import and a crash of the server come in between any two steps.           *)
(* A file is empty or one unit of size.                                      *)
EXTENDS Naturals, Sequences, FiniteSets

CONSTANTS
    Slugs,            \* slugs of projects
    MaxIds,           \* bound: project rows ever created
    Importers,        \* import requests in flight
    MaxProjectFiles,  \* maxProjectFiles
    MaxTotalFiles,    \* maxBundleTotalFiles
    MaxTotalBytes,    \* maxBundleTotalBytes
    MaxExports,       \* bound: bundles exported
    MaxChanges,       \* bound: requests of users
    MaxFaults,        \* bound: store, file and compose errors
    MaxCrashes        \* bound: crashes of the server

(* There is an id for the first project, and the limits are numbers.         *)
BoundsOK ==
    /\ MaxIds \in Nat \ {0} /\ MaxProjectFiles \in Nat
    /\ MaxTotalFiles \in Nat /\ MaxTotalBytes \in Nat

Ids == 1..MaxIds
Local == 0                \* the seeded local host: never bundled, always there
TablesRulesFirst == <<"registry", "rule", "webhook">>
Tables == <<"registry", "webhook", "rule">>  \* the order an import takes them in
Kinds == {"registry", "webhook", "rule"}
None == [slug |-> "none"]
NoDir == [n |-> 0, b |-> 0]
Idle == [pc |-> "idle"]

VARIABLES
    host,      \* id of the remote host's row (its name is UNIQUE), 0 for none
    rows,      \* rows of the bundled name in registries, webhooks, alert_rules
    proj,      \* projects: [slug, host], None when the id has no row
    dir,       \* DataDir/projects/<id>: n files of b bytes together; NoDir
    secrets,   \* projects that have a project_secrets row
    mapped,    \* project the one domain is mapped to, 0 for none
    settings,  \* whose instance-wide settings are in force
    next,      \* the next ids of hosts and projects (AUTOINCREMENT)
    staging,   \* imports that have a recovery-staging-* directory
    export,    \* where the export stands
    bundle,    \* the file the last export handed out
    imp,       \* where each import stands
    spent      \* history: what the bounds count

world == <<host, rows, proj, dir, secrets, mapped, settings, next>>
rvars == <<host, rows, proj, dir, secrets, mapped, settings, next, staging, export, bundle, imp, spent>>

Files == {d \in [n : 1..MaxProjectFiles, b : 0..MaxProjectFiles] : d.b <= d.n}

(* An instance in service: a remote host, a row of each kind, one project.   *)
Init ==
    /\ host = 1 /\ rows = [k \in Kinds |-> 1]
    /\ \E slug \in Slugs, h \in {Local, 1}, files \in Files :
         /\ proj = [p \in Ids |-> IF p = 1 THEN [slug |-> slug, host |-> h] ELSE None]
         /\ dir = [p \in Ids |-> IF p = 1 THEN files ELSE NoDir]
    /\ secrets = {1} /\ mapped = 1 /\ settings = "own"
    /\ next = [host |-> 2, project |-> 2]
    /\ staging = {}
    /\ export = Idle /\ bundle = Idle
    /\ imp = [i \in Importers |-> Idle]
    /\ spent = [export |-> 0, change |-> 0, delete |-> 0, fault |-> 0, crash |-> 0]

Spend(what, bound) == spent[what] < bound /\ spent' = [spent EXCEPT ![what] = @ + 1]
SpendDelete == spent.change < MaxChanges /\ spent' = [spent EXCEPT !.change = @ + 1, !.delete = @ + 1]
Rows == {p \in Ids : proj[p] # None}
ImpTo(i, to) == imp' = [imp EXCEPT ![i] = to]

-----------------------------------------------------------------------------
(* The statements of the store.                                              *)
CreateHost == host' = next.host /\ next' = [next EXCEPT !.host = @ + 1]

(* projects.slug is UNIQUE.                                                  *)
Taken(slug) == \E p \in Rows : proj[p].slug = slug
CreateProjectRow(slug, h) ==
    /\ next.project \in Ids
    /\ proj' = [proj EXCEPT ![next.project] = [slug |-> slug, host |-> h]]
    /\ next' = [next EXCEPT !.project = @ + 1]

(* DeleteProject takes the secrets and the mappings with the row.            *)
DeleteProject(p) ==
    /\ proj' = [proj EXCEPT ![p] = None]
    /\ secrets' = secrets \ {p}
    /\ mapped' = IF mapped = p THEN 0 ELSE mapped

-----------------------------------------------------------------------------
(* What users do meanwhile. The operations of a project are ProjectOps'; a   *)
(* bundle sees a row and a directory come, change and go.                    *)
UserCreatesProject(slug, h, files) ==
    /\ Spend("change", MaxChanges)
    /\ ~Taken(slug)
    /\ CreateProjectRow(slug, h)
    /\ dir' = [dir EXCEPT ![next.project] = files]
    /\ secrets' = secrets \cup {next.project}
    /\ mapped' = IF mapped = 0 THEN next.project ELSE mapped
    /\ UNCHANGED <<host, rows, settings, staging, export, bundle, imp>>

UserDeletesProject(p) ==
    /\ SpendDelete
    /\ proj[p] # None
    /\ DeleteProject(p)
    /\ dir' = [dir EXCEPT ![p] = NoDir]
    /\ UNCHANGED <<host, rows, settings, next, staging, export, bundle, imp>>

(* handleWriteProjectFile makes the project's directory when it is missing.  *)
UserWritesFile(p, size) ==
    /\ Spend("change", MaxChanges)
    /\ proj[p] # None /\ dir[p].n < MaxProjectFiles
    /\ dir' = [dir EXCEPT ![p] = [n |-> @.n + 1, b |-> @.b + size]]
    /\ UNCHANGED <<host, rows, proj, secrets, mapped, settings, next, staging, export, bundle, imp>>

UserDeletesHost ==
    /\ SpendDelete
    /\ host # 0
    /\ host' = 0
    /\ UNCHANGED <<rows, proj, dir, secrets, mapped, settings, next, staging, export, bundle, imp>>

-----------------------------------------------------------------------------
(* buildRecoveryManifest: hosts first, with the names their ids resolve to;  *)
(* then the tables; webhooks go in only with the secrets.                    *)
ExportTables == <<"registry", "rule", "webhook">>

ReadHosts(withSecrets, pass) ==
    /\ Spend("export", MaxExports)
    /\ export.pc = "idle"
    /\ export' = [pc |-> "tables", at |-> 1, secrets |-> withSecrets, pass |-> pass,
                  host |-> host, rows |-> {}]
    /\ UNCHANGED <<world, staging, bundle, imp>>

ReadTable ==
    /\ export.pc = "tables"
    /\ LET k == ExportTables[export.at] IN
         export' = [export EXCEPT
                      !.pc = IF export.at = Len(ExportTables) THEN "projects" ELSE @,
                      !.at = @ + 1,
                      !.rows = IF rows[k] > 0 /\ (k = "webhook" => export.secrets) THEN @ \cup {k} ELSE @]
    /\ UNCHANGED <<world, staging, bundle, imp, spent>>

(* A project's host by name: a host the first read did not list has none.    *)
Meta(p) ==
    [slug |-> proj[p].slug, remote |-> proj[p].host # Local /\ proj[p].host = export.host,
     secret |-> p \in secrets, domain |-> mapped = p, files |-> NoDir]

(* Files can hold secrets of their own, so a bundle of projects is sealed.   *)
NeedsPassphrase(metas) == metas # {}

ReadProjects ==
    /\ export.pc = "projects"
    /\ \E want \in SUBSET Rows :
         LET metas == {Meta(p) : p \in want} IN
         export' = IF NeedsPassphrase(metas) /\ ~export.pass THEN Idle
                   ELSE [pc |-> "pack", secrets |-> export.secrets, pass |-> export.pass,
                         host |-> export.host # 0, rows |-> export.rows,
                         todo |-> metas, packed |-> {}, bytes |-> 0]
    /\ UNCHANGED <<world, staging, bundle, imp, spent>>

(* writeDirToZip under the budget all projects share. The slug is looked up  *)
(* again: a project deleted meanwhile is listed but has no files.            *)
PackProject ==
    /\ export.pc = "pack"
    /\ \E m \in export.todo :
         LET now == {p \in Rows : proj[p].slug = m.slug}
             d == IF now = {} THEN NoDir ELSE dir[CHOOSE p \in now : TRUE] IN
         export' = IF export.bytes + d.b > MaxTotalBytes THEN Idle
                   ELSE [export EXCEPT !.todo = @ \ {m}, !.bytes = @ + d.b,
                                       !.packed = @ \cup {[m EXCEPT !.files = d]}]
    /\ UNCHANGED <<world, staging, bundle, imp, spent>>

Deliver ==
    /\ export.pc = "pack" /\ export.todo = {}
    /\ bundle' = [pc |-> "file", secrets |-> export.secrets, sealed |-> export.pass,
                  host |-> export.host, rows |-> export.rows, projects |-> export.packed]
    /\ export' = Idle
    /\ UNCHANGED <<world, staging, imp, spent>>

-----------------------------------------------------------------------------
(* validateBundleProjectFilesBudget counts every entry and its declared size *)
(* before anything is written: each project's entries and bytes, by number.  *)
Numbered(metas) == metas \X (1..MaxProjectFiles)
DeclaredFiles(metas) == Cardinality({u \in Numbered(metas) : u[2] <= u[1].files.n})
DeclaredBytes(metas) == Cardinality({u \in Numbered(metas) : u[2] <= u[1].files.b})
WithinBudget(b) == DeclaredFiles(b.projects) <= MaxTotalFiles /\ DeclaredBytes(b.projects) <= MaxTotalBytes

(* Everything the bundle names is on the instance already.                   *)
Present(b) ==
    /\ b.host => host # 0
    /\ \A k \in b.rows : rows[k] > 0
    /\ \A m \in b.projects : Taken(m.slug)

(* applyRecoveryBundle begins by listing the hosts.                          *)
StartImport(i) ==
    /\ imp[i].pc = "idle" /\ bundle.pc = "file" /\ WithinBudget(bundle)
    /\ ImpTo(i, [pc |-> "host", b |-> bundle, hostId |-> host, hooks |-> FALSE, seen |-> {},
                 todo |-> bundle.projects, bytes |-> MaxTotalBytes, files |-> MaxTotalFiles,
                 m |-> None, n |-> 0, id |-> 0,
                 before |-> Present(bundle) /\ \A j \in Importers \ {i} : imp[j].pc = "idle",
                 deletes |-> spent.delete, made |-> 0, lost |-> {}, link |-> "none"])
    /\ UNCHANGED <<world, staging, export, bundle, spent>>

(* hostIDByName gains the id of a host the import creates; a name taken      *)
(* meanwhile is a warning, as any other error of the store is.               *)
AddHostId(x, id) == [x EXCEPT !.hostId = id, !.made = @ + 1, !.pc = "list", !.n = 1]

ImportHost(i) ==
    LET x == imp[i] IN
    /\ x.pc = "host"
    /\ \/ /\ ~x.b.host \/ x.hostId # 0
          /\ ImpTo(i, [x EXCEPT !.pc = "list", !.n = 1])
          /\ UNCHANGED <<host, next, spent>>
       \/ /\ x.b.host /\ x.hostId = 0 /\ host = 0
          /\ CreateHost
          /\ ImpTo(i, AddHostId(x, next.host))
          /\ UNCHANGED spent
       \/ /\ x.b.host /\ x.hostId = 0
          /\ IF host # 0 THEN UNCHANGED spent ELSE Spend("fault", MaxFaults)
          /\ ImpTo(i, [x EXCEPT !.pc = "list", !.n = 1, !.lost = @ \cup {"host"}])
          /\ UNCHANGED <<host, next>>
    /\ UNCHANGED <<rows, proj, dir, secrets, mapped, settings, staging, export, bundle>>

(* Each table is listed, and what the list does not name is created.         *)
ListTable(i) ==
    LET x == imp[i] IN
    /\ x.pc = "list"
    /\ LET k == Tables[x.n] IN
         ImpTo(i, [x EXCEPT !.pc = "row", !.seen = IF rows[k] > 0 THEN @ \cup {k} ELSE @,
                            !.hooks = @ \/ (k = "webhook" /\ rows[k] > 0)])
    /\ UNCHANGED <<world, staging, export, bundle, spent>>

AfterTable(x) == IF x.n = Len(Tables) THEN [x EXCEPT !.pc = "settings"]
                                      ELSE [x EXCEPT !.pc = "list", !.n = @ + 1]

(* normalizeImportedRule links a rule to the webhook of its name, if the     *)
(* import has met one.                                                       *)
Linked(x) == IF x.hooks THEN "linked" ELSE "bare"
Wanted(x, k) == k \in x.b.rows /\ k \notin x.seen

ImportRow(i) ==
    LET x == imp[i]
        k == Tables[x.n] IN
    /\ x.pc = "row"
    /\ \/ /\ ~Wanted(x, k)
          /\ ImpTo(i, AfterTable(x))
          /\ UNCHANGED <<rows, spent>>
       \/ /\ Wanted(x, k)
          /\ rows' = [rows EXCEPT ![k] = @ + 1]
          /\ ImpTo(i, AfterTable([x EXCEPT !.made = @ + 1, !.hooks = @ \/ k = "webhook",
                                           !.link = IF k = "rule" THEN Linked(x) ELSE @]))
          /\ UNCHANGED spent
       \/ /\ Wanted(x, k)
          /\ Spend("fault", MaxFaults)
          /\ ImpTo(i, AfterTable([x EXCEPT !.lost = @ \cup {k}]))
          /\ UNCHANGED rows
    /\ UNCHANGED <<host, proj, dir, secrets, mapped, settings, next, staging, export, bundle>>

(* Settings are overwritten when the caller asked for it (applySettings);    *)
(* then the slugs are listed, once for all projects.                         *)
ListSlugs(i) ==
    LET x == imp[i] IN
    /\ x.pc = "settings"
    /\ settings' \in {settings, "bundle"}
    /\ ImpTo(i, [x EXCEPT !.pc = "next", !.seen = {proj[p].slug : p \in Rows}])
    /\ UNCHANGED <<host, rows, proj, dir, secrets, mapped, next, staging, export, bundle, spent>>

-----------------------------------------------------------------------------
(* extractZipPrefixToDir into a fresh staging directory, under the budgets   *)
(* the whole import shares. A file met when no byte is left - an empty one,  *)
(* as the bundle kept to the budget - ends the import; whether one is met    *)
(* depends on the order of the archive. Any other error skips the project,   *)
(* with k of its files charged.                                              *)
Overruns(x, m) == x.bytes = m.files.b /\ m.files.n > m.files.b
Fits(x, m) == m.files.n <= x.files /\ (m.files.n > 0 => x.bytes > 0)
Charge(x, d) == [x EXCEPT !.files = @ - d.n, !.bytes = @ - d.b]

StageProject(i) ==
    LET x == imp[i] IN
    /\ x.pc = "next"
    /\ \E m \in x.todo :
         LET y == [x EXCEPT !.todo = @ \ {m}, !.m = m] IN
         \/ /\ m.slug \in x.seen
            /\ ImpTo(i, y)
            /\ UNCHANGED <<staging, spent>>
         \/ /\ m.slug \notin x.seen /\ Overruns(x, m)
            /\ ImpTo(i, [y EXCEPT !.todo = {}, !.pc = "stopped"])
            /\ UNCHANGED <<staging, spent>>
         \/ /\ m.slug \notin x.seen /\ Fits(x, m)
            /\ staging' = staging \cup {i}
            /\ ImpTo(i, [Charge(y, m.files) EXCEPT !.pc = "validate"])
            /\ UNCHANGED spent
         \/ /\ m.slug \notin x.seen /\ Fits(x, m) /\ m.files.n > 0
            /\ Spend("fault", MaxFaults)
            /\ \E k \in 0..m.files.n - 1 :
                 ImpTo(i, Charge(y, [n |-> k, b |-> IF k < m.files.b THEN k ELSE m.files.b]))
            /\ UNCHANGED staging
    /\ UNCHANGED <<world, export, bundle>>

EndImport(i) ==
    /\ imp[i].pc = "stopped" \/ (imp[i].pc = "next" /\ imp[i].todo = {})
    /\ ImpTo(i, Idle)
    /\ UNCHANGED <<world, staging, export, bundle, spent>>

(* ComposeConfigEnv of the staged files: nothing validates without a file.   *)
Discard(i) == staging \ {i}

ValidateStaged(i) ==
    LET x == imp[i] IN
    /\ x.pc = "validate"
    /\ \/ /\ x.m.files.n > 0
          /\ ImpTo(i, [x EXCEPT !.pc = "create"])
          /\ UNCHANGED <<staging, spent>>
       \/ /\ IF x.m.files.n > 0 THEN Spend("fault", MaxFaults) ELSE UNCHANGED spent
          /\ ImpTo(i, [x EXCEPT !.pc = "next"])
          /\ staging' = Discard(i)
    /\ UNCHANGED <<world, export, bundle>>

Target(x) == IF x.m.remote /\ x.hostId # 0 THEN x.hostId ELSE Local

CreateProject(i) ==
    LET x == imp[i] IN
    /\ x.pc = "create"
    /\ \/ /\ ~Taken(x.m.slug)
          /\ CreateProjectRow(x.m.slug, Target(x))
          /\ ImpTo(i, [x EXCEPT !.pc = "rename", !.id = next.project, !.made = @ + 1])
          /\ UNCHANGED <<staging, spent>>
       \/ /\ IF Taken(x.m.slug) THEN UNCHANGED spent ELSE Spend("fault", MaxFaults)
          /\ ImpTo(i, [x EXCEPT !.pc = "next"])
          /\ staging' = Discard(i)
          /\ UNCHANGED <<proj, next>>
    /\ UNCHANGED <<host, rows, dir, secrets, mapped, settings, export, bundle>>

(* os.Rename refuses a directory that is there and not empty; the import     *)
(* then takes its row back.                                                  *)
CanRename(id) == dir[id] = NoDir
TakeBack(id) == DeleteProject(id)

Rename(i) ==
    LET x == imp[i] IN
    /\ x.pc = "rename"
    /\ \/ /\ CanRename(x.id)
          /\ dir' = [dir EXCEPT ![x.id] = x.m.files]
          /\ ImpTo(i, [x EXCEPT !.pc = "attach"])
          /\ UNCHANGED <<proj, secrets, mapped, spent>>
       \/ /\ IF CanRename(x.id) THEN Spend("fault", MaxFaults) ELSE UNCHANGED spent
          /\ TakeBack(x.id)
          /\ ImpTo(i, [x EXCEPT !.pc = "next"])
          /\ UNCHANGED dir
    /\ staging' = Discard(i)
    /\ UNCHANGED <<host, rows, settings, next, export, bundle>>

(* Secrets the bundle has a value for, then the domain if nobody holds it.   *)
RestoreSecrets(i) ==
    LET x == imp[i] IN
    /\ x.pc = "attach"
    /\ secrets' = IF x.m.secret /\ x.b.secrets THEN secrets \cup {x.id} ELSE secrets
    /\ ImpTo(i, [x EXCEPT !.pc = "domains"])
    /\ UNCHANGED <<host, rows, proj, dir, mapped, settings, next, staging, export, bundle, spent>>

RestoreDomains(i) ==
    LET x == imp[i] IN
    /\ x.pc = "domains"
    /\ mapped' = IF x.m.domain /\ mapped = 0 THEN x.id ELSE mapped
    /\ ImpTo(i, [x EXCEPT !.pc = "next"])
    /\ UNCHANGED <<host, rows, proj, dir, secrets, settings, next, staging, export, bundle, spent>>

(* The server dies: what is on disk stays, the requests are gone.            *)
Crash ==
    /\ Spend("crash", MaxCrashes)
    /\ export' = Idle
    /\ imp' = [i \in Importers |-> Idle]
    /\ UNCHANGED <<world, staging, bundle>>

(* The bundle is taken to a new installation, where nothing is.              *)
NewInstance ==
    /\ Spend("change", MaxChanges)
    /\ bundle.pc = "file"
    /\ host' = 0 /\ rows' = [k \in Kinds |-> 0]
    /\ proj' = [p \in Ids |-> None] /\ dir' = [p \in Ids |-> NoDir]
    /\ secrets' = {} /\ mapped' = 0 /\ settings' = "own"
    /\ next' = [host |-> 1, project |-> 1]
    /\ staging' = {} /\ export' = Idle
    /\ imp' = [i \in Importers |-> Idle]
    /\ UNCHANGED bundle

Users ==
    \/ \E slug \in Slugs, h \in {Local, host}, files \in Files : UserCreatesProject(slug, h, files)
    \/ \E p \in Ids : UserDeletesProject(p) \/ \E size \in 0..1 : UserWritesFile(p, size)
    \/ UserDeletesHost \/ NewInstance

Export ==
    \/ \E withSecrets, pass \in BOOLEAN : ReadHosts(withSecrets, pass)
    \/ ReadTable \/ ReadProjects \/ PackProject \/ Deliver

Import(i) ==
    \/ StartImport(i) \/ ImportHost(i) \/ ListTable(i) \/ ImportRow(i) \/ ListSlugs(i)
    \/ StageProject(i) \/ ValidateStaged(i) \/ CreateProject(i) \/ Rename(i)
    \/ RestoreSecrets(i) \/ RestoreDomains(i) \/ EndImport(i)

Next == Users \/ Export \/ (\E i \in Importers : Import(i)) \/ Crash

Spec == Init /\ [][Next]_rvars

-----------------------------------------------------------------------------
Metas == [slug : Slugs, remote : BOOLEAN, secret : BOOLEAN, domain : BOOLEAN,
          files : [n : 0..MaxProjectFiles, b : 0..MaxProjectFiles]]

TypeOK ==
    /\ host \in Nat /\ rows \in [Kinds -> Nat]
    /\ \A p \in Ids : proj[p] = None \/ (proj[p].slug \in Slugs /\ proj[p].host \in Nat)
    /\ \A p \in Ids : dir[p].n \in 0..MaxProjectFiles /\ dir[p].b \in 0..dir[p].n
    /\ secrets \subseteq Ids /\ mapped \in 0..MaxIds
    /\ staging \subseteq Importers /\ settings \in {"own", "bundle"}
    /\ bundle.pc = "file" => bundle.projects \subseteq Metas
    /\ \A i \in Importers : imp[i].pc # "idle" =>
         imp[i].files \in 0..MaxTotalFiles /\ imp[i].bytes \in 0..MaxTotalBytes

InHand(p) == \E i \in Importers : imp[i].pc = "rename" /\ imp[i].id = p

(* "created new or skipped by name/slug collision - never overwritten": no   *)
(* step of an import changes a directory that is there, or a row of a        *)
(* project other than the one it has just created; not even when a user      *)
(* wrote into that project's directory before the import renamed its own.    *)
OverwritesNothing ==
    \A i \in Importers : Import(i) =>
        \A p \in Ids :
          /\ dir[p] # NoDir => dir'[p] = dir[p]
          /\ proj[p] # None /\ proj'[p] # proj[p] => imp[i].pc = "rename" /\ imp[i].id = p
NothingOverwritten == [][OverwritesNothing]_rvars

(* A project the import restored has files: while the server lives, every    *)
(* row an import is not just between creating and renaming for has its       *)
(* directory.                                                                *)
RowHasFiles == spent.crash = 0 => \A p \in Rows : dir[p] # NoDir \/ InHand(p)

(* Staged files belong to the import that is at work on them: whatever step  *)
(* fails, no import leaves its staging directory among the projects.         *)
StagingIsOwned ==
    spent.crash = 0 => \A i \in staging : imp[i].pc \in {"validate", "create", "rename"}

(* A bundle with project files in it is encrypted, whatever was deleted or   *)
(* created between the manifest and the packing.                             *)
FilesAreSealed == bundle.pc = "file" /\ (\E m \in bundle.projects : m.files.n > 0) => bundle.sealed

(* Importing a bundle again changes nothing: an import that starts when all  *)
(* the bundle names is there creates no row, unless something is deleted.    *)
ReimportAddsNothing ==
    \A i \in Importers :
        imp[i].pc # "idle" /\ imp[i].before /\ imp[i].deletes = spent.delete => imp[i].made = 0

(* A project comes back on the host it was on, which the same import may     *)
(* have created a moment before, unless that host could not be created.      *)
RestoredOnItsHost ==
    \A i \in Importers :
        imp[i].pc \in {"rename", "attach", "domains"} /\ proj[imp[i].id] # None /\ imp[i].m.remote
          /\ imp[i].b.host /\ "host" \notin imp[i].lost
        => proj[imp[i].id].host # Local

(* A rule from a bundle with secrets posts where it posted: its webhook is   *)
(* restored first, and the rule is linked to it.                             *)
RuleFindsItsHook ==
    \A i \in Importers :
        imp[i].pc # "idle" /\ imp[i].link = "bare" /\ "webhook" \in imp[i].b.rows => "webhook" \in imp[i].lost

(* Refuted: "Anything this app itself exports must always                     *)
(* be importable again". Only the import bounds the number of files.         *)
ExportIsImportable == bundle.pc = "file" => WithinBudget(bundle)

(* Refuted: an import stops for good only when "the                          *)
(* bundle already unpacked more than any real export could ever have packed".*)
OnlyForgedBundlesStop == \A i \in Importers : imp[i].pc # "stopped"

(* Refuted: "either the whole validated staging                              *)
(* directory becomes the project (the rename succeeds), or nothing does".    *)
WholeOrNothing == \A p \in Rows : dir[p] # NoDir \/ InHand(p)

(* Refuted: names are "created new or skipped by                             *)
(* name/slug collision"; two imports list before either creates.             *)
NamesStayUnique == \A k \in Kinds : rows[k] <= 1

(* Refuted: a project deleted while its import is at                         *)
(* the rename leaves a directory, secrets and a mapping that no row owns.    *)
NoOrphans == \A p \in Ids : proj[p] = None => dir[p] = NoDir /\ p \notin secrets /\ mapped # p
=============================================================================
