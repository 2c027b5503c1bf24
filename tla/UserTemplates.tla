---------------------------- MODULE UserTemplates ----------------------------
(* User-saved project templates (api/template_handlers.go,                   *)
(* store/templates.go): a row and a directory of files. A template is saved  *)
(* from a project, or duplicated; a project is seeded from one. Every        *)
(* request reads and writes files one at a time and takes no lock, so        *)
(* editors, deletions and other requests come in between.                    *)
EXTENDS Naturals, Sequences, FiniteSets

CONSTANTS
    Slugs,      \* slugs of templates
    MaxIds,     \* bound: templates ever created
    Paths,      \* names of files
    MaxFiles,   \* maxProjectFiles
    Requests,   \* API requests in flight
    MaxEdits,   \* bound: edits of the source project
    MaxWrites,  \* bound: requests started
    MaxFaults   \* bound: file errors

(* The bounds are numbers.                                                   *)
BoundsOK == MaxIds \in Nat /\ MaxFiles \in Nat

Ids == 1..MaxIds
Absent == 0
NoFiles == [f \in Paths |-> Absent]
NoRow == "none"
Idle == [pc |-> "idle"]
Count(files) == Cardinality({f \in Paths : files[f] # Absent})

VARIABLES
    log,      \* the source project's history: paths in the order they were written
    row,      \* project_templates: slug of each id
    nextId,   \* AUTOINCREMENT
    dir,      \* DataDir/project-templates/<id>
    seeded,   \* history: templates whose files have all been written once
    project,  \* files of the last project seeded from a template
    req,      \* where each request stands
    spent     \* history: what the bounds count

uvars == <<log, row, nextId, dir, seeded, project, req, spent>>

(* The project after its first k writes; a file's content is its write.      *)
At(k) == [f \in Paths |-> LET w == {i \in 1..k : log[i] = f} IN
                          IF w = {} THEN Absent ELSE CHOOSE i \in w : \A j \in w : j <= i]

Init ==
    /\ log \in {s \in [1..MaxFiles -> Paths] : \A i, j \in 1..MaxFiles : i # j => s[i] # s[j]}
    /\ row = [t \in Ids |-> NoRow] /\ nextId = 1
    /\ dir = [t \in Ids |-> NoFiles]
    /\ seeded = {} /\ project = NoFiles
    /\ req = [r \in Requests |-> Idle]
    /\ spent = [edit |-> 0, start |-> 0, fault |-> 0]

Spend(what, bound) == spent[what] < bound /\ spent' = [spent EXCEPT ![what] = @ + 1]
ReqTo(r, to) == req' = [req EXCEPT ![r] = to]
Start(r) == Spend("start", MaxWrites) /\ req[r].pc = "idle"

EditProject(f) ==
    /\ Spend("edit", MaxEdits)
    /\ At(Len(log))[f] = Absent => Count(At(Len(log))) < MaxFiles
    /\ log' = Append(log, f)
    /\ UNCHANGED <<row, nextId, dir, seeded, project, req>>

-----------------------------------------------------------------------------
(* handleCreateProjectTemplate, handleDuplicateProjectTemplate and           *)
(* handleCreateProject with a template all begin with resolving the files:   *)
(* the row is looked up, then the directory is walked file by file.          *)
Source(r) == IF req[r].from = 0 THEN At(Len(log)) ELSE dir[req[r].from]
Reading(slug, from) == [pc |-> "read", to |-> slug, from |-> from, todo |-> Paths, got |-> NoFiles,
                        whole |-> from = 0 \/ from \in seeded]

SaveAsTemplate(r, slug) ==
    /\ Start(r)
    /\ ReqTo(r, Reading(slug, 0))
    /\ UNCHANGED <<log, row, nextId, dir, seeded, project>>

DuplicateTemplate(r, slug, t) ==
    /\ Start(r) /\ row[t] # NoRow
    /\ ReqTo(r, Reading(slug, t))
    /\ UNCHANGED <<log, row, nextId, dir, seeded, project>>

CreateFromTemplate(r, t) ==
    /\ Start(r) /\ row[t] # NoRow
    /\ ReqTo(r, Reading("project", t))
    /\ UNCHANGED <<log, row, nextId, dir, seeded, project>>

ReadFile(r, f) ==
    /\ req[r].pc = "read" /\ f \in req[r].todo
    /\ ReqTo(r, [req[r] EXCEPT !.todo = @ \ {f}, !.got[f] = Source(r)[f],
                               !.pc = IF req[r].todo = {f} THEN "store" ELSE @])
    /\ UNCHANGED <<log, row, nextId, dir, seeded, project, spent>>

(* seedProjectFiles refuses a set larger than the editor's cap.              *)
Seedable(files) == Count(files) <= MaxFiles

(* The project's own row and rollback are ProjectOps'.                       *)
SeedProject(r) ==
    /\ req[r].pc = "store" /\ req[r].to = "project"
    /\ project' = IF Seedable(req[r].got) THEN req[r].got ELSE project
    /\ ReqTo(r, Idle)
    /\ UNCHANGED <<log, row, nextId, dir, seeded, spent>>

-----------------------------------------------------------------------------
(* storeUserTemplate: the row (slug UNIQUE), the folder, the files; an error *)
(* takes the folder and then the row back.                                   *)
CreateRow(r) ==
    LET x == req[r] IN
    /\ x.pc = "store" /\ x.to # "project"
    /\ IF \E t \in Ids : row[t] = x.to
         THEN ReqTo(r, Idle) /\ UNCHANGED <<row, nextId>>
         ELSE /\ nextId \in Ids
              /\ row' = [row EXCEPT ![nextId] = x.to]
              /\ nextId' = nextId + 1
              /\ ReqTo(r, [pc |-> IF Seedable(x.got) THEN "seed" ELSE "undo", id |-> nextId, got |-> x.got,
                           todo |-> {f \in Paths : x.got[f] # Absent}])
    /\ UNCHANGED <<log, dir, seeded, project, spent>>

SeedFile(r, f) ==
    /\ req[r].pc = "seed" /\ f \in req[r].todo
    /\ dir' = [dir EXCEPT ![req[r].id][f] = req[r].got[f]]
    /\ ReqTo(r, [req[r] EXCEPT !.todo = @ \ {f}])
    /\ UNCHANGED <<log, row, nextId, seeded, project, spent>>

Seeded(r) ==
    /\ req[r].pc = "seed" /\ req[r].todo = {}
    /\ seeded' = seeded \cup {req[r].id}
    /\ ReqTo(r, Idle)
    /\ UNCHANGED <<log, row, nextId, dir, project, spent>>

(* What an error of the folder or of a write leads to.                       *)
OnErrorShadowed == "idle"
OnError == "undo"

SeedFails(r) ==
    /\ Spend("fault", MaxFaults)
    /\ req[r].pc = "seed" /\ req[r].todo # {}
    /\ ReqTo(r, [req[r] EXCEPT !.pc = OnError])
    /\ UNCHANGED <<log, row, nextId, dir, seeded, project>>

RemoveFolder(r) ==
    /\ req[r].pc = "undo"
    /\ dir' = [dir EXCEPT ![req[r].id] = NoFiles]
    /\ ReqTo(r, [req[r] EXCEPT !.pc = "undoRow"])
    /\ UNCHANGED <<log, row, nextId, seeded, project, spent>>

RemoveRow(r) ==
    /\ req[r].pc = "undoRow"
    /\ row' = [row EXCEPT ![req[r].id] = NoRow]
    /\ ReqTo(r, Idle)
    /\ UNCHANGED <<log, nextId, dir, seeded, project, spent>>

(* handleDeleteProjectTemplate: the row, then the folder.                    *)
DeleteRow(r, t) ==
    /\ Start(r) /\ row[t] # NoRow
    /\ row' = [row EXCEPT ![t] = NoRow]
    /\ ReqTo(r, [pc |-> "rmdir", id |-> t])
    /\ UNCHANGED <<log, nextId, dir, seeded, project>>

DeleteFolder(r) ==
    /\ req[r].pc = "rmdir"
    /\ dir' = [dir EXCEPT ![req[r].id] = NoFiles]
    /\ ReqTo(r, Idle)
    /\ UNCHANGED <<log, row, nextId, seeded, project, spent>>

-----------------------------------------------------------------------------
(* The file endpoints: the row is looked up and, for a new file, the files   *)
(* are counted (handleWriteTemplateFile, handleUploadTemplateFileRaw); the   *)
(* write follows, and makes the folder if it is missing.                     *)
CheckWrite(r, t, f) ==
    /\ Start(r) /\ row[t] # NoRow
    /\ dir[t][f] = Absent => Count(dir[t]) < MaxFiles
    /\ ReqTo(r, [pc |-> "write", id |-> t, file |-> f])
    /\ UNCHANGED <<log, row, nextId, dir, seeded, project>>

WriteTemplateFile(r) ==
    /\ req[r].pc = "write"
    /\ dir' = [dir EXCEPT ![req[r].id][req[r].file] = 1]
    /\ ReqTo(r, Idle)
    /\ UNCHANGED <<log, row, nextId, seeded, project, spent>>

CheckDelete(r, t, f) ==
    /\ Start(r) /\ row[t] # NoRow
    /\ ReqTo(r, [pc |-> "unlink", id |-> t, file |-> f])
    /\ UNCHANGED <<log, row, nextId, dir, seeded, project>>

DeleteTemplateFile(r) ==
    /\ req[r].pc = "unlink"
    /\ dir' = [dir EXCEPT ![req[r].id][req[r].file] = Absent]
    /\ ReqTo(r, Idle)
    /\ UNCHANGED <<log, row, nextId, seeded, project, spent>>

Step(r) ==
    \/ \E slug \in Slugs : SaveAsTemplate(r, slug) \/ \E t \in Ids : DuplicateTemplate(r, slug, t)
    \/ \E t \in Ids : CreateFromTemplate(r, t) \/ DeleteRow(r, t)
    \/ \E t \in Ids, f \in Paths : CheckWrite(r, t, f) \/ CheckDelete(r, t, f)
    \/ \E f \in Paths : ReadFile(r, f) \/ SeedFile(r, f)
    \/ SeedProject(r) \/ CreateRow(r) \/ Seeded(r) \/ SeedFails(r) \/ RemoveFolder(r) \/ RemoveRow(r)
    \/ DeleteFolder(r) \/ WriteTemplateFile(r) \/ DeleteTemplateFile(r)

Next == (\E f \in Paths : EditProject(f)) \/ \E r \in Requests : Step(r)

Spec == Init /\ [][Next]_uvars

-----------------------------------------------------------------------------
TypeOK ==
    /\ \A i \in DOMAIN log : log[i] \in Paths
    /\ \A t \in Ids : row[t] \in Slugs \cup {NoRow} /\ dir[t] \in [Paths -> Nat]
    /\ nextId \in 1..MaxIds + 1 /\ seeded \subseteq Ids
    /\ project \in [Paths -> Nat]
    /\ \A r \in Requests : req[r].pc \in {"idle", "read", "store", "seed", "undo", "undoRow", "rmdir", "write", "unlink"}

InHand(t) == \E r \in Requests : req[r].pc \in {"seed", "undo", "undoRow"} /\ req[r].id = t

(* "rolling back the row + folder on any write error": once its request is   *)
(* over, a template that is listed was written to the last file.             *)
NoHalfTemplates == \A t \in Ids : row[t] # NoRow /\ ~InHand(t) => t \in seeded

(* Racing writes can carry a template over the cap of files, each having     *)
(* counted before either wrote; no project is seeded past it all the same.   *)
SeededWithinCap == Count(project) <= MaxFiles

(* Refuted: user templates are "literal snapshots". The                      *)
(* walk reads the files one by one while they are edited.                    *)
SnapshotIsLiteral ==
    \A r \in Requests : req[r].pc = "store" /\ req[r].from = 0 => \E k \in 0..Len(log) : req[r].got = At(k)

(* Refuted: a template is listed before its files are                        *)
(* there, and a project can be seeded from what has been written so far.     *)
SeededFromWhole == \A r \in Requests : req[r].pc = "store" => req[r].whole

(* Refuted: "the same count/size caps as the editor".                        *)
TemplateWithinCap == \A t \in Ids : Count(dir[t]) <= MaxFiles

(* Refuted: a deleted template leaves nothing. A write                       *)
(* or a seeding that was under way brings the folder back.                   *)
DeletedLeavesNothing ==
    (\A r \in Requests : req[r].pc = "idle") => \A t \in Ids : row[t] = NoRow => dir[t] = NoFiles
=============================================================================
