------------------------------ MODULE StackEdit -----------------------------
(* Editing and redeploying, where it lies on its host, the compose file of a  *)
(* stack the application did not create (internal/docker/stacks_edit.go,      *)
(* stacks.go, internal/api/stack_handlers.go).                                *)
(*                                                                            *)
(* On the local host a save is a sequence of file operations of this process. *)
(* On an ssh host it is one script that runs over there, and goes on without  *)
(* its handler when that gives up.  No request holds a lock.                  *)
EXTENDS Naturals, Sequences, FiniteSets, SequencesExt

CONSTANTS
    Editors,      \* the requests
    Versions,     \* contents that are submitted; 0 is what the stack was deployed from
    Rejected,     \* those that `compose config` refuses
    Targets,      \* what the labels and the hosts table say of the stack
    MaxFaults     \* bound: failures, kills, and handlers that give up

VARIABLES
    target,       \* [kind, dir, inside, writable, big]
    owned,        \* a project of that slug exists on that host
    file, prev,   \* the compose file, and its .dc-prev
    temps,        \* requests whose temporary files lie beside it
    running,      \* the content the stack was last brought up with
    op,           \* each request
    placed,       \* history: requests that replaced the file
    overlapped,   \* history: a save began while another was under way, or the host's operator wrote
    cut,          \* history: a handler gave up before its content was through
    faults

vars == <<target, owned, file, prev, temps, running, op, placed, overlapped, cut, faults>>

(* A content is whole, or only its beginning.                                 *)
Whole(v) == [v |-> v, part |-> "whole"]
Begun(c) == [c EXCEPT !.part = "begun"]
Nothing == [v |-> 0, part |-> "none"]

NoOp == [pc |-> "idle", job |-> "save", got |-> Nothing, content |-> Nothing, bak |-> Nothing,
         heard |-> TRUE, reply |-> "none"]

Init ==
    /\ target \in Targets /\ owned = FALSE
    /\ file = Whole(0) /\ prev = Nothing /\ running = Whole(0) /\ temps = {}
    /\ op = [e \in Editors |-> NoOp]
    /\ placed = {} /\ overlapped = FALSE /\ cut = FALSE /\ faults = 0

-----------------------------------------------------------------------------
(* readHostFile stops at maxComposeBytes and does not say so.                 *)
Read(c) == IF target.big /\ c = Whole(0) THEN Begun(c) ELSE c

(* editableReason and writableReason.                                         *)
Editable == target.kind \in {"local", "ssh"} /\ target.dir /\ target.inside
Writable == target.kind = "ssh" \/ target.writable

(* `docker compose config`: the beginning of a file may or may not be one     *)
(* that it takes.                                                             *)
Accepts(c) == c.part = "begun" \/ c.v \notin Rejected
Refuses(c) == c.part = "begun" \/ c.v \in Rejected

Saving(e) == op[e].job = "save" /\ op[e].pc \notin {"idle", "owner", "resolve", "done"}
Reply(e, r) == [op EXCEPT ![e].pc = "done", ![e].reply = r]
Fault == faults < MaxFaults /\ faults' = faults + 1

(* handleWriteStackCompose and handleRedeployStack: managedByProject first.   *)
(* What is saved is a content of the user's, or what the viewer showed.       *)
Ask(e, job, c) ==
    /\ op[e].pc = "idle" /\ c \in {Whole(v) : v \in Versions} \cup {Read(file)}
    /\ op' = [op EXCEPT ![e] = [NoOp EXCEPT !.pc = "owner", !.job = job, !.content = c]]
    /\ UNCHANGED <<target, owned, file, prev, temps, running, placed, overlapped, cut, faults>>

managedByProject(e) ==
    /\ op[e].pc = "owner"
    /\ op' = IF owned THEN Reply(e, "error") ELSE [op EXCEPT ![e].pc = "resolve"]
    /\ UNCHANGED <<target, owned, file, prev, temps, running, placed, overlapped, cut, faults>>

(* The steps of a save, in order.                                             *)
StepsSwapped ==
    IF target.kind = "ssh" THEN <<"temp", "copy", "cat", "config", "rename", "backup">>
    ELSE <<"temp", "config", "rename", "backup">>
Steps ==
    IF target.kind = "ssh" THEN <<"temp", "copy", "cat", "config", "backup", "rename">>
    ELSE <<"temp", "config", "backup", "rename">>
Following(pc) ==
    LET i == CHOOSE i \in DOMAIN Steps : Steps[i] = pc
    IN IF i = Len(Steps) THEN "done" ELSE Steps[i + 1]

(* resolveStack, and what StackWriteComposeFile and StackRedeploy make of it. *)
resolveStack(e) ==
    /\ op[e].pc = "resolve"
    /\ \/ /\ op[e].job = "save" /\ Editable /\ Writable
          /\ op' = [op EXCEPT ![e].pc = "temp", ![e].got = Read(file)]
          /\ overlapped' = (overlapped \/ \E f \in Editors : Saving(f))
          /\ UNCHANGED faults
       \/ /\ op[e].job = "redeploy" /\ Editable
          /\ op' = [op EXCEPT ![e].pc = "up"] /\ UNCHANGED <<overlapped, faults>>
       \/ /\ ~Editable \/ (op[e].job = "save" /\ ~Writable)
          /\ op' = Reply(e, "error") /\ UNCHANGED <<overlapped, faults>>
       \/ Fault /\ op' = Reply(e, "error") /\ UNCHANGED overlapped
    /\ UNCHANGED <<target, owned, file, prev, temps, running, placed, cut>>

-----------------------------------------------------------------------------
(* writeLocal and the script of writeOverSSH.  The local one keeps what       *)
(* resolveStack read, the script copies the file when it gets to it; what the *)
(* script reads from a connection that is gone may be a beginning.            *)
Backup(e) == IF target.kind = "ssh" THEN op[e].bak ELSE op[e].got

Done(e) == IF op[e].heard THEN "ok" ELSE op[e].reply
Go(e) ==
    LET next == Following(op[e].pc) IN
    op' = [op EXCEPT ![e].pc = next, ![e].reply = IF next = "done" THEN Done(e) ELSE @]

Step(e) ==
    /\ \/ op[e].pc = "temp" /\ temps' = temps \cup {e} /\ Go(e) /\ UNCHANGED <<file, prev, placed, cut>>
       \/ /\ op[e].pc = "copy" /\ op' = [op EXCEPT ![e].pc = "cat", ![e].bak = file]
          /\ UNCHANGED <<file, prev, temps, placed, cut>>
       \/ /\ op[e].pc = "cat"
          /\ \/ Go(e) /\ UNCHANGED cut
             \/ /\ ~op[e].heard /\ cut' = TRUE
                /\ op' = [op EXCEPT ![e].pc = "config", ![e].content = Begun(@)]
          /\ UNCHANGED <<file, prev, temps, placed>>
       \/ /\ op[e].pc = "config" /\ Accepts(op[e].content) /\ Go(e)
          /\ UNCHANGED <<file, prev, temps, placed, cut>>
       \/ /\ op[e].pc = "backup" /\ prev' = Backup(e) /\ Go(e)
          /\ temps' = (IF Following("backup") = "done" THEN temps \ {e} ELSE temps)
          /\ UNCHANGED <<file, placed, cut>>
       \/ /\ op[e].pc = "rename" /\ file' = op[e].content /\ placed' = placed \cup {e} /\ Go(e)
          /\ temps' = temps \ {e} /\ UNCHANGED <<prev, cut>>
    /\ UNCHANGED <<target, owned, running, overlapped, faults>>

(* A step fails, compose refuses the content, or a script nobody listens to   *)
(* is killed: the temporary files go and the error is the answer.             *)
StepFails(e) ==
    /\ op[e].pc \in Range(Steps)
    /\ \/ op[e].pc = "config" /\ Refuses(op[e].content) /\ UNCHANGED faults
       \/ ~op[e].heard /\ UNCHANGED faults
       \/ op[e].heard /\ Fault
    /\ temps' = temps \ {e} /\ op' = Reply(e, "error")
    /\ UNCHANGED <<target, owned, file, prev, running, placed, overlapped, cut>>

(* StackRedeploy: compose reads the file that is there.                       *)
Up(e) ==
    /\ op[e].pc = "up"
    /\ \/ running' = file /\ op' = Reply(e, Done(e)) /\ UNCHANGED faults
       \/ op' = Reply(e, "error") /\ UNCHANGED running /\ IF op[e].heard THEN Fault ELSE UNCHANGED faults
    /\ UNCHANGED <<target, owned, file, prev, temps, placed, overlapped, cut>>

(* sshRunStdin: ten minutes are over, the browser left or the connection is   *)
(* lost.  The session is closed and the caller told "the edit was not applied *)
(* on the host".                                                              *)
GiveUp(e) ==
    /\ target.kind = "ssh" /\ op[e].pc \in Range(Steps) \cup {"up"} /\ op[e].heard /\ Fault
    /\ op' = [op EXCEPT ![e].heard = FALSE, ![e].reply = "error"]
    /\ UNCHANGED <<target, owned, file, prev, temps, running, placed, overlapped, cut>>

(* The server is killed: local saves end where they are, scripts go on.       *)
Kill ==
    /\ Fault
    /\ op' = [e \in Editors |->
                CASE op[e].pc \in {"idle", "done"} -> op[e]
                  [] target.kind = "ssh" /\ op[e].pc \in Range(Steps) \cup {"up"} ->
                       [op[e] EXCEPT !.heard = FALSE, !.reply = "none"]
                  [] OTHER -> [op[e] EXCEPT !.pc = "done"]]
    /\ UNCHANGED <<target, owned, file, prev, temps, running, placed, overlapped, cut>>

(* The operator of the host edits the file; an administrator creates a        *)
(* project with the stack's name.                                             *)
HostEdits ==
    /\ \E v \in Versions \ Rejected : file' = Whole(v)
    /\ Fault /\ overlapped' = (overlapped \/ \E e \in Editors : Saving(e))
    /\ UNCHANGED <<target, owned, prev, temps, running, op, placed, cut>>
CreateProject ==
    /\ ~owned /\ owned' = TRUE
    /\ UNCHANGED <<target, file, prev, temps, running, op, placed, overlapped, cut, faults>>

Next ==
    \/ \E e \in Editors :
         \/ \E c \in {Whole(v) : v \in Versions} \cup {Read(file)} : Ask(e, "save", c)
         \/ Ask(e, "redeploy", Read(file))
         \/ managedByProject(e) \/ resolveStack(e) \/ Step(e) \/ StepFails(e) \/ Up(e) \/ GiveUp(e)
    \/ Kill \/ HostEdits \/ CreateProject

Spec == Init /\ [][Next]_vars

-----------------------------------------------------------------------------
(* What the theorems assume of the constants: a stack that runs was deployed  *)
(* from a content compose accepted.                                           *)
BoundsOK ==
    /\ 0 \notin Rejected /\ MaxFaults \in Nat
    /\ \A t \in Targets : t.big \in BOOLEAN

TypeOK ==
    /\ owned \in BOOLEAN /\ overlapped \in BOOLEAN /\ cut \in BOOLEAN
    /\ file.v \in {0} \cup Versions /\ prev.v \in {0} \cup Versions
    /\ temps \subseteq Editors /\ placed \subseteq Editors /\ faults \in 0 .. MaxFaults
    /\ \A e \in Editors : op[e].pc \in {"idle", "owner", "resolve", "up", "done"} \cup Range(Steps)

(* What lies there, and what the stack runs, is a content compose accepted,   *)
(* whole unless an upload was cut off (StackWriteComposeFile: "Nothing is *)
(* written until the replacement validates").                                 *)
AcceptedWhole(c) == IF c.part = "whole" THEN c.v \notin Rejected ELSE cut \/ target.big
FileIsAccepted == AcceptedWhole(file) /\ AcceptedWhole(running)

(* A save keeps what it replaces as .dc-prev, when it is alone with a file    *)
(* that can be read to its end.                                               *)
Replaces(e) == op[e].pc = "rename" /\ e \notin placed /\ e \in placed'
KeepsReplaced ==
    \A e \in Editors : Replaces(e) /\ ~overlapped /\ ~(target.big /\ target.kind = "local") => prev = file
PreviousIsKept == [][KeepsReplaced]_vars

(* A save that was answered with an error has not replaced the file; of a     *)
(* handler that gave up only the local kind can be said.                      *)
RefusedIsNotApplied ==
    \A e \in Editors : op[e].reply = "error" /\ op[e].heard => e \notin placed

(* The comments, without those conditions.                                    *)
NoHalfFile == file.part = "whole"
EveryPreviousIsKept == [][\A e \in Editors : Replaces(e) => prev = file]_vars
NotAppliedIsTrue == \A e \in Editors : op[e].reply = "error" => e \notin placed
=============================================================================
