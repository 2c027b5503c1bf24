-------------------------- MODULE ProjectOpsProofs --------------------------
(***************************************************************************)
(* Proofs about ProjectOps, for any requests, hosts and bounds: the types  *)
(* with mutual exclusion, the snapshots, the project's folder, the numbers *)
(* of its revisions, and that deploys are recorded.                        *)
(***************************************************************************)
EXTENDS ProjectOps, FiniteSetTheorems, WellFoundedInduction, TLAPS

LEMMA ContentTypes ==
    /\ Absent \notin Contents /\ Mixed \notin Contents /\ Absent # Mixed
    /\ 1 \in Contents
    /\ \A s \in 0..MaxSaves : s < MaxSaves => s + 2 \in Contents
  BY BoundsAssumption DEF Absent, Mixed, Contents

-----------------------------------------------------------------------------
(* Types and mutual exclusion.                                              *)

LEMMA RecordTypes ==
    ASSUME NEW P, NEW K, NEW H, NEW N, NEW C,
           NEW h \in [pc : P, kind : K, host : H, n : N, up : C], NEW pc \in P
    PROVE  /\ \A c \in C : [h EXCEPT !.pc = pc, !.up = c] \in [pc : P, kind : K, host : H, n : N, up : C]
           /\ \A m \in N : [h EXCEPT !.pc = pc, !.n = m] \in [pc : P, kind : K, host : H, n : N, up : C]
           /\ \A k \in K, o \in H :
                /\ [h EXCEPT !.pc = pc, !.kind = k, !.host = o] \in [pc : P, kind : K, host : H, n : N, up : C]
                /\ [h EXCEPT !.pc = pc, !.kind = k, !.host = o].pc = pc
  OBVIOUS

LEMMA HandlerTypes ==
    ASSUME NEW h \in Handlers, NEW pc \in Steps
    PROVE  /\ \A c \in Contents \cup {Absent} : [h EXCEPT !.pc = pc, !.up = c] \in Handlers
           /\ \A n \in 0..MaxRevisions : [h EXCEPT !.pc = pc, !.n = n] \in Handlers
           /\ \A k \in AllKinds \cup {"none"}, o \in Hosts \cup {"gone"} :
                /\ [h EXCEPT !.pc = pc, !.kind = k, !.host = o] \in Handlers
                /\ [h EXCEPT !.pc = pc, !.kind = k, !.host = o].pc = pc
<1> DEFINE P == Steps
           K == AllKinds \cup {"none"}
           H == Hosts \cup {"gone"}
           N == 0..MaxRevisions
           C == Contents \cup {Absent}
<1>1. Handlers = [pc : P, kind : K, host : H, n : N, up : C]
  BY DEF Handlers
<1> HIDE DEF P, K, H, N, C
<1>2. h \in [pc : P, kind : K, host : H, n : N, up : C] /\ pc \in P
  BY <1>1 DEF P
<1> QED
  BY <1>1, <1>2, RecordTypes DEF N, C, K, H

LEMMA GotoTypes ==
    ASSUME TypeOK, NEW r \in Requests, op = r, NEW pc \in Steps \ {"idle", "loaded"},
           Goto(r, pc)
    PROVE  req' \in [Requests -> Handlers] /\ op' = op /\ OneAtATime'
<1>1. req' \in [Requests -> Handlers]
  BY DEF TypeOK, Goto, Handlers
<1>2. req'[r].pc = pc /\ \A q \in Requests \ {r} : req'[q] = req[q]
  BY DEF TypeOK, Goto, Handlers
<1> QED
  BY <1>1, <1>2 DEF Goto, OneAtATime, TypeOK

LEMMA AnswerTypes ==
    ASSUME TypeOK, NEW r \in Requests, op = r, Answer(r)
    PROVE  /\ req' \in [Requests -> Handlers] /\ op' = NoOne /\ OneAtATime'
           /\ req'[r] = Idle /\ \A q \in Requests \ {r} : req'[q] = req[q]
<1>1. Idle \in Handlers
  BY BoundsAssumption DEF Idle, Handlers, Steps
<1>2. req' \in [Requests -> Handlers]
  BY <1>1 DEF TypeOK, Answer
<1>3. req'[r] = Idle /\ \A q \in Requests \ {r} : req'[q] = req[q]
  BY DEF TypeOK, Answer
<1>4. OneAtATime'
  BY <1>3, LockAssumption DEF OneAtATime, TypeOK, Answer, Idle
<1> QED
  BY <1>2, <1>3, <1>4 DEF Answer

LEMMA HolderIs ==
    ASSUME TypeOK, NEW r \in Requests, req[r].pc \notin {"idle", "loaded"}
    PROVE  op = r
  BY DEF TypeOK, OneAtATime

LEMMA FaultTypes ==
    ASSUME TypeOK, Fault
    PROVE  saves' \in 0..MaxSaves /\ faults' \in 0..MaxFaults /\ crashes' \in 0..MaxCrashes
           /\ crashes' = crashes /\ saves' = saves
  BY BoundsAssumption DEF TypeOK, Fault

LEMMA InitType == Init => TypeOK
<1> SUFFICES ASSUME Init PROVE TypeOK
  OBVIOUS
<1>1. req \in [Requests -> Handlers]
  BY BoundsAssumption DEF Init, Idle, Handlers, Steps
<1>2. OneAtATime
  BY LockAssumption DEF Init, OneAtATime, Idle
<1>3. saves \in 0..MaxSaves /\ faults \in 0..MaxFaults /\ crashes \in 0..MaxCrashes
  BY BoundsAssumption DEF Init
<1>4. /\ {root, staging, backup, want} \subseteq Contents \cup {Absent}
      /\ running \in [Hosts -> Contents \cup {Absent, Mixed}]
      /\ zip \in [Revisions -> Contents \cup {Absent}]
      /\ what \in [Revisions -> Contents \cup {Absent}]
  BY ContentTypes DEF Init
<1>5. rev \in [Revisions -> {"none", "pending", "valid"}] /\ row \in Hosts \cup {"gone"}
  BY DEF Init
<1>6. sweep \in [on : BOOLEAN, live : SUBSET Revisions] /\ hurt \in BOOLEAN
  BY DEF Init
<1> QED
  BY <1>1, <1>2, <1>3, <1>4, <1>5, <1>6 DEF Init, TypeOK

(* What the rest of the state looks like after any step.                    *)
DataOK ==
    /\ row \in Hosts \cup {"gone"}
    /\ {root, staging, backup, want} \subseteq Contents \cup {Absent}
    /\ running \in [Hosts -> Contents \cup {Absent, Mixed}]
    /\ rev \in [Revisions -> {"none", "pending", "valid"}]
    /\ zip \in [Revisions -> Contents \cup {Absent}]
    /\ what \in [Revisions -> Contents \cup {Absent}]
    /\ sweep \in [on : BOOLEAN, live : SUBSET Revisions]
    /\ saves \in 0..MaxSaves /\ faults \in 0..MaxFaults /\ crashes \in 0..MaxCrashes
    /\ hurt \in BOOLEAN

LEMMA TypeParts ==
    TypeOK <=> DataOK /\ op \in Requests \cup {NoOne} /\ req \in [Requests -> Handlers] /\ OneAtATime
  BY DEF TypeOK, DataOK

(* The lock and the handlers after a handler's step.                        *)
LEMMA HandlerLock ==
    ASSUME TypeOK, NEW r \in Requests, Handler(r)
    PROVE  op' \in Requests \cup {NoOne} /\ req' \in [Requests -> Handlers] /\ OneAtATime'
<1>1. CASE beginProjectOp(r)
  <2>1. CASE op = NoOne /\ op' = r /\ req' = [req EXCEPT ![r].pc = "held"]
    <3>1. req' \in [Requests -> Handlers]
      BY <2>1 DEF TypeOK, Handlers, Steps
    <3>2. req'[r].pc = "held" /\ \A q \in Requests \ {r} : req'[q] = req[q]
      BY <2>1 DEF TypeOK, Handlers
    <3> QED
      BY <2>1, <3>1, <3>2, LockAssumption DEF TypeOK, OneAtATime
  <2>2. CASE op # NoOne /\ req' = [req EXCEPT ![r] = Idle] /\ UNCHANGED op
    <3>1. req' \in [Requests -> Handlers]
      BY <2>2, BoundsAssumption DEF TypeOK, Handlers, Steps, Idle
    <3>2. req'[r].pc = "idle" /\ \A q \in Requests \ {r} : req'[q] = req[q]
      BY <2>2 DEF TypeOK, Handlers, Idle
    <3> QED
      BY <1>1, <2>2, <3>1, <3>2 DEF TypeOK, OneAtATime, beginProjectOp
  <2> QED
    BY <1>1, <2>1, <2>2 DEF beginProjectOp
<1>2. ASSUME op = r, Answer(r)
      PROVE  op' \in Requests \cup {NoOne} /\ req' \in [Requests -> Handlers] /\ OneAtATime'
  BY <1>2, AnswerTypes
<1>3. ASSUME op = r, NEW pc \in Steps \ {"idle", "loaded"}, Goto(r, pc)
      PROVE  op' \in Requests \cup {NoOne} /\ req' \in [Requests -> Handlers] /\ OneAtATime'
  BY <1>3, GotoTypes
<1>4. ASSUME op = r, req' = [req EXCEPT ![r].pc = "up", ![r].up = root], UNCHANGED op
      PROVE  op' \in Requests \cup {NoOne} /\ req' \in [Requests -> Handlers] /\ OneAtATime'
  <2>1. root \in Contents \cup {Absent}
    BY DEF TypeOK
  <2>2. req' \in [Requests -> Handlers]
    <3>1. [req[r] EXCEPT !.pc = "up", !.up = root] \in Handlers
      BY <2>1, HandlerTypes DEF TypeOK, Steps
    <3>2. req' = [req EXCEPT ![r] = [req[r] EXCEPT !.pc = "up", !.up = root]]
      BY <1>4 DEF TypeOK, Handlers
    <3> QED
      BY <3>1, <3>2 DEF TypeOK
  <2>3. req'[r].pc = "up" /\ \A q \in Requests \ {r} : req'[q] = req[q]
    BY <1>4 DEF TypeOK, Handlers
  <2> QED
    BY <1>4, <2>2, <2>3 DEF OneAtATime, TypeOK
<1>5. ASSUME op = r, CreateRevision(r)
      PROVE  op' \in Requests \cup {NoOne} /\ req' \in [Requests -> Handlers] /\ OneAtATime'
  <2>1. CASE Answer(r)
    BY <1>5, <2>1, <1>2
  <2>2. CASE NextRevision \in Revisions /\ req' = [req EXCEPT ![r].pc = "row", ![r].n = NextRevision] /\ UNCHANGED op
    <3>1. NextRevision \in 0..MaxRevisions
      BY <2>2, BoundsAssumption DEF Revisions
    <3>2. req' \in [Requests -> Handlers]
      <4>1. [req[r] EXCEPT !.pc = "row", !.n = NextRevision] \in Handlers
        BY <3>1, HandlerTypes DEF TypeOK, Steps
      <4>2. req' = [req EXCEPT ![r] = [req[r] EXCEPT !.pc = "row", !.n = NextRevision]]
        BY <2>2 DEF TypeOK, Handlers
      <4> QED
        BY <4>1, <4>2 DEF TypeOK
    <3>3. req'[r].pc = "row" /\ \A q \in Requests \ {r} : req'[q] = req[q]
      BY <2>2 DEF TypeOK, Handlers
    <3> QED
      BY <1>5, <2>2, <3>2, <3>3 DEF OneAtATime, TypeOK
  <2> QED
    BY <1>5, <2>1, <2>2 DEF CreateRevision, Deployed
<1>6. ASSUME ~beginProjectOp(r) PROVE op = r
  BY <1>6, HolderIs DEF Handler, handleWriteProjectFile, runProjectCompose, tearDownOnHost,
     UpdateProjectSettings, handleDeployProject, mcpDeployProject, captureRevision, CreateRevision,
     PublishSnapshot, SetRevisionValid, handleDeleteProject, CheckDeployed, RemoveFolder,
     RemoveSnapshots, DeleteProject, handleRestoreRevision, StageRevision, RefuseRestore,
     SwapOut, SwapIn, RestoreUp, At
<1>7. CASE ~beginProjectOp(r)
  <2>0. op = r
    BY <1>6, <1>7
  <2>1. {"torn", "zip", "free", "rootless", "ziplines", "staged", "out", "in"} \subseteq Steps \ {"idle", "loaded"}
    BY DEF Steps
  <2>2. \/ Answer(r) \/ CreateRevision(r)
        \/ \E pc \in {"torn", "zip", "free", "rootless", "ziplines", "staged", "out", "in"} : Goto(r, pc)
        \/ req' = [req EXCEPT ![r].pc = "up", ![r].up = root] /\ UNCHANGED op
    BY <1>7 DEF Handler, handleWriteProjectFile, runProjectCompose, tearDownOnHost,
     UpdateProjectSettings, handleDeployProject, mcpDeployProject, captureRevision,
     PublishSnapshot, SetRevisionValid, handleDeleteProject, CheckDeployed, RemoveFolder,
     RemoveSnapshots, DeleteProject, handleRestoreRevision, StageRevision, RefuseRestore,
     SwapOut, SwapIn, RestoreUp, Deployed
  <2> QED
    BY <2>0, <2>1, <2>2, <1>2, <1>3, <1>4, <1>5
<1> QED
  BY <1>1, <1>7

(* The data after a handler's step, one case per action.                    *)
LEMMA HandlerData ==
    ASSUME TypeOK, NEW r \in Requests, Handler(r)
    PROVE  DataOK'
<1> USE DEF disk, history, bounds
<1>0. /\ DataOK /\ req[r] \in Handlers
      /\ req[r].n \in 0..MaxRevisions /\ req[r].up \in Contents \cup {Absent}
      /\ req[r].host \in Hosts \cup {"gone"}
  BY TypeParts DEF TypeOK, Handlers
<1>1. CASE beginProjectOp(r)
  BY <1>0, <1>1 DEF beginProjectOp, DataOK
<1>2. CASE handleWriteProjectFile(r)
  BY <1>0, <1>2, ContentTypes, BoundsAssumption DEF handleWriteProjectFile, DataOK
<1>3. CASE runProjectCompose(r)
  BY <1>0, <1>3 DEF runProjectCompose, ComposeDown, DataOK
<1>4. CASE tearDownOnHost(r)
  BY <1>0, <1>4 DEF tearDownOnHost, ComposeDown, DataOK
<1>5. CASE UpdateProjectSettings(r)
  <2>1. row' \in Hosts \cup {"gone"}
    BY <1>0, <1>5 DEF UpdateProjectSettings, DataOK
  <2>2. saves' \in 0..MaxSaves /\ faults' \in 0..MaxFaults /\ crashes' \in 0..MaxCrashes
    BY <1>0, <1>5, FaultTypes DEF UpdateProjectSettings, DataOK
  <2> QED
    BY <1>0, <1>5, <2>1, <2>2 DEF UpdateProjectSettings, DataOK
<1>6. CASE handleDeployProject(r)
  BY <1>0, <1>6 DEF handleDeployProject, Up, UpFails, DataOK
<1>7. CASE mcpDeployProject(r)
  BY <1>0, <1>7 DEF mcpDeployProject, Up, UpFails, DataOK
<1>8. CASE CreateRevision(r)
  <2>1. saves' \in 0..MaxSaves /\ faults' \in 0..MaxFaults /\ crashes' \in 0..MaxCrashes
    BY <1>0, <1>8, FaultTypes DEF CreateRevision, DataOK
  <2>2. {root', staging', backup', want'} \subseteq Contents \cup {Absent}
    BY <1>0, <1>8 DEF CreateRevision, Deployed, DataOK
  <2>3. rev' \in [Revisions -> {"none", "pending", "valid"}]
    BY <1>0, <1>8 DEF CreateRevision, DataOK
  <2>4. what' \in [Revisions -> Contents \cup {Absent}]
    BY <1>0, <1>8 DEF CreateRevision, DataOK
  <2> QED
    BY <1>0, <1>8, <2>1, <2>2, <2>3, <2>4 DEF CreateRevision, DataOK
<1>9. CASE PublishSnapshot(r)
  <2>1. saves' \in 0..MaxSaves /\ faults' \in 0..MaxFaults /\ crashes' \in 0..MaxCrashes
    BY <1>0, <1>9, FaultTypes DEF PublishSnapshot, DataOK
  <2>2. {root', staging', backup', want'} \subseteq Contents \cup {Absent}
    BY <1>0, <1>9 DEF PublishSnapshot, Deployed, DataOK
  <2>3. zip' \in [Revisions -> Contents \cup {Absent}]
    BY <1>0, <1>9 DEF PublishSnapshot, DataOK
  <2> QED
    BY <1>0, <1>9, <2>1, <2>2, <2>3 DEF PublishSnapshot, DataOK
<1>10. CASE SetRevisionValid(r)
  <2>1. saves' \in 0..MaxSaves /\ faults' \in 0..MaxFaults /\ crashes' \in 0..MaxCrashes
    BY <1>0, <1>10, FaultTypes DEF SetRevisionValid, DataOK
  <2>2. {root', staging', backup', want'} \subseteq Contents \cup {Absent}
    BY <1>0, <1>10 DEF SetRevisionValid, Deployed, DataOK
  <2>3. rev' \in [Revisions -> {"none", "pending", "valid"}]
    BY <1>0, <1>10 DEF SetRevisionValid, DataOK
  <2> QED
    BY <1>0, <1>10, <2>1, <2>2, <2>3 DEF SetRevisionValid, DataOK
<1>11. CASE handleDeleteProject(r)
  <2>1. saves' \in 0..MaxSaves /\ faults' \in 0..MaxFaults /\ crashes' \in 0..MaxCrashes
    BY <1>0, <1>11, FaultTypes
       DEF handleDeleteProject, CheckDeployed, RemoveFolder, RemoveSnapshots, DeleteProject, DataOK
  <2>2. CASE CheckDeployed(r)
    BY <1>0, <2>1, <2>2 DEF CheckDeployed, ComposeDown, DataOK
  <2>3. CASE RemoveFolder(r)
    BY <1>0, <2>1, <2>3 DEF RemoveFolder, DataOK
  <2>4. CASE RemoveSnapshots(r)
    BY <1>0, <2>1, <2>4 DEF RemoveSnapshots, DataOK
  <2>5. CASE DeleteProject(r)
    BY <1>0, <2>1, <2>5 DEF DeleteProject, DataOK
  <2> QED
    BY <1>11, <2>2, <2>3, <2>4, <2>5 DEF handleDeleteProject
<1>12. CASE handleRestoreRevision(r)
  <2>1. saves' \in 0..MaxSaves /\ faults' \in 0..MaxFaults /\ crashes' \in 0..MaxCrashes
    BY <1>0, <1>12, FaultTypes
       DEF handleRestoreRevision, StageRevision, RefuseRestore, SwapOut, SwapIn, RestoreUp, DataOK
  <2>2. CASE StageRevision(r)
    BY <1>0, <2>1, <2>2 DEF StageRevision, DataOK
  <2>3. CASE RefuseRestore(r)
    BY <1>0, <2>1, <2>3 DEF RefuseRestore, DataOK
  <2>4. CASE SwapOut(r)
    BY <1>0, <2>1, <2>4 DEF SwapOut, DataOK
  <2>5. CASE SwapIn(r)
    BY <1>0, <2>1, <2>5 DEF SwapIn, DataOK
  <2>6. CASE RestoreUp(r)
    BY <1>0, <2>1, <2>6 DEF RestoreUp, Up, UpFails, DataOK
  <2> QED
    BY <1>12, <2>2, <2>3, <2>4, <2>5, <2>6 DEF handleRestoreRevision
<1> QED
  BY <1>1, <1>2, <1>3, <1>4, <1>5, <1>6, <1>7, <1>8, <1>9, <1>10, <1>11, <1>12
     DEF Handler, captureRevision

LEMMA TypeStep ==
    TypeOK /\ [Next]_vars => TypeOK'
<1> SUFFICES ASSUME TypeOK, [Next]_vars PROVE TypeOK'
  OBVIOUS
<1> USE DEF disk, history, bounds
<1>0. DataOK
  BY TypeParts
<1>1. ASSUME NEW r \in Requests, NEW kind \in Kinds, loadProject(r, kind) PROVE TypeOK'
  <2>1. DataOK'
    BY <1>0, <1>1 DEF loadProject, DataOK
  <2>2. Idle \in Handlers
    BY BoundsAssumption DEF Idle, Handlers, Steps
  <2> DEFINE next == [Idle EXCEPT !.pc = "loaded", !.kind = kind, !.host = row]
  <2>3. next \in Handlers /\ next.pc = "loaded"
    <3>1. "loaded" \in Steps /\ kind \in AllKinds \cup {"none"} /\ row \in Hosts \cup {"gone"}
      BY <1>0, KindsAssumption DEF Steps, DataOK
    <3> QED
      BY <2>2, <3>1, HandlerTypes
  <2> HIDE DEF next
  <2>4. req' = [req EXCEPT ![r] = next]
    BY <1>1 DEF loadProject, next
  <2>4a. /\ req' \in [Requests -> Handlers]
         /\ req'[r].pc = "loaded" /\ \A q \in Requests \ {r} : req'[q] = req[q]
    BY <2>3, <2>4 DEF TypeOK
  <2>5. op' = op /\ op # r
    BY <1>1 DEF loadProject, TypeOK, OneAtATime
  <2>6. OneAtATime'
    BY <2>4a, <2>5 DEF TypeOK, OneAtATime
  <2> QED
    BY <2>1, <2>4a, <2>5, <2>6 DEF TypeOK, DataOK
<1>2. ASSUME NEW r \in Requests, Handler(r) PROVE TypeOK'
  BY <1>2, HandlerLock, HandlerData DEF TypeOK, DataOK
<1>3. CASE TrimRevisions
  <2>1. saves' \in 0..MaxSaves /\ faults' \in 0..MaxFaults /\ crashes' \in 0..MaxCrashes
    BY <1>0, <1>3, FaultTypes DEF TrimRevisions, DataOK
  <2>2. rev' \in [Revisions -> {"none", "pending", "valid"}]
    BY <1>0, <1>3 DEF TrimRevisions, DataOK
  <2>3. zip' \in [Revisions -> Contents \cup {Absent}]
    BY <1>0, <1>3 DEF TrimRevisions, DataOK
  <2> QED
    BY <1>3, <2>1, <2>2, <2>3 DEF TrimRevisions, TypeOK, OneAtATime
<1>4. CASE SweepReadsRows
  BY <1>4 DEF SweepReadsRows, TypeOK, OneAtATime
<1>5. CASE SweepRemovesFiles
  <2>1. zip' \in [Revisions -> Contents \cup {Absent}]
    BY <1>0, <1>5 DEF SweepRemovesFiles, DataOK
  <2> QED
    BY <1>5, <2>1 DEF SweepRemovesFiles, TypeOK, OneAtATime
<1>6. CASE Crash
  <2>1. DataOK'
    BY <1>0, <1>6, BoundsAssumption DEF Crash, DataOK
  <2>2. req' \in [Requests -> Handlers]
    BY <1>6, BoundsAssumption DEF Crash, Idle, Handlers, Steps
  <2>3. op' = NoOne /\ OneAtATime'
    BY <1>6, LockAssumption DEF Crash, OneAtATime, Idle
  <2> QED
    BY <2>1, <2>2, <2>3 DEF TypeOK, DataOK
<1>7. CASE UNCHANGED vars
  BY <1>7 DEF vars, TypeOK, OneAtATime
<1> QED
  BY <1>1, <1>2, <1>3, <1>4, <1>5, <1>6, <1>7 DEF Next

(***************************************************************************)
(* The types, and with them the lock (project_oplock.go): in every         *)
(* interleaving of handlers, retention and stops of the process, the       *)
(* request that holds the project is the only one past its claim.          *)
(***************************************************************************)
THEOREM TypeCorrect == Spec => []TypeOK
<1>1. Init => TypeOK
  BY InitType
<1> QED
  BY <1>1, TypeStep, PTL DEF Spec

-----------------------------------------------------------------------------
(* Where the handlers are after a step.                                     *)

LEMMA OthersStay ==
    ASSUME TypeOK, NEW r \in Requests, Handler(r)
    PROVE  /\ \A q \in Requests \ {r} : req'[q] = req[q]
           /\ req[r].pc # "loaded" => \A q \in Requests \ {r} : req[q].pc \in {"idle", "loaded"}
<1>1. \A q \in Requests \ {r} : req'[q] = req[q]
  BY DEF Handler, beginProjectOp, handleWriteProjectFile, runProjectCompose, tearDownOnHost,
     UpdateProjectSettings, handleDeployProject, mcpDeployProject, captureRevision, CreateRevision,
     PublishSnapshot, SetRevisionValid, handleDeleteProject, CheckDeployed, RemoveFolder,
     RemoveSnapshots, DeleteProject, handleRestoreRevision, StageRevision, RefuseRestore,
     SwapOut, SwapIn, RestoreUp, Deployed, Goto, Answer, TypeOK
<1>2. req[r].pc # "idle"
  BY DEF Handler, beginProjectOp, handleWriteProjectFile, runProjectCompose, tearDownOnHost,
     UpdateProjectSettings, handleDeployProject, mcpDeployProject, captureRevision, CreateRevision,
     PublishSnapshot, SetRevisionValid, handleDeleteProject, CheckDeployed, RemoveFolder,
     RemoveSnapshots, DeleteProject, handleRestoreRevision, StageRevision, RefuseRestore,
     SwapOut, SwapIn, RestoreUp, At
<1> QED
  BY <1>1, <1>2 DEF TypeOK, OneAtATime

LEMMA GotoStays ==
    ASSUME TypeOK, NEW r \in Requests, NEW pc, Goto(r, pc)
    PROVE  req'[r].pc = pc /\ req'[r].n = req[r].n /\ req'[r].up = req[r].up
  BY DEF TypeOK, Handlers, Goto

LEMMA AnswerStays ==
    ASSUME TypeOK, NEW r \in Requests, Answer(r)
    PROVE  req'[r].pc = "idle" /\ op' = NoOne
  BY DEF TypeOK, Answer, Idle

LEMMA UpStays ==
    ASSUME TypeOK, NEW r \in Requests, req' = [req EXCEPT ![r].pc = "up", ![r].up = root]
    PROVE  req'[r].pc = "up" /\ req'[r].up = root
  BY DEF TypeOK, Handlers

LEMMA RowStays ==
    ASSUME TypeOK, NEW r \in Requests, NEW n, req' = [req EXCEPT ![r].pc = "row", ![r].n = n]
    PROVE  req'[r].pc = "row" /\ req'[r].n = n /\ req'[r].up = req[r].up
  BY DEF TypeOK, Handlers

(* loadProject remembers the row's host as it is now.                       *)
LEMMA Loaded ==
    ASSUME TypeOK, NEW r \in Requests, NEW kind \in Kinds, loadProject(r, kind)
    PROVE  /\ req'[r].pc = "loaded" /\ req'[r].kind = kind /\ req'[r].host = row
           /\ \A q \in Requests \ {r} : req'[q] = req[q]
<1> DEFINE next == [Idle EXCEPT !.pc = "loaded", !.kind = kind, !.host = row]
<1>1. next.pc = "loaded" /\ next.kind = kind /\ next.host = row
  BY DEF Idle
<1> HIDE DEF next
<1>2. req' = [req EXCEPT ![r] = next]
  BY DEF loadProject, next
<1> QED
  BY <1>1, <1>2 DEF TypeOK

-----------------------------------------------------------------------------
(* Snapshots: from compose up to the end of the capture, the folder is what *)
(* was brought up, and the row and the file are of the same deploy.         *)

CaptureOK(r) ==
    /\ req[r].pc \in {"up", "row", "zip"} => root = req[r].up
    /\ req[r].pc \in {"row", "zip"} => req[r].n \in Revisions /\ what[req[r].n] = req[r].up
    /\ req[r].pc = "zip" => zip[req[r].n] \in {Absent, req[r].up}
Capturing == \A r \in Requests : CaptureOK(r)

(* A step of r keeps the captures if it keeps r's and r alone is at work.   *)
LEMMA CaptureHolder ==
    ASSUME TypeOK, NEW r \in Requests, Handler(r), req[r].pc # "loaded", CaptureOK(r)'
    PROVE  Capturing'
<1>1. ASSUME NEW q \in Requests \ {r} PROVE req'[q].pc \in {"idle", "loaded"}
  BY OthersStay, <1>1
<1> QED
  BY <1>1 DEF Capturing, CaptureOK

LEMMA SnapshotHandler ==
    ASSUME TypeOK, Capturing, SnapshotIsWhatRan, NEW r \in Requests, Handler(r)
    PROVE  Capturing' /\ SnapshotIsWhatRan'
<1> USE DEF disk, history, bounds
<1>0. req[r] \in Handlers /\ req[r].n \in 0..MaxRevisions
  BY DEF TypeOK, Handlers
<1>1. CASE beginProjectOp(r)
  <2>1. root' = root /\ what' = what /\ zip' = zip /\ rev' = rev
    BY <1>1 DEF beginProjectOp
  <2>2. req'[r].pc \in {"held", "idle"}
    BY <1>1 DEF beginProjectOp, TypeOK, Handlers, Idle
  <2>3. ASSUME NEW q \in Requests PROVE CaptureOK(q)'
    BY <2>1, <2>2, <2>3, OthersStay DEF Capturing, CaptureOK
  <2> QED
    BY <2>1, <2>3 DEF Capturing, SnapshotIsWhatRan
<1>2. ASSUME Answer(r), UNCHANGED history, req[r].pc # "loaded"
      PROVE  Capturing' /\ SnapshotIsWhatRan'
  <2>1. CaptureOK(r)'
    BY <1>2, AnswerStays DEF CaptureOK
  <2> QED
    BY <1>2, <2>1, CaptureHolder DEF SnapshotIsWhatRan
<1>3. ASSUME NEW pc \in {"torn", "free", "rootless", "ziplines", "staged", "out", "in"},
             Goto(r, pc), UNCHANGED history, req[r].pc # "loaded"
      PROVE  Capturing' /\ SnapshotIsWhatRan'
  <2>1. CaptureOK(r)'
    BY <1>3, GotoStays DEF CaptureOK
  <2> QED
    BY <1>3, <2>1, CaptureHolder DEF SnapshotIsWhatRan
<1>4. ASSUME req' = [req EXCEPT ![r].pc = "up", ![r].up = root], root' = root,
             UNCHANGED history, req[r].pc # "loaded"
      PROVE  Capturing' /\ SnapshotIsWhatRan'
  <2>1. CaptureOK(r)'
    BY <1>4, UpStays DEF CaptureOK
  <2> QED
    BY <1>4, <2>1, CaptureHolder DEF SnapshotIsWhatRan
<1>5. CASE CreateRevision(r)
  <2>0. req[r].pc = "up" /\ root = req[r].up /\ zip' = zip
    BY <1>5 DEF CreateRevision, Capturing, CaptureOK
  <2>1. CASE Answer(r) /\ UNCHANGED <<rev, what>>
    BY <1>2, <2>0, <2>1
  <2>2. CASE /\ NextRevision \in Revisions
             /\ rev' = [rev EXCEPT ![NextRevision] = "pending"]
             /\ what' = [what EXCEPT ![NextRevision] = req[r].up]
             /\ req' = [req EXCEPT ![r].pc = "row", ![r].n = NextRevision]
             /\ root' = root
    <3>1. req'[r].pc = "row" /\ req'[r].n = NextRevision /\ req'[r].up = req[r].up
      BY <2>2, RowStays
    <3>2. what'[NextRevision] = req[r].up
      BY <2>2 DEF TypeOK
    <3>3. CaptureOK(r)'
      BY <2>0, <2>2, <3>1, <3>2 DEF CaptureOK
    <3>4. SnapshotIsWhatRan'
      BY <2>0, <2>2 DEF SnapshotIsWhatRan, TypeOK
    <3> QED
      BY <2>0, <3>3, <3>4, CaptureHolder
  <2> QED
    BY <1>5, <2>1, <2>2 DEF CreateRevision, Deployed
<1>6. CASE PublishSnapshot(r)
  <2>0. /\ req[r].pc = "row" /\ root = req[r].up /\ rev' = rev /\ what' = what
        /\ req[r].n \in Revisions /\ what[req[r].n] = req[r].up
    BY <1>6 DEF PublishSnapshot, Capturing, CaptureOK
  <2>1. CASE Answer(r) /\ UNCHANGED zip
    BY <1>2, <2>0, <2>1
  <2>2. CASE zip' = [zip EXCEPT ![req[r].n] = root] /\ Goto(r, "zip") /\ root' = root
    <3>1. req'[r].pc = "zip" /\ req'[r].n = req[r].n /\ req'[r].up = req[r].up
      BY <2>2, GotoStays
    <3>2. zip'[req[r].n] = req[r].up
      BY <2>0, <2>2 DEF TypeOK
    <3>3. CaptureOK(r)'
      BY <2>0, <2>2, <3>1, <3>2 DEF CaptureOK
    <3>4. SnapshotIsWhatRan'
      BY <2>0, <2>2 DEF SnapshotIsWhatRan, TypeOK
    <3> QED
      BY <2>0, <3>3, <3>4, CaptureHolder
  <2> QED
    BY <1>6, <2>1, <2>2 DEF PublishSnapshot, Deployed
<1>7. CASE SetRevisionValid(r)
  <2>0. /\ req[r].pc = "zip" /\ zip' = zip /\ what' = what
        /\ req[r].n \in Revisions /\ what[req[r].n] = req[r].up
        /\ zip[req[r].n] \in {Absent, req[r].up}
    BY <1>7 DEF SetRevisionValid, Capturing, CaptureOK
  <2>1. CaptureOK(r)'
    BY <1>7, AnswerStays DEF SetRevisionValid, Deployed, CaptureOK
  <2>2. \A m \in Revisions \ {req[r].n} : rev'[m] = rev[m]
    BY <1>7 DEF SetRevisionValid, TypeOK
  <2>3. SnapshotIsWhatRan'
    BY <2>0, <2>2 DEF SnapshotIsWhatRan
  <2> QED
    BY <2>0, <2>1, <2>3, CaptureHolder
<1>8. CASE RemoveSnapshots(r)
  <2>1. CaptureOK(r)'
    BY <1>8, AnswerStays, GotoStays DEF RemoveSnapshots, CaptureOK
  <2>2. SnapshotIsWhatRan'
    BY <1>8 DEF RemoveSnapshots, SnapshotIsWhatRan
  <2> QED
    BY <1>8, <2>1, <2>2, CaptureHolder DEF RemoveSnapshots, At
<1>9. CASE DeleteProject(r)
  <2>1. CaptureOK(r)'
    BY <1>9, AnswerStays DEF DeleteProject, CaptureOK
  <2>2. SnapshotIsWhatRan'
    BY <1>9 DEF DeleteProject, SnapshotIsWhatRan
  <2> QED
    BY <1>9, <2>1, <2>2, CaptureHolder DEF DeleteProject, At
<1>10. CASE handleWriteProjectFile(r) \/ runProjectCompose(r) \/ UpdateProjectSettings(r) \/ mcpDeployProject(r)
  BY <1>2, <1>10 DEF handleWriteProjectFile, runProjectCompose, UpdateProjectSettings, mcpDeployProject, At
<1>11. CASE tearDownOnHost(r) \/ CheckDeployed(r) \/ RemoveFolder(r)
  BY <1>2, <1>3, <1>11 DEF tearDownOnHost, CheckDeployed, RemoveFolder, At
<1>12. CASE handleDeployProject(r) \/ RestoreUp(r)
  BY <1>2, <1>4, <1>12 DEF handleDeployProject, RestoreUp, At
<1>13. CASE StageRevision(r) \/ RefuseRestore(r) \/ SwapOut(r) \/ SwapIn(r)
  BY <1>2, <1>3, <1>13 DEF StageRevision, RefuseRestore, SwapOut, SwapIn, At
<1> QED
  BY <1>1, <1>5, <1>6, <1>7, <1>8, <1>9, <1>10, <1>11, <1>12, <1>13
     DEF Handler, captureRevision, handleDeleteProject, handleRestoreRevision

LEMMA SnapshotStep ==
    TypeOK /\ Capturing /\ SnapshotIsWhatRan /\ [Next]_vars => Capturing' /\ SnapshotIsWhatRan'
<1> SUFFICES ASSUME TypeOK, Capturing, SnapshotIsWhatRan, [Next]_vars
             PROVE  Capturing' /\ SnapshotIsWhatRan'
  OBVIOUS
<1> USE DEF disk, history, bounds
<1>1. ASSUME NEW r \in Requests, NEW kind \in Kinds, loadProject(r, kind)
      PROVE  Capturing' /\ SnapshotIsWhatRan'
  <2>1. root' = root /\ what' = what /\ zip' = zip /\ rev' = rev
    BY <1>1 DEF loadProject
  <2>2. \A q \in Requests \ {r} : req'[q] = req[q]
    BY <1>1 DEF loadProject, TypeOK
  <2> DEFINE next == [Idle EXCEPT !.pc = "loaded", !.kind = kind, !.host = row]
  <2>3. next.pc = "loaded"
    <3>1. /\ Idle \in Handlers /\ "loaded" \in Steps
          /\ kind \in AllKinds \cup {"none"} /\ row \in Hosts \cup {"gone"}
      BY KindsAssumption, BoundsAssumption DEF Idle, Handlers, Steps, TypeOK
    <3> QED
      BY <3>1, HandlerTypes
  <2> HIDE DEF next
  <2>4. req' = [req EXCEPT ![r] = next]
    BY <1>1 DEF loadProject, next
  <2>5. req'[r].pc = "loaded"
    BY <2>3, <2>4 DEF TypeOK
  <2> QED
    BY <2>1, <2>2, <2>5 DEF Capturing, CaptureOK, SnapshotIsWhatRan
<1>2. ASSUME NEW r \in Requests, Handler(r) PROVE Capturing' /\ SnapshotIsWhatRan'
  BY <1>2, SnapshotHandler
<1>3. ASSUME UNCHANGED <<root, what, req>>,
             \A n \in Revisions : rev'[n] \in {"none", rev[n]} /\ zip'[n] \in {Absent, zip[n]}
      PROVE  Capturing' /\ SnapshotIsWhatRan'
  <2>1. SnapshotIsWhatRan'
    BY <1>3 DEF SnapshotIsWhatRan
  <2>2. ASSUME NEW q \in Requests PROVE CaptureOK(q)'
    BY <1>3, <2>2 DEF Capturing, CaptureOK
  <2> QED
    BY <2>1, <2>2 DEF Capturing
<1>4. CASE TrimRevisions
  <2>1. \A n \in Revisions : rev'[n] \in {"none", rev[n]} /\ zip'[n] \in {Absent, zip[n]}
    BY <1>4 DEF TrimRevisions
  <2> QED
    BY <1>3, <1>4, <2>1 DEF TrimRevisions
<1>5. CASE SweepReadsRows \/ SweepRemovesFiles
  <2>1. \A n \in Revisions : rev'[n] \in {"none", rev[n]} /\ zip'[n] \in {Absent, zip[n]}
    BY <1>5 DEF SweepReadsRows, SweepRemovesFiles
  <2> QED
    BY <1>3, <1>5, <2>1 DEF SweepReadsRows, SweepRemovesFiles
<1>6. CASE Crash
  BY <1>6 DEF Crash, Idle, Capturing, CaptureOK, SnapshotIsWhatRan
<1>7. CASE UNCHANGED vars
  BY <1>7 DEF vars, Capturing, CaptureOK, SnapshotIsWhatRan
<1> QED
  BY <1>1, <1>2, <1>4, <1>5, <1>6, <1>7 DEF Next

(***************************************************************************)
(* A snapshot of a valid revision is what its deploy brought up: whatever  *)
(* other requests, retention runs and stops of the process come between    *)
(* ComposeUpFiles and SetRevisionValid (captureRevision).                  *)
(***************************************************************************)
THEOREM SnapshotsMatch == Spec => []SnapshotIsWhatRan
<1>1. Init => TypeOK /\ Capturing /\ SnapshotIsWhatRan
  <2>1. Init => Capturing /\ SnapshotIsWhatRan
    BY DEF Init, Idle, Capturing, CaptureOK, SnapshotIsWhatRan
  <2> QED
    BY <2>1, InitType
<1>2. TypeOK /\ Capturing /\ SnapshotIsWhatRan /\ [Next]_vars
        => (TypeOK /\ Capturing /\ SnapshotIsWhatRan)'
  BY TypeStep, SnapshotStep
<1> QED
  BY <1>1, <1>2, PTL DEF Spec

-----------------------------------------------------------------------------
(* The folder: while the process has not stopped and no delete has begun,   *)
(* what was last answered is in the folder, or in the backup of the restore *)
(* that holds the project between its two renames and its deploy.           *)

FolderOK(r) ==
    /\ req[r].pc \in {"held", "staged", "up", "row", "zip", "torn", "free"} => root = want
    /\ req[r].pc \in {"out", "in"} => backup = want
    /\ req[r].pc \notin {"rootless", "ziplines"}
Folder ==
    Alive /\ crashes = 0 => AnsweredFilesKept /\ \A r \in Requests : FolderOK(r)

LEMMA FolderHolder ==
    ASSUME TypeOK, NEW r \in Requests, Handler(r), req[r].pc # "loaded", FolderOK(r)',
           op' = NoOne => root' = want'
    PROVE  Folder'
<1>1. ASSUME NEW q \in Requests \ {r} PROVE req'[q].pc \in {"idle", "loaded"}
  BY OthersStay, <1>1
<1> QED
  BY <1>1 DEF Folder, FolderOK, AnsweredFilesKept, AtRest

LEMMA FolderHandler ==
    ASSUME TypeOK, Folder, NEW r \in Requests, Handler(r)
    PROVE  Folder'
<1> USE DEF disk, history, bounds
<1> SUFFICES ASSUME Alive', crashes' = 0 PROVE Folder'
  BY DEF Folder
<1>0. Alive /\ crashes = 0
  BY DEF Alive, Handler, beginProjectOp, handleWriteProjectFile, runProjectCompose, tearDownOnHost,
     UpdateProjectSettings, handleDeployProject, mcpDeployProject, captureRevision, CreateRevision,
     PublishSnapshot, SetRevisionValid, handleDeleteProject, CheckDeployed, RemoveFolder,
     RemoveSnapshots, DeleteProject, handleRestoreRevision, StageRevision, RefuseRestore,
     SwapOut, SwapIn, RestoreUp, Fault
<1>1. /\ op = NoOne => root = want
      /\ \A q \in Requests : FolderOK(q)
  BY <1>0 DEF Folder, AnsweredFilesKept, AtRest
<1>2. CASE beginProjectOp(r)
  <2>1. CASE op = NoOne /\ op' = r /\ req' = [req EXCEPT ![r].pc = "held"]
    <3>1. req'[r].pc = "held"
      BY <2>1 DEF TypeOK, Handlers
    <3>2. op' # NoOne
      BY <2>1, LockAssumption
    <3>3. \A q \in Requests : FolderOK(q)'
      BY <1>1, <1>2, <2>1, <3>1, OthersStay DEF FolderOK, beginProjectOp
    <3> QED
      BY <3>2, <3>3 DEF Folder, AnsweredFilesKept, AtRest
  <2>2. CASE op # NoOne /\ req' = [req EXCEPT ![r] = Idle] /\ UNCHANGED op
    <3>1. req'[r].pc = "idle"
      BY <2>2 DEF TypeOK, Idle
    <3>2. \A q \in Requests : FolderOK(q)'
      BY <1>1, <1>2, <2>2, <3>1, OthersStay DEF FolderOK, beginProjectOp
    <3> QED
      BY <2>2, <3>2 DEF Folder, AnsweredFilesKept, AtRest
  <2> QED
    BY <1>2, <2>1, <2>2 DEF beginProjectOp
<1>3. ASSUME Answer(r), req[r].pc # "loaded", root' = want' PROVE Folder'
  <2>1. FolderOK(r)'
    BY <1>3, AnswerStays DEF FolderOK
  <2> QED
    BY <1>3, <2>1, FolderHolder
<1>4. ASSUME NEW pc \in {"torn", "zip", "free", "staged"}, Goto(r, pc), req[r].pc # "loaded", root' = want'
      PROVE  Folder'
  <2>1. FolderOK(r)'
    BY <1>4, GotoStays DEF FolderOK
  <2> QED
    BY <1>4, <2>1, FolderHolder
<1>5. ASSUME NEW pc \in {"out", "in"}, Goto(r, pc), req[r].pc \in {"staged", "out"}, backup' = want'
      PROVE  Folder'
  <2>1. FolderOK(r)'
    BY <1>5, GotoStays DEF FolderOK
  <2>2. op' # NoOne
    BY <1>5, HolderIs, LockAssumption DEF Goto
  <2> QED
    BY <1>5, <2>1, <2>2, FolderHolder
<1>6. ASSUME req[r].pc # "loaded", req'[r].pc \in {"up", "row"}, root' = want'
      PROVE  Folder'
  <2>1. FolderOK(r)'
    BY <1>6 DEF FolderOK
  <2> QED
    BY <1>6, <2>1, FolderHolder
<1>7. CASE handleWriteProjectFile(r) \/ runProjectCompose(r) \/ UpdateProjectSettings(r) \/ mcpDeployProject(r)
  BY <1>1, <1>3, <1>7
     DEF handleWriteProjectFile, runProjectCompose, UpdateProjectSettings, mcpDeployProject, At, FolderOK
<1>8. CASE tearDownOnHost(r) \/ CheckDeployed(r)
  BY <1>1, <1>3, <1>4, <1>8 DEF tearDownOnHost, CheckDeployed, At, FolderOK
<1>9. CASE handleDeployProject(r)
  <2>1. req[r].pc = "held" /\ root' = want'
    BY <1>1, <1>9 DEF handleDeployProject, At, FolderOK
  <2> QED
    BY <1>3, <1>6, <1>9, <2>1, UpStays DEF handleDeployProject
<1>10. CASE CreateRevision(r)
  <2>1. req[r].pc = "up" /\ root' = want'
    BY <1>1, <1>10 DEF CreateRevision, Deployed, FolderOK
  <2> QED
    BY <1>3, <1>6, <1>10, <2>1, RowStays DEF CreateRevision, Deployed
<1>11. CASE PublishSnapshot(r) \/ SetRevisionValid(r)
  BY <1>1, <1>3, <1>4, <1>11 DEF PublishSnapshot, SetRevisionValid, Deployed, FolderOK
<1>12. CASE handleDeleteProject(r) /\ ~CheckDeployed(r)
  BY <1>1, <1>3, <1>12
     DEF handleDeleteProject, RemoveFolder, RemoveSnapshots, DeleteProject, At, FolderOK, Alive
<1>13. CASE StageRevision(r) \/ RefuseRestore(r)
  BY <1>1, <1>3, <1>4, <1>13 DEF StageRevision, RefuseRestore, At, FolderOK
<1>14. CASE SwapOut(r) \/ SwapIn(r)
  BY <1>1, <1>3, <1>5, <1>14 DEF SwapOut, SwapIn, At, FolderOK
<1>15. CASE RestoreUp(r)
  <2>1. req[r].pc = "in" /\ backup = want
    BY <1>1, <1>15 DEF RestoreUp, At, FolderOK
  <2>2. root' = want'
    BY <1>15, <2>1 DEF RestoreUp
  <2> QED
    BY <1>3, <1>6, <1>15, <2>1, <2>2, UpStays DEF RestoreUp
<1> QED
  BY <1>2, <1>7, <1>8, <1>9, <1>10, <1>11, <1>12, <1>13, <1>14, <1>15
     DEF Handler, captureRevision, handleDeleteProject, handleRestoreRevision

LEMMA FolderStep ==
    TypeOK /\ Folder /\ [Next]_vars => Folder'
<1> SUFFICES ASSUME TypeOK, Folder, [Next]_vars PROVE Folder'
  OBVIOUS
<1> USE DEF disk, history, bounds
<1>1. ASSUME NEW r \in Requests, NEW kind \in Kinds, loadProject(r, kind) PROVE Folder'
  <2>1. /\ root' = root /\ backup' = backup /\ want' = want /\ op' = op
        /\ row' = row /\ hurt' = hurt /\ crashes' = crashes
    BY <1>1 DEF loadProject
  <2>2. \A q \in Requests \ {r} : req'[q] = req[q]
    BY <1>1 DEF loadProject, TypeOK
  <2> DEFINE next == [Idle EXCEPT !.pc = "loaded", !.kind = kind, !.host = row]
  <2>3. next.pc = "loaded"
    <3>1. /\ Idle \in Handlers /\ "loaded" \in Steps
          /\ kind \in AllKinds \cup {"none"} /\ row \in Hosts \cup {"gone"}
      BY KindsAssumption, BoundsAssumption DEF Idle, Handlers, Steps, TypeOK
    <3> QED
      BY <3>1, HandlerTypes
  <2> HIDE DEF next
  <2>4. req' = [req EXCEPT ![r] = next]
    BY <1>1 DEF loadProject, next
  <2>5. req'[r].pc = "loaded"
    BY <2>3, <2>4 DEF TypeOK
  <2> QED
    BY <2>1, <2>2, <2>5 DEF Folder, FolderOK, AnsweredFilesKept, AtRest, Alive
<1>2. ASSUME NEW r \in Requests, Handler(r) PROVE Folder'
  BY <1>2, FolderHandler
<1>3. CASE TrimRevisions \/ SweepReadsRows \/ SweepRemovesFiles \/ UNCHANGED vars
  <2>1. /\ root' = root /\ backup' = backup /\ want' = want /\ op' = op /\ req' = req
        /\ row' = row /\ hurt' = hurt /\ crashes' = crashes
    BY <1>3 DEF TrimRevisions, SweepReadsRows, SweepRemovesFiles, vars, Fault
  <2> QED
    BY <2>1 DEF Folder, FolderOK, AnsweredFilesKept, AtRest, Alive
<1>4. CASE Crash
  BY <1>4 DEF Crash, Folder, TypeOK
<1> QED
  BY <1>1, <1>2, <1>3, <1>4 DEF Next

(***************************************************************************)
(* A failed restore, at whichever step (handleRestoreRevision's deferred   *)
(* functions), puts the folder back, and no operation that shares the lock *)
(* throws an answered save away.                                           *)
(***************************************************************************)
THEOREM FilesKept == Spec => []AnsweredFilesKept
<1>1. Init => TypeOK /\ Folder
  <2>1. Init => Folder
    BY DEF Init, Idle, Folder, FolderOK, AnsweredFilesKept
  <2> QED
    BY <2>1, InitType
<1>2. TypeOK /\ Folder /\ [Next]_vars => (TypeOK /\ Folder)'
  BY TypeStep, FolderStep
<1>3. Folder => AnsweredFilesKept
  BY DEF Folder, AnsweredFilesKept
<1> QED
  BY <1>1, <1>2, <1>3, PTL DEF Spec

(* Snapshots are what ran, and the folder is what was answered.             *)
THEOREM FilesAreHeld == Spec => []FilesHold
  BY SnapshotsMatch, FilesKept, PTL DEF FilesHold

-----------------------------------------------------------------------------
(* The newest revision.                                                     *)

(* A set of numbers below a bound has a greatest one: the least upper bound *)
(* is in it.                                                                *)
LEMMA Greatest ==
    ASSUME NEW N \in Nat, NEW X \in SUBSET (0 .. N), X # {}
    PROVE  Max(X) \in X /\ \A y \in X : y <= Max(X)
<1> DEFINE U == {u \in Nat : \A y \in X : y <= u}
<1>1. N \in U
  OBVIOUS
<1>2. PICK u \in U : \A v \in U : ~(<<v, u>> \in OpToRel(<, Nat))
  <2>1. U \subseteq Nat /\ U # {}
    BY <1>1
  <2> HIDE DEF U
  <2> QED
    BY <2>1, WFMin, NatLessThanWellFounded
<1>3. \A v \in U : ~(v < u)
  BY <1>2 DEF OpToRel
<1>4. u \in Nat /\ \A y \in X : y <= u
  BY <1>2, Zenon
<1>5. ASSUME u \notin X PROVE FALSE
  <2>1. PICK x \in X : TRUE
    OBVIOUS
  <2>2. \A y \in X : y \in Nat /\ y < u
    BY <1>4, <1>5
  <2>3. u - 1 \in Nat /\ \A y \in X : y <= u - 1
    BY <2>1, <2>2, <1>4
  <2>4. u - 1 \in U
    BY <2>3
  <2> QED
    BY <2>4, <1>3, <1>4
<1> QED
  BY <1>4, <1>5 DEF Max

Last(f) == Max({n \in Revisions : f[n] # "none"} \cup {0})

LEMMA LastIs ==
    ASSUME NEW f
    PROVE  /\ Last(f) \in 0..MaxRevisions
           /\ Last(f) # 0 => Last(f) \in Revisions /\ f[Last(f)] # "none"
           /\ \A n \in Revisions : f[n] # "none" => n <= Last(f)
<1> DEFINE X == {n \in Revisions : f[n] # "none"} \cup {0}
<1>1. MaxRevisions \in Nat /\ X \in SUBSET (0..MaxRevisions) /\ X # {}
  BY BoundsAssumption DEF Revisions
<1>2. Max(X) \in X /\ \A y \in X : y <= Max(X)
  <2> HIDE DEF X
  <2> QED
    BY <1>1, Greatest
<1>3. Max(X) \in 0..MaxRevisions
  BY <1>1, <1>2
<1> QED
  BY <1>2, <1>3 DEF Last

(* The newest revision is another only if rows of revisions come or go.     *)
LEMMA SameLast ==
    ASSUME NEW f, NEW g, \A n \in Revisions : f[n] = "none" <=> g[n] = "none"
    PROVE  Last(f) = Last(g)
<1>1. {n \in Revisions : f[n] # "none"} = {n \in Revisions : g[n] # "none"}
  OBVIOUS
<1> QED
  BY <1>1 DEF Last

(* TrimRevisions keeps the newest revision.                                 *)
LEMMA TrimKeepsLast ==
    ASSUME TrimRevisions
    PROVE  Last(rev') = Last(rev)
<1> DEFINE last == Last(rev)
           next == Last(rev')
<1>1. /\ last \in 0..MaxRevisions
      /\ last # 0 => last \in Revisions /\ rev[last] # "none"
      /\ \A n \in Revisions : rev[n] # "none" => n <= last
  BY LastIs
<1>2. /\ next \in 0..MaxRevisions
      /\ next # 0 => next \in Revisions /\ rev'[next] # "none"
      /\ \A n \in Revisions : rev'[n] # "none" => n <= next
  BY LastIs
<1> HIDE DEF last, next
<1>3. last # 0 => Newer(last) = {}
  BY <1>1 DEF Newer, Revisions
<1>4. last # 0 => ~(Cardinality(Newer(last)) >= Keep)
  BY <1>3, FS_EmptySet, BoundsAssumption
<1>5. \A n \in Revisions : rev'[n] # rev[n] => rev'[n] = "none" /\ Cardinality(Newer(n)) >= Keep
  BY DEF TrimRevisions
<1>6. last # 0 => rev'[last] # "none"
  BY <1>1, <1>4, <1>5
<1>7. last <= next
  BY <1>1, <1>2, <1>6
<1>8. next <= last
  BY <1>1, <1>2, <1>5
<1>9. last = next
  BY <1>1, <1>2, <1>7, <1>8
<1> QED
  BY <1>9 DEF last, next

-----------------------------------------------------------------------------
(* Numbers: until a delete has begun, no revision made is newer than the    *)
(* newest one kept, so that the next number is a new one.                   *)

Removing == \A r \in Requests : req[r].pc \in {"rootless", "ziplines"} => hurt
Numbers == ~hurt => \A n \in Revisions : what[n] # Absent => n <= Last(rev)

(* The rows of revisions that a handler makes or deletes.                   *)
LEMMA RowsMade ==
    ASSUME TypeOK, Removing, NEW r \in Requests, Handler(r)
    PROVE  \/ /\ what' = what
              /\ hurt' \/ \A n \in Revisions : rev[n] = "none" <=> rev'[n] = "none"
           \/ /\ NextRevision \in Revisions /\ req[r].pc = "up" /\ UNCHANGED <<row, running, hurt>>
              /\ rev' = [rev EXCEPT ![NextRevision] = "pending"]
              /\ what' = [what EXCEPT ![NextRevision] = req[r].up]
<1> USE DEF history, disk, bounds
<1>1. CASE CreateRevision(r)
  BY <1>1 DEF CreateRevision
<1>2. CASE SetRevisionValid(r)
  <2>1. what' = what
    BY <1>2 DEF SetRevisionValid
  <2>2. \A n \in Revisions : rev[n] = "none" <=> rev'[n] = "none"
    BY <1>2 DEF SetRevisionValid, TypeOK
  <2> QED
    BY <2>1, <2>2
<1>3. CASE DeleteProject(r)
  BY <1>3 DEF DeleteProject, At, Removing
<1>4. CASE rev' = rev /\ what' = what
  BY <1>4
<1> QED
  BY <1>1, <1>2, <1>3, <1>4
     DEF Handler, beginProjectOp, handleWriteProjectFile, runProjectCompose, tearDownOnHost,
     UpdateProjectSettings, handleDeployProject, mcpDeployProject, captureRevision,
     PublishSnapshot, handleDeleteProject, CheckDeployed, RemoveFolder,
     RemoveSnapshots, handleRestoreRevision, StageRevision, RefuseRestore,
     SwapOut, SwapIn, RestoreUp

LEMMA RemovingKept ==
    ASSUME TypeOK, Removing, [Next]_vars
    PROVE  Removing' /\ (hurt => hurt')
<1> USE DEF history, disk, bounds
<1>1. hurt => hurt'
  BY DEF Next, loadProject, TrimRevisions, SweepReadsRows, SweepRemovesFiles, Crash, vars,
     Handler, beginProjectOp, handleWriteProjectFile, runProjectCompose, tearDownOnHost,
     UpdateProjectSettings, handleDeployProject, mcpDeployProject, captureRevision, CreateRevision,
     PublishSnapshot, SetRevisionValid, handleDeleteProject, CheckDeployed, RemoveFolder,
     RemoveSnapshots, DeleteProject, handleRestoreRevision, StageRevision, RefuseRestore,
     SwapOut, SwapIn, RestoreUp
<1>2. ASSUME NEW r \in Requests, Handler(r) PROVE Removing'
  <2>1. req'[r].pc \in {"rootless", "ziplines"} => hurt'
    <3>1. CASE RemoveFolder(r)
      BY <3>1, AnswerStays DEF RemoveFolder
    <3>2. CASE RemoveSnapshots(r)
      BY <3>2, <1>1 DEF RemoveSnapshots, At, Removing
    <3>3. CASE beginProjectOp(r)
      BY <3>3 DEF beginProjectOp, TypeOK, Handlers, Idle
    <3>4. CASE CreateRevision(r)
      BY <3>4, AnswerStays, RowStays DEF CreateRevision, Deployed
    <3>5. CASE handleDeployProject(r) \/ RestoreUp(r)
      BY <3>5, AnswerStays, UpStays DEF handleDeployProject, RestoreUp
    <3>6. CASE Answer(r) \/ \E pc \in {"torn", "zip", "free", "staged", "out", "in"} : Goto(r, pc)
      BY <3>6, AnswerStays, GotoStays
    <3> QED
      BY <1>2, <3>1, <3>2, <3>3, <3>4, <3>5, <3>6
         DEF Handler, handleWriteProjectFile, runProjectCompose, tearDownOnHost,
         UpdateProjectSettings, mcpDeployProject, captureRevision, Deployed,
         PublishSnapshot, SetRevisionValid, handleDeleteProject, CheckDeployed,
         DeleteProject, handleRestoreRevision, StageRevision, RefuseRestore, SwapOut, SwapIn
  <2> QED
    BY <1>1, <1>2, <2>1, OthersStay DEF Removing
<1>3. ASSUME NEW r \in Requests, NEW kind \in Kinds, loadProject(r, kind) PROVE Removing'
  BY <1>1, <1>3, Loaded DEF Removing
<1>4. CASE Crash
  BY <1>4 DEF Crash, Removing, Idle
<1>5. CASE req' = req
  BY <1>1, <1>5 DEF Removing
<1>6. CASE TrimRevisions \/ SweepReadsRows \/ SweepRemovesFiles \/ UNCHANGED vars
  BY <1>5, <1>6 DEF TrimRevisions, SweepReadsRows, SweepRemovesFiles, vars
<1> QED
  BY <1>1, <1>2, <1>3, <1>4, <1>6 DEF Next

LEMMA NumbersKept ==
    ASSUME TypeOK, Removing, Numbers, [Next]_vars
    PROVE  Numbers'
<1> USE DEF history, disk, bounds
<1> SUFFICES ASSUME ~hurt' PROVE \A n \in Revisions : what'[n] # Absent => n <= Last(rev')
  BY DEF Numbers
<1>1. ~hurt /\ \A n \in Revisions : what[n] # Absent => n <= Last(rev)
  BY RemovingKept DEF Numbers
<1>2. CASE what' = what /\ Last(rev') = Last(rev)
  BY <1>1, <1>2
<1>3. CASE what' = what /\ \A n \in Revisions : rev[n] = "none" <=> rev'[n] = "none"
  BY <1>1, <1>3, SameLast
<1>4. CASE /\ NextRevision \in Revisions /\ rev' = [rev EXCEPT ![NextRevision] = "pending"]
           /\ \E c : what' = [what EXCEPT ![NextRevision] = c]
  <2>1. PICK m : m = NextRevision
    OBVIOUS
  <2>2. m \in Revisions /\ m = Last(rev) + 1 /\ rev'[m] # "none"
    BY <1>4, <2>1 DEF NextRevision, Last, TypeOK
  <2>3. Last(rev) \in Nat /\ Last(rev') \in Nat /\ m <= Last(rev')
    BY <2>2, LastIs
  <2>4. \A n \in Revisions : n # m => what'[n] = what[n]
    BY <1>4, <2>1 DEF TypeOK
  <2> QED
    BY <1>1, <2>2, <2>3, <2>4 DEF Revisions
<1>5. ASSUME NEW r \in Requests, Handler(r) PROVE \A n \in Revisions : what'[n] # Absent => n <= Last(rev')
  BY <1>3, <1>4, <1>5, RowsMade
<1>6. CASE TrimRevisions
  BY <1>2, <1>6, TrimKeepsLast DEF TrimRevisions
<1> QED
  BY <1>2, <1>5, <1>6 DEF Next, loadProject, SweepReadsRows, SweepRemovesFiles, Crash, vars

(***************************************************************************)
(* docs/projects.md:225, "history only grows forward": CreateRevision      *)
(* numbers a revision one past the newest kept, and neither retention, a   *)
(* failed capture nor a stop of the process makes that a number used       *)
(* before; only a delete that has begun can.                               *)
(***************************************************************************)
THEOREM HistoryGrows == Spec => HistoryOnlyGrows
<1> DEFINE Given == \A n \in Revisions : ~hurt /\ what[n] # Absent => ~(rev[n] = "none" /\ rev'[n] = "pending")
<1>1. Init => TypeOK /\ Removing /\ Numbers
  BY InitType DEF Init, Idle, Removing, Numbers
<1>2. TypeOK /\ Removing /\ Numbers /\ [Next]_vars => (TypeOK /\ Removing /\ Numbers)'
  BY TypeStep, RemovingKept, NumbersKept
<1>3. TypeOK /\ Removing /\ Numbers /\ [Next]_vars => [Given]_vars
  <2> SUFFICES ASSUME TypeOK, Removing, Numbers, [Next]_vars, NEW n \in Revisions,
                      ~hurt, what[n] # Absent, rev[n] = "none", rev'[n] = "pending"
               PROVE  FALSE
    OBVIOUS
  <2> USE DEF history, disk, bounds
  <2>1. n <= Last(rev)
    BY DEF Numbers
  <2>2. PICK r \in Requests : Handler(r)
    BY DEF Next, loadProject, TrimRevisions, SweepReadsRows, SweepRemovesFiles, Crash, vars
  <2>3. n # NextRevision
    BY <2>1, LastIs DEF NextRevision, Last, Revisions
  <2>4. rev'[n] \in {"none", rev[n], "valid"}
    BY <2>2, <2>3
       DEF TypeOK, Handler, beginProjectOp, handleWriteProjectFile, runProjectCompose, tearDownOnHost,
       UpdateProjectSettings, handleDeployProject, mcpDeployProject, captureRevision, CreateRevision,
       PublishSnapshot, SetRevisionValid, handleDeleteProject, CheckDeployed, RemoveFolder,
       RemoveSnapshots, DeleteProject, handleRestoreRevision, StageRevision, RefuseRestore,
       SwapOut, SwapIn, RestoreUp
  <2> QED
    BY <2>4
<1> QED
  BY <1>1, <1>2, <1>3, PTL DEF Spec, HistoryOnlyGrows

-----------------------------------------------------------------------------
(* Deploys: without faults and stops of the process, and without the two    *)
(* operations that have no revision or move the project, what runs on the   *)
(* project's host is what the newest revision brought up, or is being       *)
(* recorded by the request that holds the project.                          *)

Recording == Kinds \subseteq AllKinds \ {"mcpdeploy", "settings"}

Sound == Alive /\ faults = 0 /\ crashes = 0

RequestsAreHere ==
    \A r \in Requests : /\ req[r].kind \in Kinds \cup {"none"}
                        /\ req[r].pc # "idle" /\ row # "gone" => req[r].host = row

NewestIs(c) == Last(rev) # 0 /\ what[Last(rev)] = c

Recorded ==
    Sound =>
        /\ \A r \in Requests : req[r].pc = "up" => req[r].up = running[row]
        /\ (\A r \in Requests : req[r].pc # "up") /\ running[row] \in Contents => NewestIs(running[row])

(* A handler keeps the operation and the host it was made for.              *)
LEMMA HandlerKeeps ==
    ASSUME TypeOK, NEW r \in Requests, Handler(r)
    PROVE  req'[r] = Idle \/ (req'[r].kind = req[r].kind /\ req'[r].host = req[r].host)
<1>1. ASSUME NEW pc, req' = [req EXCEPT ![r].pc = pc]
      PROVE  req'[r].kind = req[r].kind /\ req'[r].host = req[r].host
  BY <1>1 DEF TypeOK, Handlers
<1>2. ASSUME NEW pc, NEW c, req' = [req EXCEPT ![r].pc = pc, ![r].up = c]
      PROVE  req'[r].kind = req[r].kind /\ req'[r].host = req[r].host
  BY <1>2 DEF TypeOK, Handlers
<1>3. ASSUME NEW pc, NEW n, req' = [req EXCEPT ![r].pc = pc, ![r].n = n]
      PROVE  req'[r].kind = req[r].kind /\ req'[r].host = req[r].host
  BY <1>3 DEF TypeOK, Handlers
<1>4. ASSUME req' = [req EXCEPT ![r] = Idle] PROVE req'[r] = Idle
  BY <1>4 DEF TypeOK
<1> QED
  BY <1>1, <1>2, <1>3, <1>4
     DEF Handler, beginProjectOp, handleWriteProjectFile, runProjectCompose, tearDownOnHost,
     UpdateProjectSettings, handleDeployProject, mcpDeployProject, captureRevision, CreateRevision,
     PublishSnapshot, SetRevisionValid, handleDeleteProject, CheckDeployed, RemoveFolder,
     RemoveSnapshots, DeleteProject, handleRestoreRevision, StageRevision, RefuseRestore,
     SwapOut, SwapIn, RestoreUp, Deployed, Goto, Answer

LEMMA RequestsStayHere ==
    ASSUME Recording, TypeOK, RequestsAreHere, [Next]_vars
    PROVE  RequestsAreHere' /\ (row' = row \/ row' = "gone")
<1> USE DEF history, disk, bounds
<1>1. row' = row \/ row' = "gone"
  <2>1. ASSUME NEW r \in Requests PROVE ~UpdateProjectSettings(r)
    BY DEF Recording, RequestsAreHere, UpdateProjectSettings, At
  <2> QED
    BY <2>1 DEF Next, loadProject, TrimRevisions, SweepReadsRows, SweepRemovesFiles, Crash, vars,
     Handler, beginProjectOp, handleWriteProjectFile, runProjectCompose, tearDownOnHost,
     handleDeployProject, mcpDeployProject, captureRevision, CreateRevision,
     PublishSnapshot, SetRevisionValid, handleDeleteProject, CheckDeployed, RemoveFolder,
     RemoveSnapshots, DeleteProject, handleRestoreRevision, StageRevision, RefuseRestore,
     SwapOut, SwapIn, RestoreUp
<1>2. ASSUME NEW r \in Requests, Handler(r) PROVE RequestsAreHere'
  <2>1. req[r].pc # "idle"
    BY <1>2 DEF Handler, beginProjectOp, handleWriteProjectFile, runProjectCompose, tearDownOnHost,
     UpdateProjectSettings, handleDeployProject, mcpDeployProject, captureRevision, CreateRevision,
     PublishSnapshot, SetRevisionValid, handleDeleteProject, CheckDeployed, RemoveFolder,
     RemoveSnapshots, DeleteProject, handleRestoreRevision, StageRevision, RefuseRestore,
     SwapOut, SwapIn, RestoreUp, At
  <2>2. Idle.pc = "idle" /\ Idle.kind = "none"
    BY DEF Idle
  <2> QED
    BY <1>1, <1>2, <2>1, <2>2, HandlerKeeps, OthersStay DEF RequestsAreHere
<1>3. ASSUME NEW r \in Requests, NEW kind \in Kinds, loadProject(r, kind) PROVE RequestsAreHere'
  <2>1. row' = row
    BY <1>3 DEF loadProject
  <2> QED
    BY <1>3, <2>1, Loaded DEF RequestsAreHere
<1>4. CASE Crash
  BY <1>4 DEF Crash, RequestsAreHere, Idle
<1>5. CASE TrimRevisions \/ SweepReadsRows \/ SweepRemovesFiles \/ UNCHANGED vars
  BY <1>5 DEF TrimRevisions, SweepReadsRows, SweepRemovesFiles, vars, RequestsAreHere
<1> QED
  BY <1>1, <1>2, <1>3, <1>4, <1>5 DEF Next

(* A sound state comes from a sound one.                                    *)
LEMMA SoundBefore ==
    ASSUME Recording, TypeOK, Removing, RequestsAreHere, [Next]_vars, Sound'
    PROVE  Sound /\ row' = row /\ row \in Hosts /\ faults' = 0 /\ ~Crash
<1> USE DEF history, disk, bounds
<1>1. row' = row
  BY RequestsStayHere DEF Sound, Alive
<1>2. ~hurt
  BY RemovingKept DEF Sound, Alive
<1>3. ~Crash /\ crashes = 0
  <2>1. crashes \in Nat /\ crashes' = 0
    BY BoundsAssumption DEF Sound, TypeOK
  <2>2. crashes' = crashes \/ crashes' = crashes + 1
    BY DEF Next, loadProject, TrimRevisions, SweepReadsRows, SweepRemovesFiles, Crash, vars,
     Handler, beginProjectOp, handleWriteProjectFile, runProjectCompose, tearDownOnHost,
     UpdateProjectSettings, handleDeployProject, mcpDeployProject, captureRevision, CreateRevision,
     PublishSnapshot, SetRevisionValid, handleDeleteProject, CheckDeployed, RemoveFolder,
     RemoveSnapshots, DeleteProject, handleRestoreRevision, StageRevision, RefuseRestore,
     SwapOut, SwapIn, RestoreUp, Fault
  <2> QED
    BY <2>1, <2>2 DEF Crash
<1>4. faults = 0
  <2>1. faults \in Nat /\ faults' = 0
    BY BoundsAssumption DEF Sound, TypeOK
  <2>2. faults' = faults \/ faults' = faults + 1
    BY DEF Next, loadProject, TrimRevisions, SweepReadsRows, SweepRemovesFiles, Crash, vars,
     Handler, beginProjectOp, handleWriteProjectFile, runProjectCompose, tearDownOnHost,
     UpdateProjectSettings, handleDeployProject, mcpDeployProject, captureRevision, CreateRevision,
     PublishSnapshot, SetRevisionValid, handleDeleteProject, CheckDeployed, RemoveFolder,
     RemoveSnapshots, DeleteProject, handleRestoreRevision, StageRevision, RefuseRestore,
     SwapOut, SwapIn, RestoreUp, Fault
  <2> QED
    BY <2>1, <2>2
<1> QED
  BY <1>1, <1>2, <1>3, <1>4 DEF Sound, Alive, TypeOK

(* A handler's step keeps the record, by what it does to the stack on the   *)
(* project's host and to the revisions.                                     *)
LEMMA RecordedHandler ==
    ASSUME Recording, TypeOK, Removing, RequestsAreHere, Recorded, NEW r \in Requests, Handler(r)
    PROVE  Recorded'
<1> USE DEF history, disk, bounds
<1> SUFFICES ASSUME Sound'
             PROVE  /\ \A q \in Requests : req'[q].pc = "up" => req'[q].up = running'[row]
                    /\ (\A q \in Requests : req'[q].pc # "up") /\ running'[row] \in Contents
                         => NewestIs(running[row])'
  <2>1. Sound' => row' = row
    BY SoundBefore DEF Next
  <2> QED
    BY <2>1 DEF Recorded
<1>0. /\ Sound /\ row' = row /\ row \in Hosts /\ faults' = 0 /\ [Next]_vars
      /\ \A q \in Requests : req[q].pc = "up" => req[q].up = running[row]
      /\ (\A q \in Requests : req[q].pc # "up") /\ running[row] \in Contents => NewestIs(running[row])
  BY SoundBefore DEF Next, Recorded
<1>1. ASSUME req[r].pc # "loaded" PROVE \A q \in Requests \ {r} : req'[q].pc # "up" /\ req[q].pc # "up"
  BY <1>1, OthersStay
<1>2. req[r].host = row \/ req[r].pc = "idle"
  BY <1>0 DEF RequestsAreHere, Sound, Alive
(* The newest revision stays.                                               *)
<1>3. ASSUME what' = what, \A n \in Revisions : rev[n] = "none" <=> rev'[n] = "none",
             NEW c, NewestIs(c)
      PROVE  NewestIs(c)'
  BY <1>3, SameLast DEF NewestIs
<1>4. CASE beginProjectOp(r)
  <2>1. UNCHANGED <<running, rev, what>>
    BY <1>4 DEF beginProjectOp
  <2>2. req[r].pc = "loaded" /\ req'[r].pc # "up"
    BY <1>4 DEF beginProjectOp, TypeOK, Handlers, Idle
  <2>3. \A q \in Requests : (req'[q].pc = "up" <=> req[q].pc = "up") /\ (req'[q].pc = "up" => req'[q] = req[q])
    BY <2>2, OthersStay
  <2> QED
    BY <1>0, <2>1, <2>3 DEF NewestIs
(* The stack is as it was, or no longer of one content.                     *)
<1>5. ASSUME req[r].pc \notin {"loaded", "up"}, req'[r].pc # "up", what' = what,
             \A n \in Revisions : rev[n] = "none" <=> rev'[n] = "none",
             running'[row] \in {running[row], Absent, Mixed}
      PROVE  /\ \A q \in Requests : req'[q].pc # "up"
             /\ running'[row] \in Contents => NewestIs(running[row])'
  <2>1. \A q \in Requests : req'[q].pc # "up" /\ req[q].pc # "up"
    BY <1>1, <1>5
  <2>2. running'[row] \in Contents => running'[row] = running[row]
    BY <1>5, ContentTypes
  <2>3. running'[row] \in Contents => NewestIs(running[row])
    BY <1>0, <2>1, <2>2
  <2> QED
    BY <1>0, <1>3, <1>5, <2>1, <2>2, <2>3
(* compose up: the request records what it brought up.                      *)
<1>6. ASSUME req[r].pc \notin {"loaded", "idle"}, Up(r), req' = [req EXCEPT ![r].pc = "up", ![r].up = root]
      PROVE  /\ \A q \in Requests : req'[q].pc = "up" => req'[q].up = running'[row]
             /\ ~\A q \in Requests : req'[q].pc # "up"
  <2>1. req'[r].pc = "up" /\ req'[r].up = root
    BY <1>6, UpStays
  <2>2. running'[row] = root
    BY <1>0, <1>2, <1>6 DEF Up, TypeOK
  <2> QED
    BY <1>1, <1>6, <2>1, <2>2
<1>7. CASE CreateRevision(r)
  <2>1. req[r].pc = "up" /\ running' = running /\ ~Fault
    BY <1>0, <1>7 DEF CreateRevision, Fault, Sound
  <2>2. PICK m : m = NextRevision
    OBVIOUS
  <2>3. /\ m \in Revisions /\ rev' = [rev EXCEPT ![m] = "pending"]
        /\ what' = [what EXCEPT ![m] = req[r].up]
        /\ req' = [req EXCEPT ![r].pc = "row", ![r].n = m]
    BY <1>7, <2>1, <2>2 DEF CreateRevision
  <2>4. \A q \in Requests : req'[q].pc # "up"
    BY <1>1, <2>1, <2>3, RowStays
  <2>5. Last(rev') = m
    <3>1. /\ Last(rev) \in Nat /\ m = Last(rev) + 1
          /\ \A n \in Revisions : rev[n] # "none" => n <= Last(rev)
      BY <2>2, LastIs DEF NextRevision, Last
    <3>2. /\ Last(rev') \in Nat /\ m <= Last(rev')
          /\ Last(rev') # 0 => Last(rev') \in Revisions /\ rev'[Last(rev')] # "none"
      <4>1. rev'[m] # "none"
        BY <2>3 DEF TypeOK
      <4>2. Last(rev') \in 0..MaxRevisions
        BY LastIs
      <4>3. /\ Last(rev') # 0 => Last(rev') \in Revisions /\ rev'[Last(rev')] # "none"
            /\ \A n \in Revisions : rev'[n] # "none" => n <= Last(rev')
        BY LastIs
      <4>4. m <= Last(rev')
        BY <2>3, <4>1, <4>3
      <4>5. Last(rev') \in Nat
        BY <4>2, BoundsAssumption
      <4> QED
        BY <4>3, <4>4, <4>5
    <3>3. Last(rev') # m => rev[Last(rev')] # "none" /\ Last(rev') \in Revisions
      BY <2>3, <3>1, <3>2 DEF TypeOK
    <3> QED
      BY <3>1, <3>2, <3>3
  <2>6. what'[m] = running[row] /\ m # 0
    BY <1>0, <2>1, <2>3 DEF TypeOK, Revisions
  <2> QED
    BY <1>0, <2>1, <2>4, <2>5, <2>6 DEF NewestIs
<1>8. CASE handleWriteProjectFile(r) \/ RemoveFolder(r) \/ RemoveSnapshots(r) \/ PublishSnapshot(r)
  <2>1. UNCHANGED <<running, rev, what>> /\ req[r].pc \notin {"loaded", "up"}
    BY <1>8 DEF handleWriteProjectFile, RemoveFolder, RemoveSnapshots, PublishSnapshot, At
  <2>2. req'[r].pc # "up"
    BY <1>8, AnswerStays, GotoStays
       DEF handleWriteProjectFile, RemoveFolder, RemoveSnapshots, PublishSnapshot, Deployed
  <2> QED
    BY <1>5, <2>1, <2>2
<1>9. CASE StageRevision(r) \/ RefuseRestore(r) \/ SwapOut(r) \/ SwapIn(r)
  <2>1. UNCHANGED <<running, rev, what>> /\ req[r].pc \notin {"loaded", "up"}
    BY <1>9 DEF StageRevision, RefuseRestore, SwapOut, SwapIn, At
  <2>2. req'[r].pc # "up"
    BY <1>9, AnswerStays, GotoStays DEF StageRevision, RefuseRestore, SwapOut, SwapIn
  <2> QED
    BY <1>5, <2>1, <2>2
<1>10. CASE runProjectCompose(r) \/ CheckDeployed(r)
  <2>1. UNCHANGED <<rev, what>> /\ req[r].pc \notin {"loaded", "up"}
    BY <1>10 DEF runProjectCompose, CheckDeployed, At
  <2>2. req'[r].pc # "up"
    BY <1>10, AnswerStays, GotoStays DEF runProjectCompose, CheckDeployed
  <2>3. running'[row] \in {running[row], Absent}
    BY <1>0, <1>10 DEF runProjectCompose, CheckDeployed, ComposeDown, TypeOK
  <2> QED
    BY <1>5, <2>1, <2>2, <2>3
<1>11. CASE handleDeployProject(r) \/ RestoreUp(r)
  <2>1. UNCHANGED <<rev, what>> /\ req[r].pc \notin {"loaded", "up", "idle"}
    BY <1>11 DEF handleDeployProject, RestoreUp, At
  <2>2. CASE UpFails(r) /\ Answer(r)
    <3>1. running'[row] \in {running[row], Mixed}
      BY <1>0, <2>2 DEF UpFails, TypeOK
    <3> QED
      BY <1>5, <2>1, <2>2, <3>1, AnswerStays
  <2>3. CASE Up(r) /\ req' = [req EXCEPT ![r].pc = "up", ![r].up = root]
    BY <1>6, <2>1, <2>3
  <2> QED
    BY <1>11, <2>2, <2>3 DEF handleDeployProject, RestoreUp
<1>12. CASE SetRevisionValid(r)
  <2>1. /\ running' = running /\ what' = what /\ req[r].pc = "zip"
        /\ \A n \in Revisions : rev[n] = "none" <=> rev'[n] = "none"
    BY <1>12 DEF SetRevisionValid, TypeOK
  <2>2. req'[r].pc # "up"
    BY <1>12, AnswerStays DEF SetRevisionValid, Deployed
  <2> QED
    BY <1>5, <2>1, <2>2
(* The delete is past its point of no return, and the others are excluded.  *)
<1>13. ~DeleteProject(r) /\ ~tearDownOnHost(r) /\ ~UpdateProjectSettings(r) /\ ~mcpDeployProject(r)
  <2>1. ~DeleteProject(r)
    BY <1>0 DEF DeleteProject, At, Removing, Sound, Alive
  <2>2. req[r].kind \notin {"mcpdeploy", "settings"}
    BY DEF RequestsAreHere, Recording
  <2> QED
    BY <2>1, <2>2 DEF tearDownOnHost, UpdateProjectSettings, mcpDeployProject, At
<1> QED
  BY <1>4, <1>7, <1>8, <1>9, <1>10, <1>11, <1>12, <1>13
     DEF Handler, captureRevision, handleDeleteProject, handleRestoreRevision

LEMMA RecordedStep ==
    ASSUME Recording, TypeOK, Removing, RequestsAreHere, Recorded, [Next]_vars
    PROVE  Recorded'
<1> USE DEF history, disk, bounds
<1>1. ASSUME NEW r \in Requests, Handler(r) PROVE Recorded'
  BY <1>1, RecordedHandler
<1> SUFFICES ASSUME Sound', ~\E r \in Requests : Handler(r) PROVE Recorded'
  BY <1>1 DEF Recorded
<1>2. Sound /\ row' = row /\ ~Crash
  BY SoundBefore
<1>3. UNCHANGED <<running, what>> /\ Last(rev') = Last(rev)
  <2>1. CASE TrimRevisions
    BY <2>1, TrimKeepsLast DEF TrimRevisions
  <2> QED
    BY <1>2, <2>1 DEF Next, loadProject, SweepReadsRows, SweepRemovesFiles, vars
<1>4. \A q \in Requests : (req'[q].pc = "up" <=> req[q].pc = "up") /\ (req'[q].pc = "up" => req'[q] = req[q])
  <2>1. ASSUME NEW r \in Requests, NEW kind \in Kinds, loadProject(r, kind)
        PROVE  \A q \in Requests : /\ req'[q].pc = "up" <=> req[q].pc = "up"
                                   /\ req'[q].pc = "up" => req'[q] = req[q]
    <3>1. req[r].pc = "idle" /\ req'[r].pc = "loaded"
      BY <2>1, Loaded DEF loadProject
    <3> QED
      BY <2>1, <3>1, Loaded
  <2>2. CASE TrimRevisions \/ SweepReadsRows \/ SweepRemovesFiles \/ UNCHANGED vars
    BY <2>2 DEF TrimRevisions, SweepReadsRows, SweepRemovesFiles, vars
  <2> QED
    BY <1>2, <2>1, <2>2 DEF Next
<1> QED
  BY <1>2, <1>3, <1>4 DEF Recorded, NewestIs

(***************************************************************************)
(* docs/projects.md:193, "Every successful deploy as a revision": where    *)
(* projects are not deployed through MCP and stay on their host, without   *)
(* faults and stops of the process what runs when nobody holds the project *)
(* is what its newest revision brought up, whatever saves, restores,       *)
(* downs, deletes and retention runs came between.                         *)
(***************************************************************************)
THEOREM DeploysAreRecorded ==
    ASSUME Recording
    PROVE  Spec => []EveryDeployIsRecorded
<1> DEFINE Inv == TypeOK /\ Removing /\ RequestsAreHere /\ Recorded
<1>1. Init => Inv
  <2>1. Init => Removing /\ RequestsAreHere
    BY DEF Init, Idle, Removing, RequestsAreHere
  <2>2. Init => Recorded
    BY ContentTypes DEF Init, Idle, Recorded
  <2> QED
    BY <2>1, <2>2, InitType
<1>2. Inv /\ [Next]_vars => Inv'
  BY TypeStep, RemovingKept, RequestsStayHere, RecordedStep
<1>3. Inv => EveryDeployIsRecorded
  <2> SUFFICES ASSUME Inv, AtRest, Sound, running[row] \in Contents
               PROVE  NextRevision > 1 /\ what[NextRevision - 1] = running[row]
    BY DEF EveryDeployIsRecorded, Sound
  <2>1. \A r \in Requests : req[r].pc # "up"
    BY LockAssumption DEF AtRest, TypeOK, OneAtATime
  <2>2. NewestIs(running[row])
    BY <2>1 DEF Recorded
  <2>3. Last(rev) \in Nat /\ NextRevision = Last(rev) + 1
    BY LastIs DEF NextRevision, Last
  <2>4. NextRevision - 1 = Last(rev) /\ NextRevision > 1
    BY <2>2, <2>3 DEF NewestIs
  <2> QED
    BY <2>2, <2>4 DEF NewestIs
<1> QED
  BY <1>1, <1>2, <1>3, PTL DEF Spec

=============================================================================
