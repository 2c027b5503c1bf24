---------------------------- MODULE SystemProofs ----------------------------
(****************************************************************************)
(* Proofs about the installation itself, for every set of releases,         *)
(* domains, clients, projects, requests, paths and blocks: what runs was    *)
(* verified, a request goes where its mapping points, an import and a       *)
(* restore are whole, a template is whole and a built compose file is       *)
(* sound.  Each component has an inductive invariant, a lemma for each      *)
(* group of its actions, and the theorem about its property.                *)
(****************************************************************************)
EXTENDS MCSystem, Integers, FiniteSets, FiniteSetTheorems, SequenceTheorems, WellFoundedInduction, TLAPS

-----------------------------------------------------------------------------
(****************************************************************************)
(* Self-update.  The invariant says who holds applyMu, what each upgrade    *)
(* knows of the release it installs, and where an executable that was set   *)
(* aside may stand.                                                         *)
(****************************************************************************)
(* What the executable can be, and where an installer can stand.             *)
Releasable == Versions \cup {Dev}
Executables == [v : Releasable, by : {"setup", "package", "cli", "app", "none"}, good : BOOLEAN]
WorkPcs == {"resolve", "check", "download", "verify", "aside", "swap"}
PastResolve == WorkPcs \ {"resolve"}
Work == [pc : WorkPcs, current : Releasable, ceiling : Granularities, packaged : BOOLEAN, rel : Releasable, good : BOOLEAN,
         old : Executables]
Recording == [pc : {"record"}, rel : Releasable]
Places == {Idle, [pc |-> "restart"]} \cup Work \cup Recording

UpdateTyped ==
    /\ os \in {"unix", "windows"} /\ latest \in Versions /\ exe \in Executables /\ packaged \in BOOLEAN
    /\ running \in Releasable
    /\ policy \in [on : BOOLEAN, ceiling : Granularities] /\ notice \in Releasable
    /\ status \in Releasable /\ pre \in {"free", "blocked"}
    /\ applyMu \in InApp \cup {"nobody"} /\ tmp \subseteq Installers
    /\ inst \in [Installers -> Places]

(* The lock is held by the one upgrade of the server that is at work, and it *)
(* is the running version that it compares with.                             *)
LockIsHeld ==
    /\ applyMu # "nobody" => inst[applyMu] \in Work
    /\ \A i \in InApp : inst[i] \in Work => applyMu = i /\ inst[i].current = running

(* What an installer knows of the release it is about to install.            *)
Knows(x) ==
    /\ x.pc \in {"aside", "swap"} => x.good
    /\ x.old # None => x.old.good
    /\ x.packaged => packaged
    /\ x.pc \in PastResolve \ {"check"} => ~x.packaged
WorkIsKnown == \A i \in Installers : inst[i] \in Work => Knows(inst[i])

AutoIsAllowed ==
    inst[AutoLoop] \in Work /\ inst[AutoLoop].pc \in PastResolve =>
        Allows(inst[AutoLoop].ceiling, Delta(inst[AutoLoop].current, inst[AutoLoop].rel))

(* On Windows nothing is in the executable's place between the two renames;  *)
(* elsewhere no release from the app is newer than the latest one, or than   *)
(* what the app is installing.                                               *)
OneAside ==
    os = "windows" => \A i \in Installers : inst[i].pc = "swap" => exe = None /\ \A j \in Installers \ {i} : inst[j].pc # "swap"
AsideOnWindows == \A i \in Installers : inst[i].pc = "aside" => os = "windows"
NewestIsLatest ==
    /\ \A i \in InApp : inst[i] \in Work /\ inst[i].pc \in PastResolve => ~Less(latest, inst[i].rel)
    /\ os = "unix" /\ exe.by = "app" =>
         /\ ~Less(latest, exe.v)
         /\ \A i \in InApp : inst[i] \in Work /\ inst[i].pc \in PastResolve => ~Less(inst[i].rel, exe.v)

UpdateInv ==
    /\ UpdateTyped /\ LockIsHeld /\ WorkIsKnown /\ AutoIsAllowed /\ OneAside /\ AsideOnWindows /\ NewestIsLatest
    /\ NeverUnverified /\ FilesAreOwned

-----------------------------------------------------------------------------
(* Less is a strict order on releases (version.Less).                        *)
LEMMA LessIs ==
    ASSUME NEW a \in Versions, NEW b \in Versions
    PROVE  Less(a, b) <=> \/ a[1] < b[1]
                          \/ a[1] = b[1] /\ a[2] < b[2]
                          \/ a[1] = b[1] /\ a[2] = b[2] /\ a[3] < b[3]
<1>1. a \in Nat \X Nat \X Nat /\ b \in Nat \X Nat \X Nat
  BY VersionsAssumption
<1>2. a # Dev /\ b # Dev
  <2>1. Len(a) = 3 /\ Len(b) = 3
    BY <1>1
  <2>2. Len(Dev) = 0
    BY DEF Dev
  <2> QED
    BY <2>1, <2>2
<1>3. 1..1 - 1 = {} /\ 1..2 - 1 = {1} /\ 1..3 - 1 = {1, 2} /\ 1..3 = {1, 2, 3}
  OBVIOUS
<1>4. Less(a, b) <=> \E k \in {1, 2, 3} : a[k] < b[k] /\ \A j \in 1..k - 1 : a[j] = b[j]
  BY <1>2, <1>3 DEF Less
<1> QED
  BY <1>3, <1>4

LEMMA LessOrder ==
    /\ \A a \in Releasable : ~Less(a, a)
    /\ \A a, b, c \in Releasable : Less(a, b) /\ Less(b, c) => Less(a, c)
<1>1. \A a, b \in Releasable : Less(a, b) => a \in Versions /\ b \in Versions
  BY DEF Less, Releasable
<1>2. \A a \in Versions : a[1] \in Nat /\ a[2] \in Nat /\ a[3] \in Nat
  BY VersionsAssumption
<1>3. ASSUME NEW a \in Versions PROVE ~Less(a, a)
  <2>1. ~(a[1] < a[1]) /\ ~(a[2] < a[2]) /\ ~(a[3] < a[3])
    BY <1>2
  <2> QED
    BY <2>1, LessIs
<1>4. \A a, b, c \in Versions : Less(a, b) /\ Less(b, c) => Less(a, c)
  BY <1>2, LessIs, SMTT(30)
<1> QED
  BY <1>1, <1>3, <1>4

LEMMA Apart ==
    /\ AutoLoop \in InApp /\ Cli \notin InApp /\ "nobody" \notin InApp /\ AutoLoop # Cli
    /\ Installers = InApp \cup {Cli}
<1>1. AutoLoop # Cli /\ AutoLoop # "nobody" /\ Cli # "nobody"
  BY DEF AutoLoop, Cli
<1>2. AutoLoop \notin Admins /\ Cli \notin Admins /\ "nobody" \notin Admins
  BY InstallersAssumption
<1> QED
  BY <1>1, <1>2 DEF InApp, Installers

LEMMA PlacesApart ==
    /\ Idle \notin Work /\ [pc |-> "restart"] \notin Work /\ Idle.pc = "idle"
    /\ \A x \in Recording : x \notin Work /\ x.pc = "record"
    /\ \A x \in Places : x \in Work <=> x.pc \in WorkPcs
    /\ \A x \in Places : x.pc = "record" => x \in Recording
  BY DEF Idle, Work, Recording, Places, WorkPcs

LEMMA NoneTyped == None \in Executables
  BY DEF None, Executables, Releasable

LEMMA UpdateInit == ASSUME Init PROVE UpdateInv
<1> USE Apart, PlacesApart DEF Init
<1>1. UpdateTyped
  BY VersionsAssumption DEF UpdateTyped, Executables, Releasable, Places, Granularities
<1>2. LockIsHeld /\ WorkIsKnown /\ AutoIsAllowed
  BY DEF LockIsHeld, WorkIsKnown, AutoIsAllowed
<1>3. OneAside /\ AsideOnWindows /\ NewestIsLatest /\ NeverUnverified /\ FilesAreOwned
  BY DEF OneAside, AsideOnWindows, NewestIsLatest, NeverUnverified, FilesAreOwned
<1> QED
  BY <1>1, <1>2, <1>3 DEF UpdateInv

-----------------------------------------------------------------------------
(* Actions that leave every installer where it is.                           *)
LEMMA PublishKeeps == ASSUME UpdateInv, NEW v \in Versions, Publish(v) PROVE UpdateInv'
<1> USE DEF UpdateInv, Publish
<1>1. UpdateTyped' /\ LockIsHeld' /\ WorkIsKnown'
  BY DEF UpdateTyped, LockIsHeld, WorkIsKnown, Knows
<1>2. AutoIsAllowed' /\ OneAside' /\ AsideOnWindows' /\ NeverUnverified' /\ FilesAreOwned'
  BY DEF AutoIsAllowed, OneAside, AsideOnWindows, NeverUnverified, FilesAreOwned
<1>3. NewestIsLatest'
  <2>1. \A x \in Releasable : ~Less(latest, x) => ~Less(v, x)
    BY LessOrder DEF UpdateTyped, Releasable
  <2>2. \A i \in Installers : inst[i] \in Work => inst[i].rel \in Releasable
    BY DEF Work
  <2>3. exe.v \in Releasable
    BY DEF UpdateTyped, Executables
  <2> QED
    BY <2>1, <2>2, <2>3, Apart DEF NewestIsLatest
<1> QED
  BY <1>1, <1>2, <1>3

LEMMA InstallPackageKeeps == ASSUME UpdateInv, InstallPackage PROVE UpdateInv'
<1> USE DEF UpdateInv, InstallPackage
<1>1. UpdateTyped'
  BY DEF UpdateTyped, Executables, Releasable
<1>4. LockIsHeld' /\ WorkIsKnown'
  BY DEF LockIsHeld, WorkIsKnown, Knows, UpdateTyped
<1>2. AutoIsAllowed' /\ OneAside' /\ AsideOnWindows' /\ NeverUnverified' /\ FilesAreOwned'
  BY DEF AutoIsAllowed, OneAside, AsideOnWindows, NeverUnverified, FilesAreOwned
<1>3. NewestIsLatest'
  BY DEF NewestIsLatest
<1> QED
  BY <1>1, <1>2, <1>3, <1>4

Besides == <<os, latest, exe, packaged, running, applyMu, inst, tmp, cut>>
LEMMA BesidesKeeps ==
    ASSUME UpdateInv, UNCHANGED Besides,
           policy' \in [on : BOOLEAN, ceiling : Granularities], status' \in Releasable, pre' \in {"free", "blocked"},
           notice' \in Releasable
    PROVE  UpdateInv'
<1> USE DEF UpdateInv, Besides
<1>1. UpdateTyped' /\ LockIsHeld' /\ WorkIsKnown'
  BY DEF UpdateTyped, LockIsHeld, WorkIsKnown, Knows
<1>2. AutoIsAllowed' /\ OneAside' /\ AsideOnWindows' /\ NeverUnverified' /\ FilesAreOwned' /\ NewestIsLatest'
  BY DEF AutoIsAllowed, OneAside, AsideOnWindows, NeverUnverified, FilesAreOwned, NewestIsLatest
<1> QED
  BY <1>1, <1>2

LEMMA SettingsKeep ==
    ASSUME UpdateInv,
           \/ \E on \in BOOLEAN, ceiling \in Granularities : SetSelfUpdatePolicy(on, ceiling)
           \/ RefreshStatus \/ RefreshPrecheck \/ HandleRestart \/ Flush
    PROVE  UpdateInv'
<1>1. UNCHANGED Besides
  BY DEF Besides, SetSelfUpdatePolicy, RefreshStatus, RefreshPrecheck, HandleRestart, Flush
<1>2. policy' \in [on : BOOLEAN, ceiling : Granularities]
  BY DEF SetSelfUpdatePolicy, RefreshStatus, RefreshPrecheck, HandleRestart, Flush, UpdateInv, UpdateTyped
<1>3. status' \in Releasable /\ pre' \in {"free", "blocked"} /\ notice' \in Releasable
  BY DEF SetSelfUpdatePolicy, RefreshStatus, RefreshPrecheck, HandleRestart, Flush, UpdateInv, UpdateTyped, Releasable, Blocked
<1> QED
  BY <1>1, <1>2, <1>3, BesidesKeeps

-----------------------------------------------------------------------------
(* An installer moves. Move says what its new place must satisfy; the        *)
(* executable stays.                                                         *)
Move(i, to) ==
    /\ i \in Installers /\ to \in Places /\ inst' = [inst EXCEPT ![i] = to]
    /\ UNCHANGED <<os, latest, exe, packaged, running>>
    /\ cut \subseteq cut'

LEMMA Moved ==
    ASSUME UpdateInv, NEW i, NEW to, Move(i, to)
    PROVE  inst'[i] = to /\ inst' \in [Installers -> Places] /\ \A j \in Installers \ {i} : inst'[j] = inst[j]
  BY DEF Move, UpdateInv, UpdateTyped

(* The installer goes on with its work.                                      *)
GoesOn(i, to) ==
    /\ to \in Work /\ Knows(to)
    /\ i \in InApp => applyMu' = i /\ to.current = running
    /\ i = AutoLoop /\ to.pc \in PastResolve => Allows(to.ceiling, Delta(to.current, to.rel))
    /\ i \in InApp /\ to.pc \in PastResolve =>
         ~Less(latest, to.rel) /\ (os = "unix" /\ exe.by = "app" => ~Less(to.rel, exe.v))
    /\ os = "windows" => to.pc # "swap"
    /\ to.pc = "aside" => os = "windows"
    /\ tmp' \in {tmp, tmp \cup {i}}
    /\ i \in tmp' => i \notin tmp \/ to.pc = "verify" \/ (inst[i].pc \in {"verify", "aside", "swap"} => to.pc \in {"verify", "aside", "swap"})
    /\ i \in tmp' /\ i \notin tmp => to.pc \in {"verify", "aside", "swap"}

LEMMA GoesOnKeeps ==
    ASSUME UpdateInv, NEW i, NEW to, Move(i, to), GoesOn(i, to),
           i \in InApp => applyMu \in {i, "nobody"},
           i \notin InApp => applyMu' = applyMu,
           cut' = cut, UNCHANGED <<policy, notice, status, pre>>
    PROVE  UpdateInv'
<1> USE DEF UpdateInv
<1>0. inst'[i] = to /\ inst' \in [Installers -> Places] /\ \A j \in Installers \ {i} : inst'[j] = inst[j]
  BY Moved
<1>00. UNCHANGED <<os, latest, exe, packaged, running>> /\ i \in Installers
  BY DEF Move
<1>01. to \in Work /\ Knows(to)
  BY DEF GoesOn
<1>1. UpdateTyped'
  <2>1. applyMu' \in InApp \cup {"nobody"} /\ tmp' \subseteq Installers
    BY <1>00, Apart DEF GoesOn, UpdateTyped
  <2> QED
    BY <1>0, <1>00, <2>1 DEF UpdateTyped
<1>2. LockIsHeld'
  <2>1. CASE i \in InApp
    <3>1. applyMu' = i /\ to.current = running
      BY <2>1 DEF GoesOn
    <3>2. \A j \in InApp \ {i} : inst[j] \notin Work
      BY <2>1, Apart DEF LockIsHeld
    <3> QED
      BY <1>0, <1>00, <1>01, <2>1, <3>1, <3>2, Apart DEF LockIsHeld
  <2>2. CASE i \notin InApp
    BY <1>0, <1>00, <2>2, Apart DEF LockIsHeld, UpdateTyped
  <2> QED
    BY <2>1, <2>2
<1>3. WorkIsKnown'
  BY <1>0, <1>00, <1>01 DEF WorkIsKnown, Knows
<1>4. AutoIsAllowed'
  BY <1>0, Apart DEF AutoIsAllowed, GoesOn
<1>5. OneAside' /\ AsideOnWindows'
  BY <1>0, <1>00 DEF OneAside, AsideOnWindows, GoesOn
<1>6. NewestIsLatest'
  BY <1>0, <1>00, Apart DEF NewestIsLatest, GoesOn
<1>7. NeverUnverified'
  BY <1>00 DEF NeverUnverified
<1>8. FilesAreOwned'
  <2> SUFFICES ASSUME "file" \notin cut, NEW j \in tmp' PROVE inst'[j].pc \in {"verify", "aside", "swap"}
    BY DEF FilesAreOwned
  <2>1. CASE j = i
    BY <1>0, <2>1 DEF GoesOn, FilesAreOwned
  <2>2. CASE j # i
    BY <1>0, <2>2 DEF GoesOn, FilesAreOwned, UpdateTyped
  <2> QED
    BY <2>1, <2>2
<1> QED
  BY <1>1, <1>2, <1>3, <1>4, <1>5, <1>6, <1>7, <1>8

(* The installer ends, or only has the restart left to ask for.              *)
LEMMA EndsKeeps ==
    ASSUME UpdateInv, NEW i, NEW to, Move(i, to), to \notin Work, to.pc \notin WorkPcs,
           applyMu' = Unlocked(i),
           tmp' \in {tmp, tmp \ {i}}, i \in tmp' => inst[i].pc \notin {"verify", "aside", "swap"} \/ "file" \in cut',
           UNCHANGED <<policy, pre>>, notice' \in Releasable, status' \in Releasable
    PROVE  UpdateInv'
<1> USE DEF UpdateInv
<1>0. inst'[i] = to /\ inst' \in [Installers -> Places] /\ \A j \in Installers \ {i} : inst'[j] = inst[j]
  BY Moved
<1>00. UNCHANGED <<os, latest, exe, packaged, running>> /\ i \in Installers /\ cut \subseteq cut'
  BY DEF Move
<1>1. UpdateTyped'
  BY <1>0, <1>00 DEF UpdateTyped, Unlocked
<1>2. LockIsHeld'
  <2>1. \A j \in InApp : inst'[j] \in Work => applyMu' = j /\ inst'[j].current = running'
    BY <1>0, <1>00, Apart DEF LockIsHeld, Unlocked
  <2>2. applyMu' # "nobody" => inst'[applyMu'] \in Work
    BY <1>0, <1>00, Apart DEF LockIsHeld, Unlocked, UpdateTyped
  <2> QED
    BY <2>1, <2>2 DEF LockIsHeld
<1>3. WorkIsKnown'
  BY <1>0, <1>00 DEF WorkIsKnown, Knows
<1>4. AutoIsAllowed'
  BY <1>0, Apart DEF AutoIsAllowed
<1>5. OneAside' /\ AsideOnWindows'
  BY <1>0, <1>00 DEF OneAside, AsideOnWindows, WorkPcs
<1>6. NewestIsLatest'
  BY <1>0, <1>00, Apart DEF NewestIsLatest
<1>7. NeverUnverified'
  BY <1>00 DEF NeverUnverified
<1>8. FilesAreOwned'
  <2> SUFFICES ASSUME "file" \notin cut', NEW j \in tmp' PROVE inst'[j].pc \in {"verify", "aside", "swap"}
    BY DEF FilesAreOwned
  <2>1. inst[j].pc \in {"verify", "aside", "swap"}
    BY <1>00 DEF FilesAreOwned
  <2>2. j # i /\ j \in Installers
    BY <2>1 DEF UpdateTyped
  <2> QED
    BY <1>0, <2>1, <2>2
<1> QED
  BY <1>1, <1>2, <1>3, <1>4, <1>5, <1>6, <1>7, <1>8

-----------------------------------------------------------------------------
LEMMA BeginMoves ==
    ASSUME UpdateInv, NEW i \in Installers, NEW current \in Releasable, NEW ceiling \in Granularities,
           Begin(i, current, ceiling), UNCHANGED <<os, latest, exe, packaged, running, policy, notice, status, pre, tmp, cut>>,
           i \in InApp => applyMu = "nobody" /\ applyMu' = i /\ current = running,
           i \notin InApp => applyMu' = applyMu,
           inst[i].pc = "idle"
    PROVE  UpdateInv'
<1> DEFINE to == [pc |-> "resolve", current |-> current, ceiling |-> ceiling, packaged |-> packaged,
                  rel |-> Dev, good |-> FALSE, old |-> None]
<1>1. to \in Work
  BY NoneTyped DEF Work, WorkPcs, Releasable, UpdateInv, UpdateTyped
<1>2. Move(i, to)
  BY <1>1 DEF Begin, InstTo, Move, Places
<1>3. Knows(to)
  BY DEF Knows, PastResolve
<1>4. GoesOn(i, to)
  BY <1>1, <1>3 DEF GoesOn, PastResolve
<1> HIDE DEF to
<1> QED
  BY <1>2, <1>4, GoesOnKeeps

LEMMA StartsKeep ==
    ASSUME UpdateInv, (\E a \in Admins : HandleApplyUpdate(a)) \/ AutoApply \/ SelfUpgrade
    PROVE  UpdateInv'
<1>0. running \in Releasable /\ exe.v \in Releasable /\ policy.ceiling \in Granularities /\ "major" \in Granularities
  BY DEF UpdateInv, UpdateTyped, Executables, Granularities
<1>1. ASSUME NEW a \in Admins, HandleApplyUpdate(a) PROVE UpdateInv'
  <2>1. a \in Installers /\ a \in InApp
    BY DEF Installers, InApp
  <2> QED
    BY <1>0, <1>1, <2>1, BeginMoves DEF HandleApplyUpdate, TryLock
<1>2. CASE AutoApply
  <2>1. AutoLoop \in Installers /\ AutoLoop \in InApp
    BY Apart
  <2>2. /\ Begin(AutoLoop, running, policy.ceiling) /\ inst[AutoLoop].pc = "idle" /\ applyMu = "nobody" /\ applyMu' = AutoLoop
        /\ UNCHANGED <<os, latest, exe, packaged, running, policy, notice, status, pre, tmp, cut>>
    BY <1>2 DEF AutoApply, TryLock
  <2> QED
    BY <1>0, <2>1, <2>2, BeginMoves
<1>3. CASE SelfUpgrade
  BY <1>0, <1>3, Apart, BeginMoves DEF SelfUpgrade
<1> QED
  BY <1>1, <1>2, <1>3

LEMMA AtWork ==
    ASSUME UpdateInv, NEW i \in Installers, inst[i].pc \in WorkPcs
    PROVE  /\ inst[i] \in Work /\ inst[i] \in Places /\ Knows(inst[i])
           /\ i \in InApp => applyMu = i /\ inst[i].current = running
  BY PlacesApart DEF UpdateInv, UpdateTyped, WorkIsKnown, LockIsHeld

LEMMA RefuseKeeps ==
    ASSUME UpdateInv, NEW i \in Installers, Refuse(i), tmp' \in {tmp, tmp \ {i}},
           i \in tmp' => inst[i].pc \notin {"verify", "aside", "swap"},
           UNCHANGED <<os, latest, exe, packaged, running, policy, notice, status, pre, cut>>
    PROVE  UpdateInv'
<1>1. Move(i, Idle)
  BY DEF Move, Refuse, InstTo, Places
<1>2. Idle \notin Work /\ Idle.pc \notin WorkPcs
  BY PlacesApart DEF WorkPcs
<1>3. notice' \in Releasable /\ status' \in Releasable
  BY DEF UpdateInv, UpdateTyped
<1> QED
  BY <1>1, <1>2, <1>3, EndsKeeps DEF Refuse

LEMMA ResolveKeeps == ASSUME UpdateInv, NEW i \in Installers, Resolve(i) PROVE UpdateInv'
<1> DEFINE to == [inst[i] EXCEPT !.pc = "check", !.rel = latest]
<1>0. inst[i].pc = "resolve" /\ UNCHANGED <<os, latest, exe, packaged, running, policy, notice, status, pre, tmp, cut>>
  BY DEF Resolve
<1>1. inst[i] \in Work /\ Knows(inst[i]) /\ (i \in InApp => applyMu = i /\ inst[i].current = running)
  BY <1>0, AtWork DEF WorkPcs
<1> DEFINE Goes == Less(inst[i].current, latest) /\ (i = AutoLoop => Allows(inst[i].ceiling, Delta(inst[i].current, Judged)))
<1>2. CASE ~Goes
  <2>1. Refuse(i)
    BY <1>2 DEF Resolve
  <2> QED
    BY <1>0, <2>1, RefuseKeeps
<1>3. CASE Goes
  <2>1. /\ inst' = [inst EXCEPT ![i] = to] /\ applyMu' = applyMu
        /\ i = AutoLoop => Allows(inst[i].ceiling, Delta(inst[i].current, latest))
    BY <1>3 DEF Resolve, InstTo, Judged
  <2>2. /\ to \in Work /\ to.pc = "check" /\ to.rel = latest /\ to.current = inst[i].current /\ to.ceiling = inst[i].ceiling
        /\ to.packaged = inst[i].packaged /\ to.old = inst[i].old
    BY <1>1 DEF Work, WorkPcs, UpdateInv, UpdateTyped, Releasable
  <2> HIDE DEF to
  <2>3. Move(i, to)
    BY <1>0, <2>1, <2>2 DEF Move, Places
  <2>4. Knows(to)
    BY <1>1, <2>2 DEF Knows, PastResolve
  <2>5. ~Less(latest, to.rel)
    BY <2>2, LessOrder DEF UpdateInv, UpdateTyped, Releasable
  <2>6. os = "unix" /\ exe.by = "app" => ~Less(to.rel, exe.v)
    BY <2>2 DEF UpdateInv, NewestIsLatest
  <2>7. i = AutoLoop => Allows(to.ceiling, Delta(to.current, to.rel))
    BY <2>1, <2>2
  <2>8. GoesOn(i, to)
    BY <1>0, <1>1, <2>1, <2>2, <2>4, <2>5, <2>6, <2>7 DEF GoesOn
  <2> QED
    BY <1>0, <1>1, <2>1, <2>3, <2>8, GoesOnKeeps
<1> QED
  BY <1>2, <1>3

(* A step of the work that keeps what was resolved.                          *)
LEMMA WorkMoves ==
    ASSUME UpdateInv, NEW i \in Installers, NEW to, inst[i].pc \in PastResolve,
           inst' = [inst EXCEPT ![i] = to], applyMu' = applyMu,
           UNCHANGED <<os, latest, exe, packaged, running, policy, notice, status, pre, cut>>,
           to \in Work, to.pc \in PastResolve, Knows(to), to.rel = inst[i].rel, to.current = inst[i].current,
           to.ceiling = inst[i].ceiling,
           os = "windows" => to.pc # "swap", to.pc = "aside" => os = "windows",
           tmp' \in {tmp, tmp \cup {i}}, to.pc \notin {"verify", "aside", "swap"} => tmp' = tmp /\ inst[i].pc \notin {"verify", "aside", "swap"}
    PROVE  UpdateInv'
<1>0. inst[i] \in Work /\ (i \in InApp => applyMu = i /\ inst[i].current = running)
  BY AtWork DEF PastResolve
<1>1. Move(i, to)
  BY DEF Move, Places
<1>2. GoesOn(i, to)
  <2>1. i = AutoLoop => Allows(to.ceiling, Delta(to.current, to.rel))
    BY <1>0 DEF UpdateInv, AutoIsAllowed
  <2>2. i \in InApp => ~Less(latest, to.rel) /\ (os = "unix" /\ exe.by = "app" => ~Less(to.rel, exe.v))
    BY <1>0 DEF UpdateInv, NewestIsLatest
  <2> QED
    BY <1>0, <2>1, <2>2 DEF GoesOn
<1> QED
  BY <1>0, <1>1, <1>2, GoesOnKeeps

LEMMA CheckKeeps == ASSUME UpdateInv, NEW i \in Installers, Check(i) PROVE UpdateInv'
<1> DEFINE to == [inst[i] EXCEPT !.pc = "download"]
<1>0. inst[i].pc = "check" /\ UNCHANGED <<os, latest, exe, packaged, running, policy, notice, status, pre, tmp, cut>>
  BY DEF Check
<1>1. inst[i] \in Work /\ Knows(inst[i])
  BY <1>0, AtWork DEF WorkPcs
<1>2. CASE Refuse(i)
  BY <1>0, <1>2, RefuseKeeps
<1>3. CASE ~Refuse(i)
  <2>1. inst' = [inst EXCEPT ![i] = to] /\ applyMu' = applyMu /\ ~packaged
    BY <1>3 DEF Check, InstTo, Owned
  <2>2. /\ to \in Work /\ to.pc = "download" /\ to.rel = inst[i].rel /\ to.current = inst[i].current
        /\ to.ceiling = inst[i].ceiling /\ to.packaged = inst[i].packaged /\ to.old = inst[i].old
    BY <1>1 DEF Work, WorkPcs
  <2> HIDE DEF to
  <2>3. Knows(to)
    BY <1>1, <2>1, <2>2 DEF Knows, PastResolve
  <2>4. inst[i].pc \in PastResolve /\ to.pc \in PastResolve
    BY <1>0, <2>2 DEF PastResolve, WorkPcs
  <2> QED
    BY <1>0, <2>1, <2>2, <2>3, <2>4, WorkMoves
<1> QED
  BY <1>2, <1>3

LEMMA DownloadKeeps == ASSUME UpdateInv, NEW i \in Installers, Download(i) PROVE UpdateInv'
<1>0. inst[i].pc = "download" /\ UNCHANGED <<os, latest, exe, packaged, running, policy, notice, status, pre, cut>>
  BY DEF Download
<1>1. inst[i] \in Work /\ Knows(inst[i])
  BY <1>0, AtWork DEF WorkPcs
<1>2. CASE Refuse(i) /\ tmp' = tmp
  BY <1>0, <1>2, RefuseKeeps
<1>3. ASSUME NEW good \in BOOLEAN, inst' = [inst EXCEPT ![i] = [inst[i] EXCEPT !.pc = "verify", !.good = good]],
             applyMu' = applyMu, tmp' = tmp \cup {i}
      PROVE  UpdateInv'
  <2> DEFINE to == [inst[i] EXCEPT !.pc = "verify", !.good = good]
  <2>2. /\ to \in Work /\ to.pc = "verify" /\ to.rel = inst[i].rel /\ to.current = inst[i].current
        /\ to.ceiling = inst[i].ceiling /\ to.packaged = inst[i].packaged /\ to.old = inst[i].old
    BY <1>1 DEF Work, WorkPcs
  <2>5. inst' = [inst EXCEPT ![i] = to]
    BY <1>3
  <2> HIDE DEF to
  <2>3. Knows(to)
    BY <1>0, <1>1, <2>2 DEF Knows, PastResolve, WorkPcs
  <2>4. inst[i].pc \in PastResolve /\ to.pc \in PastResolve
    BY <1>0, <2>2 DEF PastResolve, WorkPcs
  <2> QED
    BY <1>0, <1>3, <2>2, <2>3, <2>4, <2>5, WorkMoves
<1>4. CASE ~(Refuse(i) /\ tmp' = tmp)
  <2>1. [inst[i] EXCEPT !.pc = "verify"] = [inst[i] EXCEPT !.pc = "verify", !.good = inst[i].good]
    BY <1>1 DEF Work
  <2>2. inst[i].good \in BOOLEAN
    BY <1>1 DEF Work
  <2>3. \E good \in BOOLEAN : /\ inst' = [inst EXCEPT ![i] = [inst[i] EXCEPT !.pc = "verify", !.good = good]]
                              /\ applyMu' = applyMu /\ tmp' = tmp \cup {i}
    BY <1>4, <2>1, <2>2 DEF Download, InstTo
  <2> QED
    BY <1>3, <2>3
<1> QED
  BY <1>2, <1>4

LEMMA VerifyKeeps == ASSUME UpdateInv, NEW i \in Installers, Verify(i) PROVE UpdateInv'
<1> DEFINE to == [inst[i] EXCEPT !.pc = IF os = "windows" THEN "aside" ELSE "swap"]
<1>0. inst[i].pc = "verify" /\ UNCHANGED <<os, latest, exe, packaged, running, policy, notice, status, pre, cut>>
  BY DEF Verify
<1>1. inst[i] \in Work /\ Knows(inst[i])
  BY <1>0, AtWork DEF WorkPcs
<1>2. CASE ~inst[i].good
  <2>1. Refuse(i) /\ tmp' = tmp \ {i}
    BY <1>2 DEF Verify, Verified, Remove
  <2> QED
    BY <1>0, <2>1, RefuseKeeps
<1>3. CASE inst[i].good
  <2>1. inst' = [inst EXCEPT ![i] = to] /\ applyMu' = applyMu /\ tmp' = tmp
    BY <1>3 DEF Verify, Verified, InstTo
  <2>2. /\ to \in Work /\ to.pc = (IF os = "windows" THEN "aside" ELSE "swap") /\ to.rel = inst[i].rel
        /\ to.current = inst[i].current /\ to.good = inst[i].good
        /\ to.ceiling = inst[i].ceiling /\ to.packaged = inst[i].packaged /\ to.old = inst[i].old
    BY <1>1 DEF Work, WorkPcs
  <2> HIDE DEF to
  <2>3. Knows(to)
    BY <1>0, <1>1, <1>3, <2>2 DEF Knows, PastResolve, WorkPcs
  <2>4. inst[i].pc \in PastResolve /\ to.pc \in PastResolve /\ (os = "windows" => to.pc # "swap") /\ (to.pc = "aside" => os = "windows") /\ to.pc \in {"aside", "swap"}
    BY <1>0, <2>2 DEF PastResolve, WorkPcs
  <2> QED
    BY <1>0, <2>1, <2>2, <2>3, <2>4, WorkMoves
<1> QED
  BY <1>2, <1>3

-----------------------------------------------------------------------------
(* The renames, which change the executable.                                 *)
LEMMA AsideIsWindows == ASSUME UpdateInv, NEW i \in Installers, inst[i].pc = "aside" PROVE os = "windows"
  BY DEF UpdateInv, AsideOnWindows

LEMMA RenameAsideKeeps == ASSUME UpdateInv, NEW i \in Installers, RenameAside(i) PROVE UpdateInv'
<1> USE DEF UpdateInv
<1> DEFINE to == [inst[i] EXCEPT !.pc = "swap", !.old = exe]
<1>0. inst[i].pc = "aside" /\ UNCHANGED <<os, latest, packaged, running, policy, notice, status, pre, cut>>
  BY DEF RenameAside
<1>1. inst[i] \in Work /\ Knows(inst[i])
  BY <1>0, AtWork DEF WorkPcs
<1>2. CASE exe = None
  <2>1. Refuse(i) /\ tmp' = tmp \ {i} /\ exe' = exe
    BY <1>2 DEF RenameAside, Remove
  <2> QED
    BY <1>0, <2>1, RefuseKeeps
<1>3. CASE exe # None
  <2>1. exe' = None /\ inst' = [inst EXCEPT ![i] = to] /\ applyMu' = applyMu /\ tmp' = tmp
    BY <1>3 DEF RenameAside, InstTo
  <2>2. /\ to \in Work /\ to.pc = "swap" /\ to.rel = inst[i].rel /\ to.current = inst[i].current /\ to.good = inst[i].good
        /\ to.ceiling = inst[i].ceiling /\ to.packaged = inst[i].packaged /\ to.old = exe
    BY <1>1 DEF Work, WorkPcs, UpdateTyped
  <2> HIDE DEF to
  <2>3. Knows(to)
    BY <1>0, <1>1, <1>3, <2>2 DEF Knows, PastResolve, WorkPcs, NeverUnverified
  <2>4. inst' \in [Installers -> Places] /\ inst'[i] = to /\ \A j \in Installers \ {i} : inst'[j] = inst[j]
    BY <2>1, <2>2 DEF UpdateTyped, Places
  <2>5. inst[i].pc \in PastResolve /\ to.pc \in PastResolve /\ os = "windows" /\ None.by # "app"
    BY <1>0, <2>2, AsideIsWindows DEF PastResolve, WorkPcs, None
  <2>6. UpdateTyped'
    BY <1>0, <2>1, <2>4, NoneTyped DEF UpdateTyped
  <2>7. LockIsHeld'
    BY <1>0, <1>1, <2>1, <2>2, <2>4, Apart DEF LockIsHeld, UpdateTyped
  <2>8. WorkIsKnown'
    BY <1>0, <2>3, <2>4 DEF WorkIsKnown, Knows
  <2>9. AutoIsAllowed'
    BY <1>1, <2>2, <2>4, <2>5, Apart DEF AutoIsAllowed
  <2>10. OneAside' /\ AsideOnWindows'
    BY <1>0, <1>3, <2>1, <2>2, <2>4, <2>5 DEF OneAside, AsideOnWindows
  <2>11. NewestIsLatest'
    BY <1>0, <1>1, <2>1, <2>2, <2>4, <2>5, Apart DEF NewestIsLatest
  <2>12. NeverUnverified' /\ FilesAreOwned'
    BY <1>0, <2>1, <2>2, <2>4 DEF NeverUnverified, FilesAreOwned, UpdateTyped
  <2> QED
    BY <2>6, <2>7, <2>8, <2>9, <2>10, <2>11, <2>12
<1> QED
  BY <1>2, <1>3

LEMMA SwapKeeps == ASSUME UpdateInv, NEW i \in Installers, Swap(i) PROVE UpdateInv'
<1> USE DEF UpdateInv
<1> DEFINE to == IF i = AutoLoop THEN [pc |-> "record", rel |-> inst[i].rel] ELSE Idle
<1>0. /\ inst[i].pc = "swap" /\ UNCHANGED <<os, latest, packaged, running, policy, notice, pre, cut>>
      /\ exe' = [v |-> inst[i].rel, by |-> IF i = Cli THEN "cli" ELSE "app", good |-> inst[i].good]
      /\ tmp' = tmp \ {i} /\ status' \in {status, Dev} /\ applyMu' = Unlocked(i) /\ inst' = [inst EXCEPT ![i] = to]
  <2>1. status' \in {status, Dev}
    BY DEF Swap
  <2>2. inst' = [inst EXCEPT ![i] = to]
    BY DEF Swap, InstTo
  <2> HIDE DEF to
  <2> QED
    BY <2>1, <2>2 DEF Swap
<1>1. inst[i] \in Work /\ Knows(inst[i]) /\ (i \in InApp => applyMu = i)
  BY <1>0, AtWork DEF WorkPcs
<1>2. to \in Places /\ to \notin Work /\ to.pc \in {"record", "idle"}
  BY <1>1, PlacesApart DEF Places, Recording, Work
<1> HIDE DEF to
<1>3. inst' \in [Installers -> Places] /\ inst'[i] = to /\ \A j \in Installers \ {i} : inst'[j] = inst[j]
  BY <1>0, <1>2 DEF UpdateTyped
<1>4. exe' \in Executables /\ exe'.good /\ exe'.v = inst[i].rel
  <2>1. inst[i].rel \in Releasable /\ inst[i].good = TRUE
    BY <1>0, <1>1 DEF Work, Knows
  <2> QED
    BY <1>0, <2>1 DEF Executables
<1>5. UpdateTyped'
  BY <1>0, <1>3, <1>4 DEF UpdateTyped, Unlocked, Releasable
<1>6. LockIsHeld'
  <2>1. \A j \in InApp : inst'[j] \in Work => applyMu' = j /\ inst'[j].current = running'
    BY <1>0, <1>2, <1>3, Apart DEF LockIsHeld, Unlocked
  <2>2. applyMu' # "nobody" => inst'[applyMu'] \in Work
    BY <1>0, <1>2, <1>3, Apart DEF LockIsHeld, Unlocked, UpdateTyped
  <2> QED
    BY <2>1, <2>2 DEF LockIsHeld
<1>7. WorkIsKnown'
  BY <1>0, <1>2, <1>3 DEF WorkIsKnown, Knows
<1>8. AutoIsAllowed'
  BY <1>2, <1>3, Apart DEF AutoIsAllowed
<1>9. OneAside' /\ AsideOnWindows'
  BY <1>0, <1>2, <1>3 DEF OneAside, AsideOnWindows
<1>10. NewestIsLatest'
  <2>1. \A j \in InApp : inst'[j] \in Work => j # i /\ inst'[j] = inst[j]
    BY <1>2, <1>3, Apart
  <2>2. i \in InApp => \A j \in InApp : inst'[j] \notin Work
    BY <1>1, <2>1 DEF LockIsHeld
  <2>3. exe'.by = "app" => i \in InApp
    BY <1>0, Apart
  <2>4. i \in InApp => ~Less(latest, inst[i].rel)
    BY <1>0, <1>1 DEF NewestIsLatest, PastResolve, WorkPcs
  <2> QED
    BY <1>0, <1>4, <2>1, <2>2, <2>3, <2>4 DEF NewestIsLatest
<1>11. NeverUnverified' /\ FilesAreOwned'
  BY <1>0, <1>3, <1>4 DEF NeverUnverified, FilesAreOwned, UpdateTyped
<1> QED
  BY <1>5, <1>6, <1>7, <1>8, <1>9, <1>10, <1>11

LEMMA SwapFailsKeeps == ASSUME UpdateInv, NEW i \in Installers, SwapFails(i) PROVE UpdateInv'
<1>0. /\ inst[i].pc = "swap" /\ Refuse(i) /\ tmp' = tmp \ {i}
      /\ UNCHANGED <<os, latest, packaged, running, policy, notice, status, pre, cut>>
      /\ exe' = IF os = "windows" THEN inst[i].old ELSE exe
  BY DEF SwapFails, Remove
<1>1. CASE os = "unix"
  <2>1. exe' = exe
    BY <1>0, <1>1
  <2> QED
    BY <1>0, <2>1, RefuseKeeps
<1>2. CASE os = "windows"
  <2> USE DEF UpdateInv
  <2>1. inst[i] \in Work /\ Knows(inst[i])
    BY <1>0, AtWork DEF WorkPcs
  <2>2. exe' \in Executables /\ (exe' # None => exe'.good)
    BY <1>0, <1>2, <2>1 DEF Work, Knows
  <2>3. inst' \in [Installers -> Places] /\ inst'[i] = Idle /\ \A j \in Installers \ {i} : inst'[j] = inst[j]
    BY <1>0 DEF UpdateTyped, Refuse, InstTo, Places
  <2>4. applyMu' = Unlocked(i) /\ Idle \notin Work /\ Idle.pc = "idle"
    BY <1>0, PlacesApart DEF Refuse
  <2>5. UpdateTyped'
    BY <1>0, <2>2, <2>3, <2>4 DEF UpdateTyped, Unlocked
  <2>6. LockIsHeld'
    <3>1. \A j \in InApp : inst'[j] \in Work => applyMu' = j /\ inst'[j].current = running'
      BY <1>0, <2>3, <2>4, Apart DEF LockIsHeld, Unlocked
    <3>2. applyMu' # "nobody" => inst'[applyMu'] \in Work
      BY <1>0, <2>3, <2>4, Apart DEF LockIsHeld, Unlocked, UpdateTyped
    <3> QED
      BY <3>1, <3>2 DEF LockIsHeld
  <2>7. WorkIsKnown' /\ AutoIsAllowed'
    BY <1>0, <2>3, <2>4, Apart DEF WorkIsKnown, Knows, AutoIsAllowed
  <2>8. OneAside' /\ AsideOnWindows'
    BY <1>0, <1>2, <2>3, <2>4 DEF OneAside, AsideOnWindows
  <2>9. NewestIsLatest'
    BY <1>0, <1>2, <2>3, <2>4, Apart DEF NewestIsLatest
  <2>10. NeverUnverified' /\ FilesAreOwned'
    BY <1>0, <2>2, <2>3 DEF NeverUnverified, FilesAreOwned, UpdateTyped
  <2> QED
    BY <2>5, <2>6, <2>7, <2>8, <2>9, <2>10
<1> QED
  BY <1>1, <1>2 DEF UpdateInv, UpdateTyped

-----------------------------------------------------------------------------
LEMMA RecordKeeps == ASSUME UpdateInv, SetLastAutoUpdate \/ AutoRestart PROVE UpdateInv'
<1> DEFINE to == IF inst[AutoLoop].pc = "record" THEN [pc |-> "restart"] ELSE Idle
<1>0. /\ inst[AutoLoop].pc \in {"record", "restart"} /\ inst' = [inst EXCEPT ![AutoLoop] = to]
      /\ UNCHANGED <<os, latest, exe, packaged, running, policy, status, pre, applyMu, tmp, cut>>
  <2>1. CASE SetLastAutoUpdate
    BY <2>1 DEF SetLastAutoUpdate, InstTo
  <2>2. CASE AutoRestart
    BY <2>2 DEF AutoRestart, InstTo
  <2> QED
    BY <2>1, <2>2
<1>1. inst[AutoLoop] \in Places /\ inst[AutoLoop] \notin Work
  BY <1>0, Apart, PlacesApart DEF UpdateInv, UpdateTyped, WorkPcs
<1>2. notice' \in Releasable /\ status' \in Releasable
  <2>1. CASE SetLastAutoUpdate
    <3>1. inst[AutoLoop] \in Recording
      BY <1>1, <2>1, PlacesApart DEF SetLastAutoUpdate
    <3> QED
      BY <2>1, <3>1 DEF SetLastAutoUpdate, UpdateInv, UpdateTyped, Recording
  <2>2. CASE AutoRestart
    BY <2>2 DEF AutoRestart, UpdateInv, UpdateTyped
  <2> QED
    BY <2>1, <2>2
<1>3. Move(AutoLoop, to)
  BY <1>0, Apart DEF Move, Places
<1>4. to \notin Work /\ to.pc \notin WorkPcs
  BY PlacesApart DEF WorkPcs
<1>5. applyMu' = Unlocked(AutoLoop)
  <2>1. applyMu # AutoLoop
    BY <1>1, Apart DEF UpdateInv, LockIsHeld
  <2> QED
    BY <1>0, <2>1 DEF Unlocked
<1>6. AutoLoop \in tmp' => inst[AutoLoop].pc \notin {"verify", "aside", "swap"}
  BY <1>0
<1> HIDE DEF to
<1> QED
  BY <1>0, <1>2, <1>3, <1>4, <1>5, <1>6, EndsKeeps

LEMMA KillCliKeeps == ASSUME UpdateInv, KillCli PROVE UpdateInv'
<1>0. /\ inst' = [inst EXCEPT ![Cli] = Idle] /\ cut' = cut \cup (IF Cli \in tmp THEN {"file"} ELSE {})
      /\ UNCHANGED <<os, latest, exe, packaged, running, policy, notice, status, pre, applyMu, tmp>>
  BY DEF KillCli, InstTo
<1>1. Move(Cli, Idle)
  BY <1>0, Apart DEF Move, Places
<1>2. Idle \notin Work /\ Idle.pc \notin WorkPcs
  BY PlacesApart DEF WorkPcs
<1>3. applyMu' = Unlocked(Cli)
  BY <1>0, Apart DEF Unlocked, UpdateInv, UpdateTyped
<1>4. notice' \in Releasable /\ status' \in Releasable
  BY <1>0 DEF UpdateInv, UpdateTyped
<1> QED
  BY <1>0, <1>1, <1>2, <1>3, <1>4, EndsKeeps

LEMMA NewProcessKeeps ==
    ASSUME UpdateInv, NewProcess, cut \subseteq cut', tmp \cap InApp # {} => "file" \in cut'
    PROVE  UpdateInv'
<1> USE DEF UpdateInv
<1>0. /\ UNCHANGED <<os, latest, exe, packaged, policy, notice, tmp>> /\ applyMu' = "nobody" /\ running' = exe.v
      /\ status' = Dev /\ pre' = Blocked
  BY DEF NewProcess
<1>1. /\ inst' \in [Installers -> Places] /\ \A i \in InApp : inst'[i] = Idle
      /\ inst'[Cli] = inst[Cli]
  BY Apart DEF NewProcess, UpdateTyped, Places
<1>2. Idle \notin Work /\ Idle.pc = "idle"
  BY PlacesApart
<1>3. UpdateTyped'
  BY <1>0, <1>1 DEF UpdateTyped, Releasable, Blocked, Executables
<1>4. LockIsHeld' /\ AutoIsAllowed'
  BY <1>0, <1>1, <1>2, Apart DEF LockIsHeld, AutoIsAllowed
<1>5. WorkIsKnown'
  BY <1>0, <1>1, <1>2, Apart DEF WorkIsKnown, Knows
<1>6. OneAside' /\ AsideOnWindows'
  BY <1>0, <1>1, <1>2, Apart DEF OneAside, AsideOnWindows
<1>7. NewestIsLatest' /\ NeverUnverified'
  BY <1>0, <1>1, <1>2, Apart DEF NewestIsLatest, NeverUnverified
<1>8. FilesAreOwned'
  <2> SUFFICES ASSUME "file" \notin cut', NEW j \in tmp PROVE inst'[j].pc \in {"verify", "aside", "swap"}
    BY <1>0 DEF FilesAreOwned
  <2>1. inst[j].pc \in {"verify", "aside", "swap"} /\ j = Cli
    BY Apart DEF FilesAreOwned, UpdateTyped
  <2> QED
    BY <1>1, <2>1
<1> QED
  BY <1>3, <1>4, <1>5, <1>6, <1>7, <1>8

LEMMA UpdateStep == ASSUME UpdateInv, [Next]_yvars PROVE UpdateInv'
<1>1. CASE UNCHANGED yvars
  <2>1. UNCHANGED Besides /\ UNCHANGED <<policy, status, pre, notice>>
    BY <1>1 DEF yvars, Besides
  <2> QED
    BY <2>1, BesidesKeeps DEF UpdateInv, UpdateTyped
<1>2. CASE \E v \in Versions : Publish(v)
  BY <1>2, PublishKeeps
<1>3. CASE \/ \E on \in BOOLEAN, ceiling \in Granularities : SetSelfUpdatePolicy(on, ceiling)
           \/ RefreshStatus \/ RefreshPrecheck \/ HandleRestart \/ Flush
  BY <1>3, SettingsKeep
<1>4. CASE (\E a \in Admins : HandleApplyUpdate(a)) \/ AutoApply \/ SelfUpgrade
  BY <1>4, StartsKeep
<1>5. CASE \E i \in Installers : Install(i)
  BY <1>5, ResolveKeeps, CheckKeeps, DownloadKeeps, VerifyKeeps, RenameAsideKeeps, SwapKeeps, SwapFailsKeeps DEF Install
<1>6. CASE Reexec \/ Kill
  BY <1>6, NewProcessKeeps DEF Reexec, Kill
<1> QED
  BY <1>1, <1>2, <1>3, <1>4, <1>5, <1>6, InstallPackageKeeps, RecordKeeps, KillCliKeeps DEF Next

LEMMA UpdateEnough == ASSUME UpdateInv PROVE TypeOK /\ NeverUnverified /\ PackageIsRespected /\ FilesAreOwned
<1> USE DEF UpdateInv
<1>1. TypeOK
  BY DEF TypeOK, UpdateTyped, Executables, Releasable, LockIsHeld, Work, WorkPcs
<1>2. PackageIsRespected
  BY AtWork DEF PackageIsRespected, Knows, PastResolve, WorkPcs
<1> QED
  BY <1>1, <1>2

-----------------------------------------------------------------------------
(* The two action properties. Only a swap puts a release of the app in       *)
(* place, and only AutoLoop's swap leads to its record.                          *)
CeilingStep ==
    inst[AutoLoop].pc = "swap" /\ inst'[AutoLoop].pc = "record" => Allows(inst[AutoLoop].ceiling, Delta(running, exe'.v))
ForwardStep == exe.by = "app" /\ exe'.by = "app" => ~Less(exe'.v, exe.v)

LEMMA SwapSteps == ASSUME UpdateInv, NEW i \in Installers, Swap(i) PROVE CeilingStep /\ ForwardStep
<1>0. inst[i].pc = "swap" /\ inst[i].pc \in PastResolve
      /\ exe' = [v |-> inst[i].rel, by |-> IF i = Cli THEN "cli" ELSE "app", good |-> inst[i].good]
  BY DEF Swap, PastResolve, WorkPcs
<1>1. inst[i] \in Work /\ (i \in InApp => applyMu = i /\ inst[i].current = running)
  BY <1>0, AtWork DEF WorkPcs
<1>2. CeilingStep
  <2>1. CASE i = AutoLoop
    BY <1>0, <1>1, <2>1, Apart DEF CeilingStep, UpdateInv, AutoIsAllowed
  <2>2. CASE i # AutoLoop
    <3>1. inst'[AutoLoop] = inst[AutoLoop]
      BY <2>2, Apart DEF Swap, InstTo, UpdateInv, UpdateTyped
    <3> QED
      BY <3>1 DEF CeilingStep
  <2> QED
    BY <2>1, <2>2
<1>3. ForwardStep
  <2> SUFFICES ASSUME exe.by = "app", exe'.by = "app" PROVE ~Less(exe'.v, exe.v)
    BY DEF ForwardStep
  <2>1. i \in InApp /\ exe # None
    BY <1>0, Apart DEF None
  <2>2. os = "unix"
    BY <1>0, <2>1 DEF UpdateInv, UpdateTyped, OneAside
  <2> QED
    BY <1>0, <1>1, <2>1, <2>2 DEF UpdateInv, NewestIsLatest
<1> QED
  BY <1>2, <1>3

LEMMA OtherSteps ==
    ASSUME UpdateInv, [Next]_yvars, \A i \in Installers : ~Swap(i)
    PROVE  CeilingStep /\ ForwardStep
<1> USE DEF UpdateInv
<1>0. exe.v \in Releasable /\ \A i \in Installers : inst[i] \in Places
  BY DEF UpdateTyped, Executables
<1>1. ASSUME exe' = exe, inst'[AutoLoop].pc # "record" \/ inst'[AutoLoop] = inst[AutoLoop] PROVE CeilingStep /\ ForwardStep
  BY <1>0, <1>1, LessOrder DEF CeilingStep, ForwardStep
<1>2. CASE UNCHANGED yvars
  BY <1>1, <1>2 DEF yvars
<1>3. CASE (\E v \in Versions : Publish(v)) \/ (\E on \in BOOLEAN, ceiling \in Granularities : SetSelfUpdatePolicy(on, ceiling))
           \/ RefreshStatus \/ RefreshPrecheck \/ HandleRestart \/ Flush
  BY <1>1, <1>3 DEF Publish, SetSelfUpdatePolicy, RefreshStatus, RefreshPrecheck, HandleRestart, Flush
<1>4. CASE InstallPackage
  BY <1>4 DEF InstallPackage, CeilingStep, ForwardStep
<1>5. ASSUME NEW i \in Installers, NEW to, to.pc # "record", InstTo(i, to), exe' = exe PROVE CeilingStep /\ ForwardStep
  <2>1. inst'[AutoLoop] = inst[AutoLoop] \/ inst'[AutoLoop] = to
    BY <1>5, Apart DEF InstTo, UpdateTyped
  <2> QED
    BY <1>1, <1>5, <2>1
<1>6. CASE (\E a \in Admins : HandleApplyUpdate(a)) \/ AutoApply \/ SelfUpgrade
  <2>1. \A current, ceiling :
            [pc |-> "resolve", current |-> current, ceiling |-> ceiling, packaged |-> packaged, rel |-> Dev,
             good |-> FALSE, old |-> None].pc # "record"
    OBVIOUS
  <2>2. exe' = exe /\ \E i \in Installers : \E current, ceiling : Begin(i, current, ceiling)
    <3>1. \A a \in Admins : a \in Installers
      BY DEF Installers, InApp
    <3>2. CASE \E a \in Admins : HandleApplyUpdate(a)
      BY <3>1, <3>2 DEF HandleApplyUpdate
    <3>3. CASE AutoApply
      BY <3>3, Apart DEF AutoApply
    <3>4. CASE SelfUpgrade
      BY <3>4, Apart DEF SelfUpgrade
    <3> QED
      BY <1>6, <3>2, <3>3, <3>4
  <2> QED
    BY <1>5, <2>1, <2>2 DEF Begin
<1>7. ASSUME NEW i \in Installers, Install(i) PROVE CeilingStep /\ ForwardStep
  <2>0. Idle.pc # "record"
    BY DEF Idle
  <2>1. CASE Refuse(i) /\ exe' = exe
    BY <1>5, <2>0, <2>1 DEF Refuse
  <2>2. ASSUME inst[i].pc \in WorkPcs, NEW pc, pc # "record",
               NEW to, to \in {[inst[i] EXCEPT !.pc = pc], [inst[i] EXCEPT !.pc = pc, !.rel = latest],
                               [inst[i] EXCEPT !.pc = pc, !.good = TRUE], [inst[i] EXCEPT !.pc = pc, !.old = exe]}
        PROVE  to.pc # "record"
    <3>1. inst[i] \in Work
      BY <2>2, AtWork
    <3> QED
      BY <2>2, <3>1 DEF Work
  <2>3. CASE Resolve(i) /\ ~Refuse(i)
    <3>1. exe' = exe /\ InstTo(i, [inst[i] EXCEPT !.pc = "check", !.rel = latest]) /\ inst[i].pc \in WorkPcs
      BY <2>3 DEF Resolve, WorkPcs
    <3> QED
      BY <1>5, <2>2, <3>1
  <2>4. CASE Check(i) /\ ~Refuse(i)
    <3>1. exe' = exe /\ InstTo(i, [inst[i] EXCEPT !.pc = "download"]) /\ inst[i].pc \in WorkPcs
      BY <2>4 DEF Check, WorkPcs
    <3> QED
      BY <1>5, <2>2, <3>1
  <2>5. CASE Download(i) /\ ~Refuse(i)
    <3>1. /\ exe' = exe /\ inst[i].pc \in WorkPcs
          /\ InstTo(i, [inst[i] EXCEPT !.pc = "verify"]) \/ InstTo(i, [inst[i] EXCEPT !.pc = "verify", !.good = TRUE])
      BY <2>5 DEF Download, WorkPcs
    <3> QED
      BY <1>5, <2>2, <3>1
  <2>6. CASE Verify(i) /\ ~Refuse(i)
    <3>1. /\ exe' = exe /\ inst[i].pc \in WorkPcs
          /\ InstTo(i, [inst[i] EXCEPT !.pc = IF os = "windows" THEN "aside" ELSE "swap"])
      BY <2>6 DEF Verify, WorkPcs
    <3> QED
      BY <1>5, <2>2, <3>1
  <2>7. CASE RenameAside(i) /\ exe # None
    <3>1. exe' = None /\ InstTo(i, [inst[i] EXCEPT !.pc = "swap", !.old = exe]) /\ inst[i].pc \in WorkPcs
      BY <2>7 DEF RenameAside, WorkPcs
    <3>2. inst'[AutoLoop] = inst[AutoLoop] \/ inst'[AutoLoop].pc # "record"
      BY <2>2, <3>1, Apart DEF InstTo, UpdateTyped
    <3> QED
      BY <3>1, <3>2 DEF CeilingStep, ForwardStep, None
  <2>8. CASE SwapFails(i)
    <3>1. inst'[AutoLoop] = inst[AutoLoop] \/ inst'[AutoLoop].pc # "record"
      BY <2>0, <2>8, Apart DEF SwapFails, Refuse, InstTo, UpdateTyped
    <3>2. exe' = exe \/ exe = None
      BY <2>8 DEF SwapFails, OneAside
    <3>3. CASE exe = None
      <4>1. exe.by # "app"
        BY <3>3 DEF None
      <4> QED
        BY <3>1, <4>1 DEF CeilingStep, ForwardStep
    <3> QED
      BY <1>1, <3>1, <3>2, <3>3
  <2> QED
    BY <1>7, <2>1, <2>3, <2>4, <2>5, <2>6, <2>7, <2>8 DEF Install, Resolve, Check, Download, Verify, RenameAside
<1>8. CASE SetLastAutoUpdate \/ AutoRestart \/ KillCli
  <2>1. Idle.pc # "record" /\ [pc |-> "restart"].pc # "record"
    BY DEF Idle
  <2>2. \E i \in Installers, to \in {Idle, [pc |-> "restart"]} : InstTo(i, to) /\ exe' = exe
    <3>1. CASE SetLastAutoUpdate
      BY <3>1, Apart DEF SetLastAutoUpdate
    <3>2. CASE AutoRestart
      BY <3>2, Apart DEF AutoRestart
    <3>3. CASE KillCli
      BY <3>3, Apart DEF KillCli
    <3> QED
      BY <1>8, <3>1, <3>2, <3>3
  <2> QED
    BY <1>5, <2>1, <2>2
<1>9. CASE Reexec \/ Kill
  <2>1. exe' = exe /\ inst'[AutoLoop] = Idle
    BY <1>9, Apart DEF Reexec, Kill, NewProcess
  <2> QED
    BY <1>1, <2>1 DEF Idle
<1> QED
  BY <1>2, <1>3, <1>4, <1>6, <1>7, <1>8, <1>9 DEF Next

(* The invariant holds throughout, for every set of releases and requests.   *)
THEOREM UpdateInvariance == Spec => []UpdateInv
<1>1. Init => UpdateInv
  BY UpdateInit
<1>2. UpdateInv /\ [Next]_yvars => UpdateInv'
  BY UpdateStep
<1> QED
  BY <1>1, <1>2, PTL DEF Spec

(* What runs was verified and is no file of a package, an upgrade by policy  *)
(* is within its ceiling, and upgrades from the app never go back.           *)
THEOREM UpdateSound ==
    Spec => /\ [](TypeOK /\ NeverUnverified /\ PackageIsRespected /\ FilesAreOwned)
            /\ [][CeilingStep /\ ForwardStep]_yvars
<1>1. UpdateInv => TypeOK /\ NeverUnverified /\ PackageIsRespected /\ FilesAreOwned
  BY UpdateEnough
<1>2. UpdateInv /\ [Next]_yvars => [CeilingStep /\ ForwardStep]_yvars
  BY SwapSteps, OtherSteps
<1> QED
  BY <1>1, <1>2, UpdateInvariance, PTL DEF Spec

-----------------------------------------------------------------------------
(****************************************************************************)
(* Domain routes.  The invariant relates every answer, in the cache, in a   *)
(* flight or in a client's hands, to the key it was asked for and to how    *)
(* long ago the daemon gave it.                                             *)
(****************************************************************************)
(* A mapping, the key it is cached under and what the daemon said of it, no  *)
(* longer ago than a limit.                                                  *)
Mapping == [id : Nat \ {0}, project : D!Projects, target : Targets]
CacheKeys == [domain : D!Names, id : Nat \ {0}, project : D!Projects, target : Targets]
Told == [addr : {D!Down}, why : {"moved", "absent", "timeout", "expired"}, age : Nat]
Found == [addr : Addrs, owner : [project : D!Projects, target : Targets], age : Nat]
AnswerFor(key, ans, limit) ==
    \/ ans \in Told
    \/ /\ ans \in Found /\ ans.age <= limit
       /\ ans.owner = [project |-> key.project, target |-> key.target]

Entries == [key : CacheKeys, ans : Told \cup Found, left : 0..TTL]
CacheOK == \A e \in cache : e \in Entries /\ AnswerFor(e.key, e.ans, TTL + Timeout - e.left)

Asking == [key : CacheKeys, m : Mapping, pc : {"check", "list"}, age : 0..Timeout]
Answering == [key : CacheKeys, m : Mapping, pc : {"store"}, age : 0..Timeout, ans : Told \cup Found]
FlightOK(f) ==
    /\ f \in Asking \cup Answering
    /\ f.key.project = f.m.project /\ f.key.target = f.m.target
    /\ f.pc = "store" => AnswerFor(f.key, f.ans, f.age)
FlightsOK == \A f \in flights : FlightOK(f)
OneFlight == \A f, g \in flights : f.key = g.key => f = g

Opened == [pc : {"open"}, sni : D!Names]
Seeking == [pc : {"lookup", "join", "wait"}, sni : D!Names, domain : D!Names, m : Mapping]
Dialing == [pc : {"dial"}, sni : D!Names, domain : D!Names, m : Mapping, ans : Told \cup Found]
ConnOK(x, held) ==
    /\ x \in {D!Idle} \cup Opened \cup Seeking \cup Dialing
    /\ x \in Opened => x.sni \in held \cup {Admin}
    /\ x \in Seeking \cup Dialing => x.sni = x.domain /\ x.domain \in held
    /\ x \in Dialing => AnswerFor(D!CacheKey(x.domain, x.m), x.ans, TTL + Timeout - 1)
ConnsOK == conn \in [Clients -> {D!Idle} \cup Opened \cup Seeking \cup Dialing] /\ \A c \in Clients : ConnOK(conn[c], certs)

Edits == {D!Idle} \cup [pc : {"drop"}, project : D!Projects]
         \cup [pc : {"create"}, project : D!Projects, domain : D!Names, target : Targets]
         \cup [pc : {"update"}, domain : D!Names, id : Nat \ {0}, target : Targets]
RowsTyped ==
    /\ proj \in [D!Projects -> {"local", "remote", "gone"}]
    /\ rows \in [D!Names -> {D!NoRow} \cup Mapping] /\ nextRow \in Nat \ {0}
    /\ bound \in [Addrs -> D!Owners] /\ edit \in [Editors -> Edits]

RoutesInv ==
    /\ RowsTyped /\ CacheOK /\ FlightsOK /\ OneFlight /\ ConnsOK
    /\ nextSweep \in Nat /\ certs \subseteq Domains /\ D!NoNeedlessListing

-----------------------------------------------------------------------------
LEMMA RowsApart == D!NoRow \notin Mapping /\ D!NoRow.id = 0 /\ \A m \in Mapping : m.id # 0
  BY DEF D!NoRow, Mapping

LEMMA KeyTyped == ASSUME NEW d \in D!Names, NEW m \in Mapping
                  PROVE  /\ D!CacheKey(d, m) \in CacheKeys
                         /\ D!CacheKey(d, m).project = m.project /\ D!CacheKey(d, m).target = m.target
  BY DEF D!CacheKey, CacheKeys, Mapping

LEMMA Later == ASSUME NEW key, NEW ans, NEW k \in Int, NEW n \in Int, k <= n, AnswerFor(key, ans, k)
               PROVE  AnswerFor(key, ans, n)
<1>1. CASE ans \in Told
  BY <1>1 DEF AnswerFor
<1>2. CASE ans \in Found /\ ans.age <= k /\ ans.owner = [project |-> key.project, target |-> key.target]
  <2>1. ans.age \in Nat
    BY <1>2 DEF Found
  <2>2. ans.age <= n
    BY <1>2, <2>1
  <2> QED
    BY <1>2, <2>2 DEF AnswerFor
<1> QED
  BY <1>1, <1>2 DEF AnswerFor

LEMMA RoutesInit == ASSUME D!BoundsOK, D!Init PROVE RoutesInv
<1> USE DEF D!Init
<1>1. RowsTyped
  BY DEF RowsTyped, D!Owners, Edits
<1>2. CacheOK /\ FlightsOK /\ OneFlight /\ D!NoNeedlessListing /\ nextSweep \in Nat /\ certs \subseteq Domains
  BY DEF CacheOK, FlightsOK, OneFlight, D!NoNeedlessListing
<1>3. ConnsOK
  BY DEF ConnsOK, ConnOK, D!Idle, Opened, Seeking, Dialing
<1> QED
  BY <1>1, <1>2, <1>3 DEF RoutesInv

-----------------------------------------------------------------------------
(* Editors, hosts and containers touch neither the cache nor a client.       *)
Proxying == <<cache, nextSweep, flights, conn, certs>>
LEMMA RowsKeep == ASSUME RoutesInv, RowsTyped', UNCHANGED Proxying PROVE RoutesInv'
<1> USE DEF RoutesInv, Proxying
<1>1. CacheOK' /\ FlightsOK' /\ OneFlight' /\ ConnsOK'
  BY DEF CacheOK, FlightsOK, OneFlight, ConnsOK
<1>2. D!NoNeedlessListing'
  BY DEF D!NoNeedlessListing, D!Hits
<1> QED
  BY <1>1, <1>2

LEMMA ProjectKeeps ==
    ASSUME RoutesInv, NEW p \in D!Projects, NEW kind \in {"local", "remote"}, D!MoveProject(p, kind)
    PROVE  RoutesInv'
<1>1. RowsTyped' /\ UNCHANGED Proxying
  BY DEF D!MoveProject, Proxying, RoutesInv, RowsTyped
<1> QED
  BY <1>1, RowsKeep

LEMMA EditTyped == ASSUME RoutesInv, NEW e \in Editors, NEW x \in Edits, D!EditTo(e, x) PROVE edit' \in [Editors -> Edits]
  BY DEF D!EditTo, RoutesInv, RowsTyped

LEMMA EditsAre ==
    ASSUME RoutesInv, NEW e \in Editors
    PROVE  /\ edit[e].pc = "drop" => edit[e].project \in D!Projects
           /\ edit[e].pc = "create" => edit[e].project \in D!Projects /\ edit[e].domain \in D!Names /\ edit[e].target \in Targets
           /\ edit[e].pc = "update" => edit[e].domain \in D!Names /\ edit[e].id \in Nat \ {0} /\ edit[e].target \in Targets
  BY DEF RoutesInv, RowsTyped, Edits, D!Idle

LEMMA DropKeeps ==
    ASSUME RoutesInv, NEW e \in Editors, (\E p \in D!Projects : D!DeleteDomainMappings(e, p)) \/ D!DeleteProjectRow(e)
    PROVE  RoutesInv'
<1>1. \E x \in Edits : D!EditTo(e, x)
  BY DEF D!DeleteDomainMappings, D!DeleteProjectRow, Edits
<1>2. edit' \in [Editors -> Edits]
  BY <1>1, EditTyped
<1>3. rows' \in [D!Names -> {D!NoRow} \cup Mapping] /\ UNCHANGED <<nextRow, bound>> /\ UNCHANGED Proxying
  BY DEF D!DeleteDomainMappings, D!DeleteProjectRow, RoutesInv, RowsTyped, Proxying
<1>4. proj' \in [D!Projects -> {"local", "remote", "gone"}]
  BY EditsAre DEF D!DeleteDomainMappings, D!DeleteProjectRow, RoutesInv, RowsTyped
<1>5. RowsTyped'
  BY <1>2, <1>3, <1>4 DEF RoutesInv, RowsTyped
<1> QED
  BY <1>3, <1>5, RowsKeep

LEMMA LoadKeeps ==
    ASSUME RoutesInv, NEW e \in Editors, NEW p \in D!Projects, NEW d \in D!Names, NEW t \in Targets,
           D!LoadForCreate(e, p, d, t) \/ D!LoadForUpdate(e, d, t)
    PROVE  RoutesInv'
<1>1. \E x \in Edits : D!EditTo(e, x)
  <2>1. CASE D!LoadForCreate(e, p, d, t)
    BY <2>1 DEF D!LoadForCreate, Edits
  <2>2. CASE D!LoadForUpdate(e, d, t)
    <3>1. rows[d].id \in Nat \ {0}
      BY <2>2 DEF D!LoadForUpdate, RoutesInv, RowsTyped, Mapping
    <3> QED
      BY <2>2, <3>1 DEF D!LoadForUpdate, Edits
  <2> QED
    BY <2>1, <2>2
<1>2. edit' \in [Editors -> Edits]
  BY <1>1, EditTyped
<1>3. UNCHANGED <<proj, rows, nextRow, bound>> /\ UNCHANGED Proxying
  BY DEF D!LoadForCreate, D!LoadForUpdate, Proxying
<1>5. RowsTyped'
  BY <1>2, <1>3 DEF RoutesInv, RowsTyped
<1> QED
  BY <1>3, <1>5, RowsKeep

LEMMA CreateMappingKeeps == ASSUME RoutesInv, NEW e \in Editors, D!CreateDomainMapping(e) PROVE RoutesInv'
<1>1. edit' \in [Editors -> Edits]
  BY EditTyped DEF D!CreateDomainMapping, Edits
<1>2. UNCHANGED <<proj, bound>> /\ UNCHANGED Proxying
  BY DEF D!CreateDomainMapping, Proxying
<1>3. rows' \in [D!Names -> {D!NoRow} \cup Mapping] /\ nextRow' \in Nat \ {0}
  <2>1. edit[e].project \in D!Projects /\ edit[e].domain \in D!Names /\ edit[e].target \in Targets
    BY EditsAre DEF D!CreateDomainMapping
  <2>2. [id |-> nextRow, project |-> edit[e].project, target |-> edit[e].target] \in Mapping
    BY <2>1 DEF Mapping, RoutesInv, RowsTyped
  <2> QED
    BY <2>1, <2>2 DEF D!CreateDomainMapping, RoutesInv, RowsTyped
<1>4. RowsTyped'
  BY <1>1, <1>2, <1>3 DEF RoutesInv, RowsTyped
<1> QED
  BY <1>2, <1>4, RowsKeep

LEMMA UpdateMappingKeeps == ASSUME RoutesInv, NEW e \in Editors, D!UpdateDomainMapping(e) PROVE RoutesInv'
<1>1. edit' \in [Editors -> Edits]
  BY EditTyped DEF D!UpdateDomainMapping, Edits
<1>2. UNCHANGED <<proj, nextRow, bound>> /\ UNCHANGED Proxying
  BY DEF D!UpdateDomainMapping, Proxying
<1>3. rows' \in [D!Names -> {D!NoRow} \cup Mapping]
  <2>1. edit[e].domain \in D!Names /\ edit[e].id \in Nat \ {0} /\ edit[e].target \in Targets
    BY EditsAre DEF D!UpdateDomainMapping
  <2>2. rows[edit[e].domain].id = edit[e].id => rows[edit[e].domain] \in Mapping
    BY <2>1, RowsApart DEF RoutesInv, RowsTyped
  <2>3. rows[edit[e].domain].id = edit[e].id => [rows[edit[e].domain] EXCEPT !.target = edit[e].target] \in Mapping
    BY <2>1, <2>2 DEF Mapping
  <2>4. rows' = IF rows[edit[e].domain].id = edit[e].id
                  THEN [rows EXCEPT ![edit[e].domain] = [rows[edit[e].domain] EXCEPT !.target = edit[e].target]]
                  ELSE rows
    BY DEF D!UpdateDomainMapping
  <2> QED
    BY <2>1, <2>3, <2>4 DEF RoutesInv, RowsTyped
<1>4. RowsTyped'
  BY <1>1, <1>2, <1>3 DEF RoutesInv, RowsTyped
<1> QED
  BY <1>2, <1>4, RowsKeep

LEMMA HostKeeps ==
    ASSUME RoutesInv,
           (\E d \in D!Names : D!DeleteDomainMapping(d)) \/ D!DeleteLocalHost \/ (\E a \in Addrs, o \in D!Owners : D!Publish(a, o))
    PROVE  RoutesInv'
<1>1. UNCHANGED Proxying
  BY DEF D!DeleteDomainMapping, D!DeleteLocalHost, D!Publish, Proxying
<1>2. RowsTyped'
  BY DEF D!DeleteDomainMapping, D!DeleteLocalHost, D!Publish, RoutesInv, RowsTyped
<1> QED
  BY <1>1, <1>2, RowsKeep

-----------------------------------------------------------------------------
(* Clients.                                                                  *)
LEMMA ConnMoves ==
    ASSUME RoutesInv, NEW c \in Clients, NEW to, D!ConnTo(c, to), ConnOK(to, certs'), certs \subseteq certs'
    PROVE  ConnsOK'
<1>1. to \in {D!Idle} \cup Opened \cup Seeking \cup Dialing
  BY DEF ConnOK
<1>2. conn' \in [Clients -> {D!Idle} \cup Opened \cup Seeking \cup Dialing] /\ conn'[c] = to /\ \A b \in Clients \ {c} : conn'[b] = conn[b]
  BY <1>1 DEF D!ConnTo, RoutesInv, ConnsOK
<1>3. \A b \in Clients : ConnOK(conn[b], certs')
  BY DEF RoutesInv, ConnsOK, ConnOK
<1> QED
  BY <1>2, <1>3 DEF ConnsOK

LEMMA ConnsAre ==
    ASSUME RoutesInv, NEW c \in Clients
    PROVE  /\ conn[c].pc = "open" => conn[c] \in Opened /\ conn[c].sni \in certs \cup {Admin}
           /\ conn[c].pc \in {"lookup", "join", "wait"} =>
                conn[c] \in Seeking /\ conn[c].sni = conn[c].domain /\ conn[c].domain \in certs
           /\ conn[c].pc = "dial" =>
                /\ conn[c] \in Dialing /\ conn[c].sni = conn[c].domain /\ conn[c].domain \in certs
                /\ AnswerFor(D!CacheKey(conn[c].domain, conn[c].m), conn[c].ans, TTL + Timeout - 1)
<1>1. ConnOK(conn[c], certs)
  BY DEF RoutesInv, ConnsOK
<1> HIDE DEF AnswerFor
<1> QED
  BY <1>1 DEF ConnOK, D!Idle, Opened, Seeking, Dialing

LEMMA IdleOK == ASSUME NEW held PROVE ConnOK(D!Idle, held)
  BY DEF ConnOK, D!Idle, Opened, Seeking, Dialing

LEMMA HandshakeKeeps == ASSUME RoutesInv, NEW c \in Clients, NEW d \in D!Names, D!Handshake(c, d) PROVE RoutesInv'
<1> DEFINE to == [pc |-> "open", sni |-> d]
<1>1. certs' = certs \cup ({d} \ {Admin}) /\ D!ConnTo(c, to) /\ UNCHANGED <<proj, rows, nextRow, bound, edit, cache, nextSweep, flights>>
  BY DEF D!Handshake
<1>2. ConnOK(to, certs')
  BY <1>1 DEF ConnOK, Opened, Seeking, Dialing
<1> HIDE DEF to
<1>3. ConnsOK'
  BY <1>1, <1>2, ConnMoves
<1>4. certs' \subseteq Domains
  BY <1>1 DEF RoutesInv, D!Names
<1>5. RowsTyped' /\ CacheOK' /\ FlightsOK' /\ OneFlight' /\ nextSweep' \in Nat
  BY <1>1 DEF RoutesInv, RowsTyped, CacheOK, FlightsOK, OneFlight
<1>6. D!NoNeedlessListing'
  BY <1>1 DEF RoutesInv, D!NoNeedlessListing, D!Hits
<1> QED
  BY <1>3, <1>4, <1>5, <1>6 DEF RoutesInv

LEMMA RouteRequestKeeps == ASSUME RoutesInv, NEW c \in Clients, NEW d \in D!Names, D!Request(c, d) PROVE RoutesInv'
<1> DEFINE to == [pc |-> "lookup", sni |-> conn[c].sni, domain |-> d, m |-> rows[d]]
<1>1. /\ D!ConnTo(c, to) /\ UNCHANGED <<proj, rows, nextRow, bound, edit, cache, nextSweep, flights, certs>>
      /\ conn[c].pc = "open" /\ d # Admin /\ conn[c].sni = d /\ rows[d] # D!NoRow
  BY DEF D!Request, D!Directed, D!Eligible
<1>2. d \in certs /\ rows[d] \in Mapping
  BY <1>1, ConnsAre DEF RoutesInv, RowsTyped
<1>3. to \in Seeking
  BY <1>1, <1>2 DEF Seeking
<1>4. ConnOK(to, certs')
  BY <1>1, <1>2, <1>3 DEF ConnOK, Opened, Seeking, Dialing
<1> HIDE DEF to
<1>5. ConnsOK'
  BY <1>1, <1>4, ConnMoves
<1>6. RowsTyped' /\ CacheOK' /\ FlightsOK' /\ OneFlight' /\ nextSweep' \in Nat /\ certs' \subseteq Domains
  BY <1>1 DEF RoutesInv, RowsTyped, CacheOK, FlightsOK, OneFlight
<1>7. D!NoNeedlessListing'
  BY <1>1 DEF RoutesInv, D!NoNeedlessListing, D!Hits
<1> QED
  BY <1>5, <1>6, <1>7 DEF RoutesInv

LEMMA AnsweredOK ==
    ASSUME D!BoundsOK, NEW c \in Clients, conn[c] \in Seeking, conn[c].sni = conn[c].domain, conn[c].domain \in certs, NEW ans,
           AnswerFor(D!CacheKey(conn[c].domain, conn[c].m), ans, TTL + Timeout - 1)
    PROVE  ConnOK(D!Answered(c, ans), certs)
<1>1. ans \in Told \cup Found
  BY DEF AnswerFor
<1>2. D!Answered(c, ans) \in Dialing
  BY <1>1 DEF D!Answered, Dialing, Seeking
<1>3. /\ D!Answered(c, ans).sni = conn[c].sni /\ D!Answered(c, ans).domain = conn[c].domain
      /\ D!Answered(c, ans).m = conn[c].m /\ D!Answered(c, ans).ans = ans /\ D!Answered(c, ans).pc = "dial"
  BY DEF D!Answered
<1>4. D!Answered(c, ans) \notin Opened
  BY <1>3 DEF Opened
<1> QED
  BY <1>2, <1>3, <1>4 DEF ConnOK

LEMMA HitIsFresh ==
    ASSUME D!BoundsOK, RoutesInv, NEW key, NEW e \in D!Hits(key)
    PROVE  e.key = key /\ AnswerFor(key, e.ans, TTL + Timeout - 1)
<1>1. e \in cache /\ e.key = key /\ e.left > 0
  BY DEF D!Hits, D!Live
<1>2. e \in Entries /\ AnswerFor(e.key, e.ans, TTL + Timeout - e.left)
  BY <1>1 DEF RoutesInv, CacheOK
<1>3. e.left \in Int /\ TTL \in Int /\ Timeout \in Int
  BY <1>2 DEF Entries, D!BoundsOK
<1>4. TTL + Timeout - e.left \in Int /\ TTL + Timeout - 1 \in Int /\ TTL + Timeout - e.left <= TTL + Timeout - 1
  BY <1>1, <1>3
<1> QED
  BY <1>1, <1>2, <1>4, Later

LEMMA AfterLookupKeeps ==
    ASSUME RoutesInv, NEW key, cache' = D!AfterLookup(key)
    PROVE  CacheOK' /\ \A k : D!Hits(k) = {} => D!Hits(k)' = {}
<1>1. cache' \subseteq cache
  BY DEF D!AfterLookup
<1>2. CacheOK'
  BY <1>1 DEF RoutesInv, CacheOK
<1>3. \A k : D!Hits(k)' \subseteq D!Hits(k)
  BY <1>1 DEF D!Hits, D!Live
<1> QED
  BY <1>2, <1>3

LEMMA LookupKeeps == ASSUME D!BoundsOK, RoutesInv, NEW c \in Clients, D!Lookup(c) PROVE RoutesInv'
<1> DEFINE key == D!CacheKey(conn[c].domain, conn[c].m)
<1>1. /\ cache' = D!AfterLookup(key) /\ conn[c].pc = "lookup"
      /\ UNCHANGED <<proj, rows, nextRow, bound, edit, nextSweep, flights, certs>>
  BY DEF D!Lookup
<1>2. conn[c] \in Seeking /\ conn[c].sni = conn[c].domain /\ conn[c].domain \in certs
  BY <1>1, ConnsAre
<1>3. \E to : D!ConnTo(c, to) /\ ConnOK(to, certs)
  <2>1. CASE D!Hits(key) = {}
    <3> DEFINE to == [conn[c] EXCEPT !.pc = "join"]
    <3>1. D!ConnTo(c, to)
      BY <2>1 DEF D!Lookup
    <3>2. to \in Seeking /\ to.sni = conn[c].sni /\ to.domain = conn[c].domain /\ to.pc = "join"
      BY <1>2 DEF Seeking
    <3> HIDE DEF to
    <3>3. ConnOK(to, certs)
      BY <1>2, <3>2 DEF ConnOK, Opened, Dialing
    <3> QED
      BY <3>1, <3>3
  <2>2. CASE D!Hits(key) # {}
    <3>1. PICK e \in D!Hits(key) : D!ConnTo(c, D!Answered(c, e.ans))
      BY <2>2 DEF D!Lookup
    <3>2. AnswerFor(key, e.ans, TTL + Timeout - 1)
      BY HitIsFresh
    <3> QED
      BY <1>2, <3>1, <3>2, AnsweredOK
  <2> QED
    BY <2>1, <2>2
<1>4. ConnsOK'
  BY <1>1, <1>3, ConnMoves
<1> HIDE DEF key
<1>5. CacheOK' /\ D!NoNeedlessListing'
  BY <1>1, AfterLookupKeeps DEF RoutesInv, D!NoNeedlessListing
<1>6. RowsTyped' /\ FlightsOK' /\ OneFlight' /\ nextSweep' \in Nat /\ certs' \subseteq Domains
  BY <1>1 DEF RoutesInv, RowsTyped, FlightsOK, OneFlight
<1> QED
  BY <1>4, <1>5, <1>6 DEF RoutesInv

LEMMA JoinKeeps == ASSUME D!BoundsOK, RoutesInv, NEW c \in Clients, D!Join(c) PROVE RoutesInv'
<1> DEFINE key == D!CacheKey(conn[c].domain, conn[c].m)
           to == [conn[c] EXCEPT !.pc = "wait"]
           new == [key |-> key, m |-> conn[c].m, pc |-> "check", age |-> 0]
<1>1. /\ D!ConnTo(c, to) /\ conn[c].pc = "join"
      /\ flights' = (IF \E f \in flights : f.key = key THEN flights ELSE flights \cup {new})
      /\ UNCHANGED <<proj, rows, nextRow, bound, edit, cache, nextSweep, certs>>
  BY DEF D!Join
<1>2. conn[c] \in Seeking /\ conn[c].sni = conn[c].domain /\ conn[c].domain \in certs
  BY <1>1, ConnsAre
<1>3. to \in Seeking /\ to.sni = conn[c].sni /\ to.domain = conn[c].domain /\ to.pc = "wait"
  BY <1>2 DEF Seeking
<1>7. FlightOK(new) /\ new.key = key /\ new.pc = "check"
  <2>1. conn[c].domain \in D!Names /\ conn[c].m \in Mapping
    BY <1>2 DEF Seeking
  <2>2. 0 \in 0..Timeout
    BY DEF D!BoundsOK
  <2>3. key \in CacheKeys /\ key.project = conn[c].m.project /\ key.target = conn[c].m.target
    BY <2>1, KeyTyped
  <2> HIDE DEF key
  <2> QED
    BY <2>1, <2>2, <2>3 DEF FlightOK, Asking
<1> HIDE DEF to, key, new
<1>4. ConnsOK'
  <2>1. ConnOK(to, certs')
    BY <1>1, <1>2, <1>3 DEF ConnOK, Opened, Dialing
  <2> QED
    BY <1>1, <2>1, ConnMoves
<1>5. FlightsOK' /\ OneFlight'
  BY <1>1, <1>7 DEF RoutesInv, FlightsOK, OneFlight
<1>8. D!NoNeedlessListing'
  <2>1. \A f \in flights' : f \in flights \/ f = new
    BY <1>1
  <2>2. \A k : D!Hits(k)' = D!Hits(k)
    BY <1>1 DEF D!Hits
  <2> QED
    BY <1>7, <2>1, <2>2 DEF RoutesInv, D!NoNeedlessListing
<1>6. RowsTyped' /\ CacheOK' /\ nextSweep' \in Nat /\ certs' \subseteq Domains
  BY <1>1 DEF RoutesInv, RowsTyped, CacheOK
<1> QED
  BY <1>4, <1>5, <1>6, <1>8 DEF RoutesInv

LEMMA LeaveKeeps == ASSUME RoutesInv, NEW c \in Clients, D!Disconnect(c) \/ D!Finish(c) PROVE RoutesInv'
<1>1. D!ConnTo(c, D!Idle) /\ UNCHANGED <<proj, rows, nextRow, bound, edit, cache, nextSweep, certs, flights>>
  BY DEF D!Disconnect, D!Finish, D!CutFlights
<1>2. ConnsOK'
  BY <1>1, IdleOK, ConnMoves
<1>3. RowsTyped' /\ CacheOK' /\ FlightsOK' /\ OneFlight' /\ nextSweep' \in Nat /\ certs' \subseteq Domains
  BY <1>1 DEF RoutesInv, RowsTyped, CacheOK, FlightsOK, OneFlight
<1>4. D!NoNeedlessListing'
  BY <1>1 DEF RoutesInv, D!NoNeedlessListing, D!Hits
<1> QED
  BY <1>2, <1>3, <1>4 DEF RoutesInv

-----------------------------------------------------------------------------
(* Flights.                                                                  *)
LEMMA DeliverKeeps ==
    ASSUME D!BoundsOK, RoutesInv, NEW key, NEW ans, D!Deliver(key, ans), AnswerFor(key, ans, TTL + Timeout - 1), certs' = certs
    PROVE  ConnsOK'
<1>1. \A c \in Clients : ConnOK(conn'[c], certs)
  <2> SUFFICES ASSUME NEW c \in Clients PROVE ConnOK(conn'[c], certs)
    OBVIOUS
  <2>1. CASE conn[c].pc = "wait" /\ D!CacheKey(conn[c].domain, conn[c].m) = key
    <3>1. conn'[c] = D!Answered(c, ans)
      BY <2>1 DEF D!Deliver
    <3>2. conn[c] \in Seeking /\ conn[c].sni = conn[c].domain /\ conn[c].domain \in certs
      BY <2>1, ConnsAre
    <3> QED
      BY <2>1, <3>1, <3>2, AnsweredOK
  <2>2. CASE ~(conn[c].pc = "wait" /\ D!CacheKey(conn[c].domain, conn[c].m) = key)
    <3>1. conn'[c] = conn[c]
      BY <2>2 DEF D!Deliver
    <3> QED
      BY <3>1 DEF RoutesInv, ConnsOK
  <2> QED
    BY <2>1, <2>2
<1>2. \A c \in Clients : conn'[c] \in {D!Idle} \cup Opened \cup Seeking \cup Dialing
  BY <1>1 DEF ConnOK
<1>3. conn' = [c \in Clients |-> conn'[c]]
  BY DEF D!Deliver
<1> QED
  BY <1>1, <1>2, <1>3 DEF ConnsOK

LEMMA FlightCheckKeeps == ASSUME D!BoundsOK, RoutesInv, NEW f \in flights, D!FlightCheck(f) PROVE RoutesInv'
<1>1. /\ cache' = D!AfterLookup(f.key) /\ f.pc = "check"
      /\ UNCHANGED <<proj, rows, nextRow, bound, edit, nextSweep, certs>>
  BY DEF D!FlightCheck
<1>2. CacheOK' /\ \A k : D!Hits(k) = {} => D!Hits(k)' = {}
  BY <1>1, AfterLookupKeeps
<1>3. RowsTyped' /\ nextSweep' \in Nat /\ certs' \subseteq Domains
  BY <1>1 DEF RoutesInv, RowsTyped
<1>4. CASE D!Hits(f.key) = {}
  <2> DEFINE g == [f EXCEPT !.pc = "list", !.age = 0]
  <2>1. flights' = (flights \ {f}) \cup {g} /\ conn' = conn
    BY <1>4 DEF D!FlightCheck, D!Recheck
  <2>2. FlightOK(g) /\ g.key = f.key
    <3>1. f \in Asking /\ FlightOK(f)
      BY <1>1 DEF RoutesInv, FlightsOK, FlightOK, Answering
    <3>2. 0 \in 0..Timeout
      BY DEF D!BoundsOK
    <3>3. g \in Asking /\ g.pc = "list" /\ g.key = f.key /\ g.m = f.m
      BY <3>1, <3>2 DEF Asking
    <3> QED
      BY <3>1, <3>3 DEF FlightOK
  <2> HIDE DEF g
  <2>3. FlightsOK' /\ OneFlight'
    BY <2>1, <2>2 DEF RoutesInv, FlightsOK, OneFlight
  <2>4. D!NoNeedlessListing'
    BY <1>2, <1>4, <2>1, <2>2 DEF RoutesInv, D!NoNeedlessListing
  <2>5. ConnsOK'
    BY <1>1, <2>1 DEF RoutesInv, ConnsOK
  <2> QED
    BY <1>2, <1>3, <2>3, <2>4, <2>5 DEF RoutesInv
<1>5. CASE D!Hits(f.key) # {}
  <2>1. flights' = flights \ {f}
    BY <1>5 DEF D!FlightCheck, D!Recheck
  <2>2. PICK e \in D!Hits(f.key) : D!Deliver(f.key, e.ans)
    BY <1>5 DEF D!FlightCheck, D!Recheck
  <2>3. ConnsOK'
    BY <1>1, <2>2, HitIsFresh, DeliverKeeps
  <2>4. FlightsOK' /\ OneFlight' /\ D!NoNeedlessListing'
    BY <1>2, <2>1 DEF RoutesInv, FlightsOK, OneFlight, D!NoNeedlessListing
  <2> QED
    BY <1>2, <1>3, <2>3, <2>4 DEF RoutesInv
<1> QED
  BY <1>4, <1>5

LEMMA ResolvedKeeps ==
    ASSUME D!BoundsOK, RoutesInv, NEW f \in flights, f.pc = "list", NEW ans, D!Resolved(f, ans), AnswerFor(f.key, ans, f.age),
           UNCHANGED <<proj, rows, nextRow, bound, edit, cache, nextSweep, conn, certs>>
    PROVE  RoutesInv'
<1> DEFINE g == [key |-> f.key, m |-> f.m, pc |-> "store", age |-> f.age, ans |-> ans]
<1>1. flights' = (flights \ {f}) \cup {g}
  BY DEF D!Resolved
<1>2. f \in Asking /\ FlightOK(f)
  BY DEF RoutesInv, FlightsOK, FlightOK, Answering
<1>3. ans \in Told \cup Found
  BY DEF AnswerFor
<1>4. FlightOK(g) /\ g.key = f.key /\ g.pc = "store"
  <2>1. g \in Answering
    BY <1>2, <1>3 DEF Asking, Answering
  <2> QED
    BY <1>2, <2>1 DEF FlightOK
<1> HIDE DEF g
<1>5. FlightsOK' /\ OneFlight'
  BY <1>1, <1>4 DEF RoutesInv, FlightsOK, OneFlight
<1>6. D!NoNeedlessListing'
  <2>1. \A k : D!Hits(k)' = D!Hits(k)
    BY DEF D!Hits
  <2> QED
    BY <1>1, <1>4, <2>1 DEF RoutesInv, D!NoNeedlessListing
<1>7. RowsTyped' /\ CacheOK' /\ ConnsOK' /\ nextSweep' \in Nat /\ certs' \subseteq Domains
  BY DEF RoutesInv, RowsTyped, CacheOK, ConnsOK
<1> QED
  BY <1>5, <1>6, <1>7 DEF RoutesInv

LEMMA FlightListKeeps ==
    ASSUME D!BoundsOK, RoutesInv, NEW f \in flights, D!FlightList(f) \/ D!FlightTimesOut(f)
    PROVE  RoutesInv'
<1>1. f.pc = "list" /\ UNCHANGED <<proj, rows, nextRow, bound, edit, cache, nextSweep, conn, certs>>
  BY DEF D!FlightList, D!FlightTimesOut
<1>2. f \in Asking /\ FlightOK(f)
  BY <1>1 DEF RoutesInv, FlightsOK, FlightOK, Answering
<1>3. \E ans : D!Resolved(f, ans) /\ AnswerFor(f.key, ans, f.age)
  <2>1. ASSUME NEW why \in {"moved", "absent", "timeout"}, D!Resolved(f, D!NoBackend(why))
        PROVE  \E ans : D!Resolved(f, ans) /\ AnswerFor(f.key, ans, f.age)
    <3>1. D!NoBackend(why) \in Told
      BY DEF D!NoBackend, Told
    <3>2. AnswerFor(f.key, D!NoBackend(why), f.age)
      BY <3>1 DEF AnswerFor
    <3> QED
      BY <2>1, <3>2
  <2>2. ASSUME NEW a \in D!Matches(f.m), D!Resolved(f, [addr |-> a, owner |-> bound[a], age |-> 0])
        PROVE  \E ans : D!Resolved(f, ans) /\ AnswerFor(f.key, ans, f.age)
    <3> DEFINE ans == [addr |-> a, owner |-> bound[a], age |-> 0]
    <3>1. a \in Addrs /\ bound[a] = [project |-> f.m.project, target |-> f.m.target]
      BY DEF D!Matches
    <3>2. f.m \in Mapping /\ f.age \in Nat /\ f.key.project = f.m.project /\ f.key.target = f.m.target
      BY <1>2 DEF Asking, FlightOK, D!BoundsOK
    <3>3. bound[a] \in [project : D!Projects, target : Targets]
      BY <3>1, <3>2 DEF Mapping
    <3>4. ans \in Found /\ ans.age = 0 /\ ans.owner = bound[a]
      BY <3>1, <3>3 DEF Found
    <3>6. D!Resolved(f, ans)
      BY <2>2
    <3> HIDE DEF ans
    <3>5. AnswerFor(f.key, ans, f.age)
      BY <3>1, <3>2, <3>4 DEF AnswerFor
    <3> QED
      BY <3>5, <3>6
  <2> QED
    BY <2>1, <2>2 DEF D!FlightList, D!FlightTimesOut
<1> QED
  BY <1>1, <1>3, ResolvedKeeps

LEMMA FlightStoreKeeps == ASSUME D!BoundsOK, RoutesInv, NEW f \in flights, D!FlightStore(f) PROVE RoutesInv'
<1> DEFINE new == [key |-> f.key, ans |-> f.ans, left |-> TTL]
<1>1. /\ f.pc = "store" /\ flights' = flights \ {f} /\ D!Deliver(f.key, f.ans)
      /\ cache' = D!Swept({e \in cache : e.key # f.key} \cup {new})
      /\ nextSweep' = (IF nextSweep > 0 THEN nextSweep ELSE TTL)
      /\ UNCHANGED <<proj, rows, nextRow, bound, edit, certs>>
  BY DEF D!FlightStore
<1>2. f \in Answering /\ AnswerFor(f.key, f.ans, f.age) /\ f.age \in 0..Timeout
  BY <1>1 DEF RoutesInv, FlightsOK, FlightOK, Asking, Answering
<1>0. TTL \in Nat /\ TTL > 0 /\ Timeout \in Nat /\ f.age \in Int /\ f.age <= Timeout
  BY <1>2 DEF D!BoundsOK
<1>3. AnswerFor(f.key, f.ans, TTL + Timeout - 1)
  <2>1. f.age <= TTL + Timeout - 1 /\ TTL + Timeout - 1 \in Int
    BY <1>0
  <2> QED
    BY <1>0, <1>2, <2>1, Later
<1>4. ConnsOK'
  BY <1>1, <1>3, DeliverKeeps
<1>5. new \in Entries /\ AnswerFor(new.key, new.ans, TTL + Timeout - new.left) /\ new.key = f.key
  <2>1. TTL \in 0..TTL
    BY <1>0
  <2>2. new \in Entries /\ new.key = f.key /\ new.ans = f.ans /\ new.left = TTL
    BY <1>2, <2>1 DEF Entries, Answering
  <2>3. TTL + Timeout - TTL = Timeout
    BY <1>0
  <2>4. AnswerFor(f.key, f.ans, Timeout)
    BY <1>0, <1>2, Later
  <2> HIDE DEF new
  <2> QED
    BY <2>2, <2>3, <2>4
<1> HIDE DEF new
<1>6. cache' \subseteq {e \in cache : e.key # f.key} \cup {new}
  BY <1>1 DEF D!Swept
<1>7. CacheOK'
  BY <1>5, <1>6 DEF RoutesInv, CacheOK
<1>8. FlightsOK' /\ OneFlight'
  BY <1>1 DEF RoutesInv, FlightsOK, OneFlight
<1>9. D!NoNeedlessListing'
  <2> SUFFICES ASSUME NEW g \in flights', g.pc = "list" PROVE D!Hits(g.key)' = {}
    BY DEF D!NoNeedlessListing
  <2>1. g \in flights /\ g.key # f.key
    BY <1>1 DEF RoutesInv, OneFlight
  <2>2. D!Hits(g.key) = {}
    BY <2>1 DEF RoutesInv, D!NoNeedlessListing
  <2>3. \A e \in cache' : e.key = g.key => e \in cache
    BY <1>5, <1>6, <2>1
  <2> QED
    BY <2>2, <2>3 DEF D!Hits, D!Live
<1>10. RowsTyped' /\ nextSweep' \in Nat /\ certs' \subseteq Domains
  BY <1>0, <1>1 DEF RoutesInv, RowsTyped
<1> QED
  BY <1>4, <1>7, <1>8, <1>9, <1>10 DEF RoutesInv

-----------------------------------------------------------------------------
(* Time.                                                                     *)
Aged(e) == IF e.left > 1 THEN [key |-> e.key, ans |-> D!Older(e.ans), left |-> e.left - 1]
           ELSE [key |-> e.key, ans |-> D!Forgotten, left |-> 0]
Flown(f) == CASE f.pc = "check" -> f
              [] f.pc = "store" -> [f EXCEPT !.age = @ + 1, !.ans = D!Older(@)]
              [] OTHER -> [f EXCEPT !.age = @ + 1]

LEMMA OlderTold == ASSUME NEW ans \in Told PROVE D!Older(ans) \in Told
<1> DEFINE Why == {"moved", "absent", "timeout", "expired"}
<1>1. PICK a \in {D!Down}, w \in Why, k \in Nat : ans = [addr |-> a, why |-> w, age |-> k]
  BY DEF Told
<1>2. D!Older(ans) = [addr |-> a, why |-> w, age |-> k + 1]
  BY <1>1 DEF D!Older
<1>3. k + 1 \in Nat
  OBVIOUS
<1> HIDE DEF Why
<1>4. [addr |-> a, why |-> w, age |-> k + 1] \in [addr : {D!Down}, why : Why, age : Nat]
  BY <1>3
<1> QED
  BY <1>2, <1>4 DEF Told, Why

LEMMA OlderOK == ASSUME NEW key, NEW ans, NEW n \in Int, AnswerFor(key, ans, n) PROVE AnswerFor(key, D!Older(ans), n + 1)
<1>1. CASE ans \in Told
  <2>1. D!Older(ans) \in Told
    BY <1>1, OlderTold
  <2> QED
    BY <2>1 DEF AnswerFor
<1>2. CASE ans \in Found /\ ans.age <= n /\ ans.owner = [project |-> key.project, target |-> key.target]
  <2>1. D!Older(ans) \in Found /\ D!Older(ans).age = ans.age + 1 /\ D!Older(ans).owner = ans.owner /\ ans.age \in Nat
    BY <1>2 DEF D!Older, Found
  <2>2. D!Older(ans).age <= n + 1
    BY <1>2, <2>1
  <2> QED
    BY <1>2, <2>1, <2>2 DEF AnswerFor
<1> QED
  BY <1>1, <1>2 DEF AnswerFor

LEMMA AgedOK ==
    ASSUME D!BoundsOK, NEW e \in Entries, AnswerFor(e.key, e.ans, TTL + Timeout - e.left)
    PROVE  /\ Aged(e) \in Entries /\ AnswerFor(Aged(e).key, Aged(e).ans, TTL + Timeout - Aged(e).left)
           /\ Aged(e).key = e.key /\ (D!Live(Aged(e)) => D!Live(e))
<1>0. TTL \in Nat /\ Timeout \in Nat /\ e.left \in Int /\ e.left >= 0 /\ e.left <= TTL /\ e.key \in CacheKeys
  BY DEF D!BoundsOK, Entries
<1>1. CASE e.left > 1
  <2> DEFINE g == [key |-> e.key, ans |-> D!Older(e.ans), left |-> e.left - 1]
  <2>1. Aged(e) = g
    BY <1>1 DEF Aged
  <2>2. TTL + Timeout - e.left \in Int /\ TTL + Timeout - (e.left - 1) = (TTL + Timeout - e.left) + 1
    BY <1>0
  <2>3. AnswerFor(e.key, D!Older(e.ans), (TTL + Timeout - e.left) + 1)
    BY <2>2, OlderOK
  <2>4. D!Older(e.ans) \in Told \cup Found
    BY <2>3 DEF AnswerFor
  <2>5. e.left - 1 \in 0..TTL
    BY <1>0, <1>1
  <2>6. g \in Entries /\ g.key = e.key /\ g.ans = D!Older(e.ans) /\ g.left = e.left - 1
    BY <1>0, <2>4, <2>5 DEF Entries
  <2> HIDE DEF g
  <2>7. D!Live(e)
    BY <1>0, <1>1 DEF D!Live
  <2> QED
    BY <2>1, <2>2, <2>3, <2>6, <2>7
<1>2. CASE ~(e.left > 1)
  <2> DEFINE g == [key |-> e.key, ans |-> D!Forgotten, left |-> 0]
  <2>1. Aged(e) = g
    BY <1>2 DEF Aged
  <2>2. D!Forgotten \in Told
    BY DEF D!Forgotten, Told
  <2>3. 0 \in 0..TTL
    BY <1>0
  <2>4. g \in Entries /\ g.key = e.key /\ g.ans = D!Forgotten /\ g.left = 0
    BY <1>0, <2>2, <2>3 DEF Entries
  <2> HIDE DEF g
  <2>5. AnswerFor(g.key, g.ans, TTL + Timeout - g.left)
    BY <2>2, <2>4 DEF AnswerFor
  <2>6. ~D!Live(g)
    BY <2>4 DEF D!Live
  <2> QED
    BY <2>1, <2>4, <2>5, <2>6
<1> QED
  BY <1>1, <1>2

LEMMA FlownOK ==
    ASSUME D!BoundsOK, NEW f, FlightOK(f), f.pc = "check" \/ f.age < Timeout
    PROVE  FlightOK(Flown(f)) /\ Flown(f).key = f.key /\ Flown(f).pc = f.pc
<1>1. CASE f.pc = "check"
  <2>1. Flown(f) = f
    BY <1>1 DEF Flown
  <2> QED
    BY <2>1
<1>2. CASE f.pc = "list"
  <2> DEFINE g == [f EXCEPT !.age = @ + 1]
  <2>1. Flown(f) = g
    BY <1>2 DEF Flown
  <2>2. f \in Asking
    BY <1>2 DEF FlightOK, Answering
  <2>3. f.age + 1 \in 0..Timeout
    BY <1>2, <2>2 DEF Asking, D!BoundsOK
  <2>4. g \in Asking /\ g.key = f.key /\ g.m = f.m /\ g.pc = f.pc
    BY <2>2, <2>3 DEF Asking
  <2> HIDE DEF g
  <2> QED
    BY <1>2, <2>1, <2>4 DEF FlightOK
<1>3. CASE f.pc = "store"
  <2> DEFINE g == [f EXCEPT !.age = @ + 1, !.ans = D!Older(@)]
  <2>1. Flown(f) = g
    BY <1>3 DEF Flown
  <2>2. f \in Answering /\ AnswerFor(f.key, f.ans, f.age)
    BY <1>3 DEF FlightOK, Asking
  <2>3. f.age + 1 \in 0..Timeout /\ f.age \in Int
    BY <1>3, <2>2 DEF Answering, D!BoundsOK
  <2>5. AnswerFor(f.key, D!Older(f.ans), f.age + 1)
    BY <2>2, <2>3, OlderOK
  <2>6. D!Older(f.ans) \in Told \cup Found
    BY <2>5 DEF AnswerFor
  <2>4. g \in Answering /\ g.key = f.key /\ g.m = f.m /\ g.pc = f.pc /\ g.ans = D!Older(f.ans) /\ g.age = f.age + 1
    BY <2>2, <2>3, <2>6 DEF Answering
  <2> HIDE DEF g
  <2> QED
    BY <1>3, <2>1, <2>4, <2>5 DEF FlightOK
<1> QED
  BY <1>1, <1>2, <1>3 DEF FlightOK, Asking, Answering

LEMMA TickKeeps == ASSUME D!BoundsOK, RoutesInv, D!Tick PROVE RoutesInv'
<1>1. /\ cache' = {Aged(e) : e \in cache} /\ flights' = {Flown(f) : f \in flights}
      /\ nextSweep' = D!Less(nextSweep) /\ UNCHANGED <<proj, rows, nextRow, bound, edit, conn, certs>>
      /\ \A f \in flights : f.pc = "check" \/ f.age < Timeout
  BY DEF D!Tick, Aged, Flown
<1>2. \A e \in cache : /\ Aged(e) \in Entries /\ AnswerFor(Aged(e).key, Aged(e).ans, TTL + Timeout - Aged(e).left)
                       /\ Aged(e).key = e.key /\ (D!Live(Aged(e)) => D!Live(e))
  BY AgedOK DEF RoutesInv, CacheOK
<1>3. \A f \in flights : FlightOK(Flown(f)) /\ Flown(f).key = f.key /\ Flown(f).pc = f.pc
  BY <1>1, FlownOK DEF RoutesInv, FlightsOK
<1>4. CacheOK'
  <2> SUFFICES ASSUME NEW e \in cache' PROVE e \in Entries /\ AnswerFor(e.key, e.ans, TTL + Timeout - e.left)
    BY DEF CacheOK
  <2>1. PICK d \in cache : e = Aged(d)
    BY <1>1
  <2> QED
    BY <1>2, <2>1
<1>5. FlightsOK'
  <2> SUFFICES ASSUME NEW f \in flights' PROVE FlightOK(f)
    BY DEF FlightsOK
  <2>1. PICK g \in flights : f = Flown(g)
    BY <1>1
  <2> QED
    BY <1>3, <2>1
<1>6. OneFlight'
  <2> SUFFICES ASSUME NEW f \in flights', NEW g \in flights', f.key = g.key PROVE f = g
    BY DEF OneFlight
  <2>1. PICK x \in flights : f = Flown(x)
    BY <1>1
  <2>2. PICK y \in flights : g = Flown(y)
    BY <1>1
  <2>3. x.key = y.key
    BY <1>3, <2>1, <2>2
  <2>4. x = y
    BY <2>3 DEF RoutesInv, OneFlight
  <2> QED
    BY <2>1, <2>2, <2>4
<1>7. D!NoNeedlessListing'
  <2> SUFFICES ASSUME NEW f \in flights', f.pc = "list", NEW e \in cache', e.key = f.key, D!Live(e) PROVE FALSE
    BY DEF D!NoNeedlessListing, D!Hits, D!Live
  <2>1. PICK g \in flights : f = Flown(g)
    BY <1>1
  <2>2. PICK d \in cache : e = Aged(d)
    BY <1>1
  <2>3. g.pc = "list" /\ g.key = f.key
    BY <1>3, <2>1
  <2>4. d.key = f.key /\ D!Live(d)
    BY <1>2, <2>2
  <2>5. d \in D!Hits(g.key)
    BY <2>3, <2>4 DEF D!Hits
  <2> QED
    BY <2>3, <2>5 DEF RoutesInv, D!NoNeedlessListing
<1>8. RowsTyped' /\ ConnsOK' /\ certs' \subseteq Domains
  BY <1>1 DEF RoutesInv, RowsTyped, ConnsOK
<1>9. nextSweep' \in Nat
  BY <1>1 DEF RoutesInv, D!Less
<1> QED
  BY <1>4, <1>5, <1>6, <1>7, <1>8, <1>9 DEF RoutesInv

-----------------------------------------------------------------------------
LEMMA RoutesStep == ASSUME D!BoundsOK, RoutesInv, [D!Next]_D!dvars PROVE RoutesInv'
<1>1. CASE UNCHANGED D!dvars
  <2>1. UNCHANGED Proxying /\ RowsTyped'
    BY <1>1 DEF D!dvars, Proxying, RoutesInv, RowsTyped
  <2> QED
    BY <2>1, RowsKeep
<1>2. CASE \E p \in D!Projects, kind \in {"local", "remote"} : D!MoveProject(p, kind)
  BY <1>2, ProjectKeeps
<1>3. ASSUME NEW e \in Editors,
             \/ \E p \in D!Projects : D!DeleteDomainMappings(e, p)
             \/ D!DeleteProjectRow(e) \/ D!CreateDomainMapping(e) \/ D!UpdateDomainMapping(e)
      PROVE  RoutesInv'
  BY <1>3, DropKeeps, CreateMappingKeeps, UpdateMappingKeeps
<1>4. CASE \E e \in Editors, p \in D!Projects, d \in D!Names, t \in Targets : D!LoadForCreate(e, p, d, t)
  BY <1>4, LoadKeeps
<1>5. ASSUME NEW e \in Editors, NEW d \in D!Names, NEW t \in Targets, D!LoadForUpdate(e, d, t) PROVE RoutesInv'
  <2>1. \E p : p \in D!Projects
    BY <1>5 DEF D!LoadForUpdate, RoutesInv, RowsTyped, Mapping
  <2> QED
    BY <1>5, <2>1, LoadKeeps
<1>6. CASE (\E d \in D!Names : D!DeleteDomainMapping(d)) \/ D!DeleteLocalHost \/ (\E a \in Addrs, o \in D!Owners : D!Publish(a, o))
  BY <1>6, HostKeeps
<1>7. ASSUME NEW c \in Clients,
             \/ \E d \in D!Names : D!Handshake(c, d) \/ D!Request(c, d)
             \/ D!Lookup(c) \/ D!Join(c) \/ D!Disconnect(c) \/ D!Finish(c)
      PROVE  RoutesInv'
  BY <1>7, HandshakeKeeps, RouteRequestKeeps, LookupKeeps, JoinKeeps, LeaveKeeps
<1>8. ASSUME NEW f \in flights, D!FlightCheck(f) \/ D!FlightList(f) \/ D!FlightTimesOut(f) \/ D!FlightStore(f) PROVE RoutesInv'
  BY <1>8, FlightCheckKeeps, FlightListKeeps, FlightStoreKeeps
<1> QED
  BY <1>1, <1>2, <1>3, <1>4, <1>5, <1>6, <1>7, <1>8, TickKeeps DEF D!Next

LEMMA RoutesEnough ==
    ASSUME D!BoundsOK, RoutesInv
    PROVE  D!TypeOK /\ D!AnswerIsOfTheMapping /\ D!ProxiedUnderItsOwnName /\ D!NoClientPoisonsTheCache /\ D!NoNeedlessListing
<1>1. D!TypeOK
  <2>1. \A d \in D!Names : rows[d] = D!NoRow \/ rows[d].project \in D!Projects
    BY DEF RoutesInv, RowsTyped, Mapping
  <2>2. \A f \in flights : f.pc \in {"check", "list", "store"}
    BY DEF RoutesInv, FlightsOK, FlightOK, Asking, Answering
  <2>3. \A c \in Clients : conn[c].pc \in {"idle", "open"} \cup D!Served
    BY DEF RoutesInv, ConnsOK, D!Idle, Opened, Seeking, Dialing, D!Served
  <2> QED
    BY <2>1, <2>2, <2>3 DEF RoutesInv, RowsTyped, D!TypeOK
<1>2. D!AnswerIsOfTheMapping
  <2> SUFFICES ASSUME NEW c \in Clients, conn[c].pc = "dial", conn[c].ans.addr # D!Down
               PROVE  /\ conn[c].ans.owner = [project |-> conn[c].m.project, target |-> conn[c].m.target]
                      /\ conn[c].ans.age < TTL + Timeout
    BY DEF D!AnswerIsOfTheMapping
  <2>1. conn[c] \in Dialing /\ AnswerFor(D!CacheKey(conn[c].domain, conn[c].m), conn[c].ans, TTL + Timeout - 1)
    BY ConnsAre
  <2>2. /\ conn[c].ans \in Found /\ conn[c].ans.age <= TTL + Timeout - 1
        /\ conn[c].ans.owner = [project |-> D!CacheKey(conn[c].domain, conn[c].m).project,
                                target |-> D!CacheKey(conn[c].domain, conn[c].m).target]
    BY <2>1 DEF AnswerFor, Told
  <2>3. conn[c].ans.age \in Nat /\ conn[c].domain \in D!Names /\ conn[c].m \in Mapping
    BY <2>1, <2>2 DEF Found, Dialing
  <2>4. conn[c].ans.age < TTL + Timeout
    BY <2>2, <2>3 DEF D!BoundsOK
  <2> QED
    BY <2>2, <2>3, <2>4, KeyTyped
<1>3. D!ProxiedUnderItsOwnName
  BY ConnsAre DEF D!ProxiedUnderItsOwnName, D!Served
<1>4. D!NoClientPoisonsTheCache
  BY DEF D!NoClientPoisonsTheCache, RoutesInv, CacheOK, Entries, Told, Found, D!BoundsOK, D!Down
<1> QED
  BY <1>1, <1>2, <1>3, <1>4 DEF RoutesInv

(* Only a store starts a new period, and it sweeps.                          *)
LEMMA SweepSteps == ASSUME D!BoundsOK, RoutesInv, [D!Next]_D!dvars PROVE D!SweepStep
<1>1. ASSUME NEW f \in flights, D!FlightStore(f) PROVE D!SweepStep
  <2> SUFFICES ASSUME nextSweep = 0, NEW e \in cache' PROVE e.left > 0
    BY DEF D!SweepStep
  <2> DEFINE all == {x \in cache : x.key # f.key} \cup {[key |-> f.key, ans |-> f.ans, left |-> TTL]}
  <2>1. cache' = D!Swept(all)
    BY <1>1 DEF D!FlightStore
  <2> HIDE DEF all
  <2>2. cache' = {x \in all : D!Live(x)}
    BY <2>1 DEF D!Swept
  <2> QED
    BY <2>2 DEF D!Live
<1>2. CASE D!Tick
  <2>1. nextSweep' = D!Less(nextSweep)
    BY <1>2 DEF D!Tick
  <2>2. ~(nextSweep = 0 /\ nextSweep' > 0)
    BY <2>1 DEF D!Less
  <2> QED
    BY <2>2 DEF D!SweepStep
<1>3. CASE nextSweep' = nextSweep
  BY <1>3 DEF D!SweepStep, RoutesInv
<1>4. \/ nextSweep' = nextSweep \/ D!Tick \/ \E f \in flights : D!FlightStore(f)
  BY DEF D!Next, D!dvars, D!MoveProject, D!DeleteDomainMappings, D!DeleteProjectRow,
     D!CreateDomainMapping, D!UpdateDomainMapping,
         D!LoadForCreate, D!LoadForUpdate, D!DeleteDomainMapping, D!DeleteLocalHost, D!Handshake, D!Request, D!Lookup, D!Join, D!Disconnect,
         D!Finish, D!FlightCheck, D!FlightList, D!FlightTimesOut, D!Publish
<1> QED
  BY <1>1, <1>2, <1>3, <1>4

(* The invariant holds throughout, for every set of domains, clients and     *)
(* addresses, and every life of an entry.                                    *)
THEOREM RoutesInvariance == ASSUME D!BoundsOK PROVE D!Spec => []RoutesInv
<1>1. D!Init => RoutesInv
  BY RoutesInit
<1>2. RoutesInv /\ [D!Next]_D!dvars => RoutesInv'
  BY RoutesStep
<1> QED
  BY <1>1, <1>2, PTL DEF D!Spec

(* A request goes where the mapping it read points, over its own name, no    *)
(* client makes a backend "down", and a store sweeps what has expired.       *)
THEOREM RoutesSound ==
    ASSUME D!BoundsOK
    PROVE  D!Spec => /\ [](D!TypeOK /\ D!AnswerIsOfTheMapping /\ D!ProxiedUnderItsOwnName
                           /\ D!NoClientPoisonsTheCache /\ D!NoNeedlessListing)
                     /\ [][D!SweepStep]_D!dvars
<1>1. RoutesInv => /\ D!TypeOK /\ D!AnswerIsOfTheMapping /\ D!ProxiedUnderItsOwnName
                   /\ D!NoClientPoisonsTheCache /\ D!NoNeedlessListing
  BY RoutesEnough
<1>2. RoutesInv /\ [D!Next]_D!dvars => [D!SweepStep]_D!dvars
  BY SweepSteps
<1> QED
  BY <1>1, <1>2, RoutesInvariance, PTL DEF D!Spec

-----------------------------------------------------------------------------
(****************************************************************************)
(* Backup and restore of the installation.  The invariant says what an      *)
(* archive under construction has already covered of the database it        *)
(* began with, and that a restore works alone.                              *)
(****************************************************************************)
(* What a data directory, a backup process and an archive can be.            *)
Databases == [next : 0..InstallIds + 1, row : [I!Ids -> 0..MaxGens], valid : SUBSET I!Ids]
Folders == [I!Ids -> SUBSET I!Gens]
ReadingTrees == [pc : {"read", "walk", "open"}, at : 1..3, sealed : BOOLEAN, db : Databases, dirs : Folders, zips : SUBSET I!Ids,
            todo : SUBSET I!Ids]
Archives == [state : {"part", "whole"}, sealed : BOOLEAN, db : Databases, dirs : Folders, zips : SUBSET I!Ids,
             calm : BOOLEAN]
Restores == [pc : {"db", "dirs", "zips", "done"}, force : BOOLEAN]

InstallTyped ==
    /\ db \in Databases /\ hot \in BOOLEAN /\ torn \in BOOLEAN /\ calm \in BOOLEAN
    /\ dirs \in Folders /\ zips \subseteq I!Ids
    /\ server \in {"up", "down"} /\ pending \subseteq I!Ids /\ gen \in 0..MaxGens
    /\ back \in {I!Idle, [pc |-> "write"]} \cup ReadingTrees
    /\ archive \in {[state |-> "none"]} \cup Archives
    /\ rest \in {I!Idle} \cup Restores

(* Only a running server has requests, each between its row and its files;   *)
(* a restore runs beside neither a server nor a backup.                      *)
OneAtATime ==
    /\ server = "down" => pending = {}
    /\ \A p \in pending : db.row[p] # 0
    /\ rest # I!Idle => server = "down" /\ back = I!Idle /\ archive \in Archives /\ I!OpenFrom(archive)
    /\ rest.pc = "db" /\ ~rest.force => db = I!NoDb

(* Valid rows have their zips from the snapshot on to the archive.           *)
SnapshotIsCovered ==
    /\ back \in ReadingTrees /\ calm =>
        /\ back.at = 1 => db.valid \subseteq zips /\ back.pc = "read"
        /\ back.at # 1 => back.db.valid \subseteq zips
        /\ back.at = 3 /\ back.pc = "walk" => back.db.valid \subseteq back.zips \cup back.todo
        /\ back.pc = "open" => back.db.valid \subseteq back.zips
    /\ back \in ReadingTrees => (back.pc = "open" => back.at = 3) /\ (back.pc = "walk" => back.at # 1)
    /\ back = [pc |-> "write"] => archive \in Archives
    /\ archive \in Archives /\ archive.calm => archive.db.valid \subseteq archive.zips

InstallInv == InstallTyped /\ OneAtATime /\ SnapshotIsCovered

LEMMA BackKinds ==
    /\ I!Idle \notin ReadingTrees /\ [pc |-> "write"] \notin ReadingTrees /\ I!Idle # [pc |-> "write"]
    /\ [state |-> "none"] \notin Archives
    /\ I!Idle \notin Restores
  BY DEF I!Idle, ReadingTrees, Archives, Restores

LEMMA BackIs ==
    ASSUME InstallTyped
    PROVE  /\ back.pc = "idle" <=> back = I!Idle
           /\ back.pc = "write" <=> back = [pc |-> "write"]
           /\ back.pc \in {"read", "walk", "open"} <=> back \in ReadingTrees
           /\ rest.pc = "idle" <=> rest = I!Idle
           /\ rest # I!Idle <=> rest \in Restores
           /\ archive.state = "none" <=> archive = [state |-> "none"]
           /\ archive.state # "none" <=> archive \in Archives
  BY DEF InstallTyped, I!Idle, ReadingTrees, Archives, Restores

LEMMA NoDbTyped ==
    ASSUME I!BoundsOK
    PROVE  I!NoDb \in Databases /\ I!Fresh \in Databases /\ I!Fresh.valid = {} /\ I!NoDb.valid = {} /\ [p \in I!Ids |-> {}] \in Folders
<1>1. I!NoDb \in Databases /\ I!NoDb.valid = {}
  BY DEF I!NoDb, Databases, I!BoundsOK
<1>2. I!Fresh = [next |-> 1, row |-> [p \in I!Ids |-> 0], valid |-> {}]
  BY DEF I!Fresh, I!NoDb
<1>3. I!Fresh \in Databases
  BY <1>2 DEF Databases, I!BoundsOK
<1> QED
  BY <1>1, <1>2, <1>3 DEF Folders

LEMMA InstallInit == ASSUME I!BoundsOK, I!Init PROVE InstallInv
<1> USE BackKinds, NoDbTyped DEF I!Init
<1>1. InstallTyped
  <2>1. gen \in 0..MaxGens
    BY DEF I!BoundsOK
  <2> QED
    BY <2>1 DEF InstallTyped
<1>2. OneAtATime
  BY DEF OneAtATime, I!Idle
<1>3. SnapshotIsCovered
  BY DEF SnapshotIsCovered
<1> QED
  BY <1>1, <1>2, <1>3 DEF InstallInv

-----------------------------------------------------------------------------
(* The server.                                                               *)
LEMMA StartServerKeeps == ASSUME I!BoundsOK, InstallInv, I!StartServer PROVE InstallInv'
<1> USE NoDbTyped, BackKinds DEF InstallInv, I!StartServer
<1>1. InstallTyped'
  BY DEF InstallTyped
<1>2. OneAtATime'
  BY DEF OneAtATime, I!Idle
<1>3. SnapshotIsCovered'
  <2>1. db'.valid \subseteq db.valid
    OBVIOUS
  <2> QED
    BY <2>1 DEF SnapshotIsCovered
<1> QED
  BY <1>1, <1>2, <1>3

LEMMA StopServerKeeps == ASSUME I!BoundsOK, InstallInv, I!StopServer \/ I!KillServer PROVE InstallInv'
<1> USE DEF InstallInv
<1>0. UNCHANGED <<db, torn, dirs, zips, gen, back, archive, rest, calm>> /\ server' = "down" /\ pending' = {}
      /\ hot' \in {hot, FALSE}
  BY DEF I!StopServer, I!KillServer, I!install
<1>1. InstallTyped'
  BY <1>0 DEF InstallTyped
<1>2. OneAtATime'
  BY <1>0 DEF OneAtATime
<1>3. SnapshotIsCovered'
  BY <1>0 DEF SnapshotIsCovered
<1> QED
  BY <1>1, <1>2, <1>3

LEMMA InstallCreateRow == ASSUME I!BoundsOK, InstallInv, I!CreateRow PROVE InstallInv'
<1> USE DEF InstallInv, I!CreateRow
<1>0. /\ db.next \in I!Ids /\ db \in Databases /\ gen + 1 \in 1..MaxGens
      /\ db' = [next |-> db.next + 1, row |-> [db.row EXCEPT ![db.next] = gen + 1], valid |-> db.valid]
  <2>1. db.next \in I!Ids /\ db \in Databases
    BY DEF InstallTyped
  <2>2. gen + 1 \in 1..MaxGens
    BY DEF InstallTyped, I!BoundsOK
  <2>3. db' = [db EXCEPT !.next = @ + 1, !.row[db.next] = gen + 1]
    OBVIOUS
  <2> QED
    BY <2>1, <2>2, <2>3 DEF Databases
<1>4. db' \in Databases
  <2>1. db.next + 1 \in 0..InstallIds + 1
    BY <1>0 DEF I!Ids, I!BoundsOK
  <2>2. [db.row EXCEPT ![db.next] = gen + 1] \in [I!Ids -> 0..MaxGens]
    <3>1. gen + 1 \in 0..MaxGens
      BY <1>0 DEF I!BoundsOK
    <3> QED
      BY <1>0, <3>1 DEF Databases
  <2> QED
    BY <1>0, <2>1, <2>2 DEF Databases
<1>1. InstallTyped'
  <2>1. gen' \in 0..MaxGens
    BY <1>0 DEF I!BoundsOK
  <2> QED
    BY <1>0, <1>4, <2>1 DEF InstallTyped
<1>2. OneAtATime'
  <2>1. \A p \in pending' : db'.row[p] # 0
    BY <1>0 DEF OneAtATime, Databases, I!BoundsOK
  <2>2. rest = I!Idle /\ rest' = I!Idle
    BY DEF OneAtATime
  <2> QED
    BY <2>1, <2>2 DEF OneAtATime, I!Idle
<1>3. SnapshotIsCovered'
  BY <1>0 DEF SnapshotIsCovered
<1> QED
  BY <1>1, <1>2, <1>3

LEMMA SeedFilesKeeps == ASSUME I!BoundsOK, InstallInv, NEW p \in I!Ids, I!SeedFiles(p) PROVE InstallInv'
<1> USE DEF InstallInv, I!SeedFiles
<1>0. db.row[p] \in I!Gens
  <2>1. db.row[p] \in 0..MaxGens /\ db.row[p] # 0
    BY DEF InstallTyped, Databases, OneAtATime
  <2> QED
    BY <2>1 DEF I!Gens, I!BoundsOK
<1>1. InstallTyped'
  BY <1>0 DEF InstallTyped, Folders
<1>2. OneAtATime'
  BY DEF OneAtATime
<1>3. SnapshotIsCovered'
  BY DEF SnapshotIsCovered
<1> QED
  BY <1>1, <1>2, <1>3

LEMMA RevisionKeeps ==
    ASSUME I!BoundsOK, InstallInv, NEW p \in I!Ids, I!PublishZip(p) \/ I!MarkValid(p)
    PROVE  InstallInv'
<1> USE DEF InstallInv
<1>0. /\ UNCHANGED <<torn, dirs, server, pending, gen, back, archive, rest, calm>> /\ server = "up"
      /\ zips \subseteq zips' /\ zips' \subseteq I!Ids /\ hot' \in BOOLEAN
      /\ db' \in Databases /\ db'.row = db.row /\ db'.valid \subseteq db.valid \cup zips
  BY DEF I!PublishZip, I!MarkValid, InstallTyped, Databases
<1>1. InstallTyped'
  BY <1>0 DEF InstallTyped
<1>2. OneAtATime'
  BY <1>0, BackIs DEF OneAtATime
<1>3. SnapshotIsCovered'
  BY <1>0 DEF SnapshotIsCovered
<1> QED
  BY <1>1, <1>2, <1>3

LEMMA DeleteProjectKeeps == ASSUME I!BoundsOK, InstallInv, NEW p \in I!Ids, I!DeleteProject(p) PROVE InstallInv'
<1> USE DEF InstallInv
<1>0. /\ UNCHANGED <<torn, server, pending, gen, back, archive, rest>> /\ server = "up" /\ p \notin pending
      /\ zips' \subseteq I!Ids /\ hot' = TRUE /\ calm' = FALSE /\ dirs' \in Folders
  BY DEF I!DeleteProject, InstallTyped, Folders
<1>5. db' = [next |-> db.next, row |-> [db.row EXCEPT ![p] = 0], valid |-> db.valid \ {p}]
  BY DEF I!DeleteProject, InstallTyped, Databases
<1>4. db' \in Databases /\ \A q \in pending : db'.row[q] # 0
  <2>1. [db.row EXCEPT ![p] = 0] \in [I!Ids -> 0..MaxGens]
    BY DEF InstallTyped, Databases, I!BoundsOK
  <2>2. \A q \in pending : q \in I!Ids /\ q # p /\ db.row[q] # 0
    BY <1>0 DEF OneAtATime, InstallTyped
  <2> QED
    BY <1>5, <2>1, <2>2 DEF InstallTyped, Databases
<1>1. InstallTyped'
  BY <1>0, <1>4 DEF InstallTyped
<1>2. OneAtATime'
  BY <1>0, <1>4, BackIs DEF OneAtATime
<1>3. SnapshotIsCovered'
  BY <1>0 DEF SnapshotIsCovered
<1> QED
  BY <1>1, <1>2, <1>3

-----------------------------------------------------------------------------
(* The backup.                                                               *)
LEMMA StartBackupKeeps == ASSUME I!BoundsOK, InstallInv, NEW s \in BOOLEAN, I!StartBackup(s) PROVE InstallInv'
<1> USE DEF InstallInv
<1>0. /\ UNCHANGED <<db, hot, torn, dirs, zips, server, pending, gen, archive, rest>> /\ rest = I!Idle
      /\ calm' = (db.valid \subseteq zips) /\ calm' \in BOOLEAN
      /\ back' \in ReadingTrees /\ back'.at = 1 /\ back'.pc = "read"
  BY NoDbTyped, BackIs DEF I!StartBackup, I!install, ReadingTrees
<1>1. InstallTyped'
  BY <1>0 DEF InstallTyped
<1>2. OneAtATime'
  BY <1>0 DEF OneAtATime
<1>3. SnapshotIsCovered'
  BY <1>0, BackKinds DEF SnapshotIsCovered
<1> QED
  BY <1>1, <1>2, <1>3

LEMMA AdvanceIs ==
    ASSUME NEW x \in ReadingTrees
    PROVE  /\ I!Advance(x) \in ReadingTrees
           /\ I!Advance(x).db = x.db /\ I!Advance(x).zips = x.zips
           /\ x.at = 3 => I!Advance(x).pc = "open" /\ I!Advance(x).at = 3
           /\ x.at # 3 => I!Advance(x).pc = x.pc /\ I!Advance(x).at = x.at + 1
<1>1. Len(I!Walks) = 3
  BY DEF I!Walks
<1> QED
  BY <1>1 DEF I!Advance, ReadingTrees

LEMMA TreeIs ==
    ASSUME NEW n \in 1..3
    PROVE  /\ I!Walks[n] = "snapshot" <=> n = 1
           /\ I!Walks[n] = "projects" <=> n = 2
  BY DEF I!Walks

LEMMA SnapshotKeeps == ASSUME I!BoundsOK, InstallInv, I!Snapshot PROVE InstallInv'
<1> USE DEF InstallInv
<1>0. /\ UNCHANGED <<db, hot, torn, dirs, zips, server, pending, gen, archive, rest, calm>>
      /\ back \in ReadingTrees /\ back.at = 1
  BY BackIs, TreeIs DEF I!Snapshot, I!install, ReadingTrees
<1> DEFINE x == [back EXCEPT !.db = db]
<1>4. x \in ReadingTrees /\ x.db = db /\ x.at = 1 /\ x.pc = "read" /\ back' = I!Advance(x)
  BY <1>0 DEF ReadingTrees, InstallTyped, I!Snapshot
<1>5. back' \in ReadingTrees /\ back'.db = db /\ back'.at = 2 /\ back'.pc = "read"
  <2> HIDE DEF x
  <2> QED
    BY <1>4, AdvanceIs
<1>1. InstallTyped'
  BY <1>0, <1>5 DEF InstallTyped
<1>2. OneAtATime'
  BY <1>0, BackKinds DEF OneAtATime
<1>3. SnapshotIsCovered'
  BY <1>0, <1>5, BackKinds DEF SnapshotIsCovered
<1> QED
  BY <1>1, <1>2, <1>3

LEMMA ListTreeKeeps == ASSUME I!BoundsOK, InstallInv, I!ListTree PROVE InstallInv'
<1> USE DEF InstallInv
<1>0. /\ UNCHANGED <<db, hot, torn, dirs, zips, server, pending, gen, archive, rest, calm>>
      /\ back \in ReadingTrees /\ back.at \in {2, 3}
  BY BackIs, TreeIs DEF I!ListTree, I!install, ReadingTrees
<1>5. I!There(I!Walks[back.at]) \subseteq I!Ids /\ (back.at = 3 => I!There(I!Walks[back.at]) = zips)
  BY <1>0, TreeIs DEF I!There, InstallTyped
<1>6. back' \in ReadingTrees /\ back'.db = back.db /\ back'.at = back.at /\ back'.pc = "walk" /\ back'.todo = I!There(I!Walks[back.at])
  BY <1>0, <1>5 DEF ReadingTrees, I!ListTree
<1>1. InstallTyped'
  BY <1>0, <1>6 DEF InstallTyped
<1>2. OneAtATime'
  BY <1>0, BackKinds DEF OneAtATime
<1>3. SnapshotIsCovered'
  BY <1>0, <1>5, <1>6, BackKinds DEF SnapshotIsCovered
<1> QED
  BY <1>1, <1>2, <1>3

LEMMA ReadEntryKeeps == ASSUME I!BoundsOK, InstallInv, NEW p \in I!Ids, I!ReadEntry(p) PROVE InstallInv'
<1> USE DEF InstallInv
<1>0. /\ UNCHANGED <<db, hot, torn, dirs, zips, server, pending, gen, archive, rest, calm>>
      /\ back \in ReadingTrees /\ back.at \in {2, 3} /\ back.pc = "walk" /\ p \in back.todo
  BY BackIs, TreeIs DEF I!ReadEntry, I!install, ReadingTrees, SnapshotIsCovered
<1>2. OneAtATime'
  BY <1>0, BackKinds DEF OneAtATime
<1>4. CASE p \notin I!There(I!Walks[back.at])
  <2>1. back' = I!Idle
    BY <1>4 DEF I!ReadEntry
  <2>2. InstallTyped'
    BY <1>0, <2>1 DEF InstallTyped
  <2>3. SnapshotIsCovered'
    BY <1>0, <2>1, BackKinds DEF SnapshotIsCovered
  <2> QED
    BY <1>2, <2>2, <2>3
<1>5. CASE p \in I!There(I!Walks[back.at]) /\ back.at = 2
  <2>1. back' = [back EXCEPT !.todo = @ \ {p}, !.dirs[p] = dirs[p]]
    BY <1>5, TreeIs DEF I!ReadEntry
  <2>4. [back.dirs EXCEPT ![p] = dirs[p]] \in Folders
    BY <1>0 DEF ReadingTrees, Folders, InstallTyped
  <2>5. back' \in ReadingTrees /\ back'.at = 2 /\ back'.db = back.db /\ back'.pc = "walk"
    BY <1>0, <1>5, <2>1, <2>4 DEF ReadingTrees
  <2>2. InstallTyped'
    BY <1>0, <2>5 DEF InstallTyped
  <2>3. SnapshotIsCovered'
    BY <1>0, <1>5, <2>5, BackKinds DEF SnapshotIsCovered
  <2> QED
    BY <1>2, <2>2, <2>3
<1>6. CASE p \in I!There(I!Walks[back.at]) /\ back.at = 3
  <2>1. back' = [back EXCEPT !.todo = @ \ {p}, !.zips = @ \cup {p}]
    BY <1>6, TreeIs DEF I!ReadEntry
  <2>5. /\ back' \in ReadingTrees /\ back'.at = 3 /\ back'.db = back.db /\ back'.pc = "walk"
        /\ back'.todo = back.todo \ {p} /\ back'.zips = back.zips \cup {p}
    BY <1>0, <1>6, <2>1 DEF ReadingTrees
  <2>2. InstallTyped'
    BY <1>0, <2>5 DEF InstallTyped
  <2>3. SnapshotIsCovered'
    BY <1>0, <1>6, <2>5, BackKinds DEF SnapshotIsCovered
  <2> QED
    BY <1>2, <2>2, <2>3
<1> QED
  BY <1>0, <1>4, <1>5, <1>6

LEMMA EndTreeKeeps == ASSUME I!BoundsOK, InstallInv, I!EndTree PROVE InstallInv'
<1> USE DEF InstallInv
<1> DEFINE x == [back EXCEPT !.pc = "read"]
<1>0. /\ UNCHANGED <<db, hot, torn, dirs, zips, server, pending, gen, archive, rest, calm>>
      /\ back \in ReadingTrees /\ back.at \in {2, 3} /\ back.pc = "walk" /\ back.todo = {} /\ back' = I!Advance(x)
  BY BackIs, TreeIs DEF I!EndTree, I!install, ReadingTrees, SnapshotIsCovered
<1>4. x \in ReadingTrees /\ x.db = back.db /\ x.zips = back.zips /\ x.at = back.at /\ x.pc = "read"
  BY <1>0 DEF ReadingTrees
<1>5. /\ back' \in ReadingTrees /\ back'.db = back.db /\ back'.zips = back.zips /\ back'.at = 3
      /\ back.at = 3 => back'.pc = "open"
      /\ back.at = 2 => back'.pc = "read"
  <2> HIDE DEF x
  <2> QED
    BY <1>0, <1>4, AdvanceIs
<1>1. InstallTyped'
  BY <1>0, <1>5 DEF InstallTyped
<1>2. OneAtATime'
  BY <1>0, BackKinds DEF OneAtATime
<1>3. SnapshotIsCovered'
  BY <1>0, <1>5, BackKinds DEF SnapshotIsCovered
<1> QED
  BY <1>1, <1>2, <1>3

LEMMA OpenOutKeeps == ASSUME I!BoundsOK, InstallInv, I!OpenOut PROVE InstallInv'
<1> USE DEF InstallInv
<1>0. /\ UNCHANGED <<db, hot, torn, dirs, zips, server, pending, gen, rest, calm>>
      /\ back \in ReadingTrees /\ back.pc = "open" /\ back' = [pc |-> "write"]
  BY BackIs DEF I!OpenOut, I!install
<1>4. archive' \in Archives /\ archive'.db = back.db /\ archive'.zips = back.zips /\ archive'.calm = calm
  BY <1>0 DEF I!OpenOut, Archives, ReadingTrees, InstallTyped
<1>1. InstallTyped'
  BY <1>0, <1>4 DEF InstallTyped
<1>2. OneAtATime'
  BY <1>0, BackKinds DEF OneAtATime
<1>3. SnapshotIsCovered'
  BY <1>0, <1>4, BackKinds DEF SnapshotIsCovered
<1> QED
  BY <1>1, <1>2, <1>3

LEMMA WriteOutKeeps == ASSUME I!BoundsOK, InstallInv, I!WriteOut PROVE InstallInv'
<1> USE DEF InstallInv
<1>0. /\ UNCHANGED <<db, hot, torn, dirs, zips, server, pending, gen, rest, calm>>
      /\ back = [pc |-> "write"] /\ back' = I!Idle
  BY BackIs DEF I!WriteOut, I!install
<1>4. archive' \in Archives /\ archive'.db = archive.db /\ archive'.zips = archive.zips /\ archive'.calm = archive.calm
      /\ archive \in Archives
  BY <1>0 DEF I!WriteOut, Archives, SnapshotIsCovered
<1>1. InstallTyped'
  BY <1>0, <1>4 DEF InstallTyped
<1>2. OneAtATime'
  BY <1>0, BackKinds DEF OneAtATime
<1>3. SnapshotIsCovered'
  BY <1>0, <1>4, BackKinds DEF SnapshotIsCovered
<1> QED
  BY <1>1, <1>2, <1>3

LEMMA KillBackupKeeps == ASSUME I!BoundsOK, InstallInv, I!KillBackup PROVE InstallInv'
<1> USE DEF InstallInv
<1>0. UNCHANGED <<db, hot, torn, dirs, zips, server, pending, gen, archive, rest, calm>> /\ back' = I!Idle
  BY DEF I!KillBackup, I!install
<1>1. InstallTyped'
  BY <1>0 DEF InstallTyped
<1>2. OneAtATime'
  BY <1>0 DEF OneAtATime
<1>3. SnapshotIsCovered'
  BY <1>0, BackKinds DEF SnapshotIsCovered
<1> QED
  BY <1>1, <1>2, <1>3

-----------------------------------------------------------------------------
(* The restore.                                                              *)
LEMMA StartRestoreKeeps == ASSUME I!BoundsOK, InstallInv, NEW f \in BOOLEAN, I!StartRestore(f) PROVE InstallInv'
<1> USE DEF InstallInv
<1>0. /\ UNCHANGED <<db, hot, torn, dirs, zips, server, pending, gen, archive, back, calm>>
      /\ server = "down" /\ back = I!Idle /\ archive \in Archives /\ I!OpenFrom(archive) /\ I!CheckTarget(f)
      /\ rest' = [pc |-> "db", force |-> f] /\ rest' \in Restores
  BY BackIs DEF I!StartRestore, I!install, Restores
<1>1. InstallTyped'
  BY <1>0 DEF InstallTyped
<1>2. OneAtATime'
  BY <1>0 DEF OneAtATime, I!CheckTarget, I!OpenFrom
<1>3. SnapshotIsCovered'
  BY <1>0 DEF SnapshotIsCovered
<1> QED
  BY <1>1, <1>2, <1>3

LEMMA NewMachineKeeps == ASSUME I!BoundsOK, InstallInv, I!NewMachine PROVE InstallInv'
<1> USE DEF InstallInv
<1>0. /\ UNCHANGED <<server, pending, gen, archive, back, rest, calm>>
      /\ server = "down" /\ back = I!Idle /\ rest = I!Idle
      /\ db' = I!NoDb /\ hot' = FALSE /\ torn' = FALSE /\ dirs' \in Folders /\ zips' = {}
  BY BackIs, NoDbTyped DEF I!NewMachine
<1>1. InstallTyped'
  BY <1>0, NoDbTyped DEF InstallTyped
<1>2. OneAtATime'
  BY <1>0 DEF OneAtATime
<1>3. SnapshotIsCovered'
  BY <1>0, BackKinds DEF SnapshotIsCovered
<1> QED
  BY <1>1, <1>2, <1>3

LEMMA ExtractKeeps == ASSUME I!BoundsOK, InstallInv, I!ExtractDb \/ I!ExtractDirs \/ I!ExtractZips PROVE InstallInv'
<1> USE DEF InstallInv
<1>0. /\ UNCHANGED <<hot, torn, server, pending, gen, archive, back, calm>>
      /\ rest \in Restores /\ rest # I!Idle
  BY BackIs, BackKinds DEF I!ExtractDb, I!ExtractDirs, I!ExtractZips, I!Idle, InstallTyped
<1>4. rest' \in Restores /\ rest'.pc # "db" /\ rest'.force = rest.force
  BY <1>0 DEF I!ExtractDb, I!ExtractDirs, I!ExtractZips, Restores
<1>5. server = "down" /\ back = I!Idle /\ archive \in Archives /\ I!OpenFrom(archive) /\ pending = {}
  BY <1>0 DEF OneAtATime
<1>6. db' \in Databases
  BY <1>5 DEF I!ExtractDb, I!ExtractDirs, I!ExtractZips, InstallTyped, Archives
<1>7. dirs' \in Folders
  BY <1>5 DEF I!ExtractDb, I!ExtractDirs, I!ExtractZips, InstallTyped, Archives, Folders
<1>8. zips' \subseteq I!Ids
  BY <1>5 DEF I!ExtractDb, I!ExtractDirs, I!ExtractZips, InstallTyped, Archives
<1>1. InstallTyped'
  BY <1>0, <1>4, <1>6, <1>7, <1>8 DEF InstallTyped
<1>2. OneAtATime'
  BY <1>0, <1>4, <1>5 DEF OneAtATime, I!OpenFrom
<1>3. SnapshotIsCovered'
  BY <1>0, <1>5, BackKinds DEF SnapshotIsCovered
<1> QED
  BY <1>1, <1>2, <1>3

LEMMA CutShortKeeps == ASSUME I!BoundsOK, InstallInv, I!CutShort PROVE InstallInv'
<1> USE DEF InstallInv
<1>0. UNCHANGED <<db, hot, torn, dirs, zips, server, pending, gen, back, archive, calm>> /\ rest' = I!Idle
  BY DEF I!CutShort, I!install
<1>1. InstallTyped'
  BY <1>0 DEF InstallTyped
<1>2. OneAtATime'
  BY <1>0 DEF OneAtATime, I!Idle
<1>3. SnapshotIsCovered'
  BY <1>0 DEF SnapshotIsCovered
<1> QED
  BY <1>1, <1>2, <1>3

LEMMA InstallStep == ASSUME I!BoundsOK, InstallInv, [I!Next]_I!bvars PROVE InstallInv'
<1>1. CASE UNCHANGED I!bvars
  <2>1. InstallTyped' /\ OneAtATime'
    BY <1>1 DEF I!bvars, InstallInv, InstallTyped, OneAtATime, I!OpenFrom
  <2>2. SnapshotIsCovered'
    BY <1>1 DEF I!bvars, InstallInv, SnapshotIsCovered
  <2> QED
    BY <2>1, <2>2 DEF InstallInv
<1>2. CASE I!Server
  BY <1>2, StartServerKeeps, StopServerKeeps, InstallCreateRow, SeedFilesKeeps, RevisionKeeps,
     DeleteProjectKeeps DEF I!Server
<1>3. CASE I!Backup
  BY <1>3, StartBackupKeeps, SnapshotKeeps, ListTreeKeeps, ReadEntryKeeps, EndTreeKeeps, OpenOutKeeps, WriteOutKeeps,
     KillBackupKeeps DEF I!Backup
<1>4. CASE I!Restore
  BY <1>4, StartRestoreKeeps, NewMachineKeeps, ExtractKeeps, CutShortKeeps DEF I!Restore
<1> QED
  BY <1>1, <1>2, <1>3, <1>4 DEF I!Next

LEMMA InstallEnough == ASSUME InstallInv PROVE I!TypeOK /\ I!RevisionsHaveZips /\ I!SealedIsAllOrNothing /\ I!PutsOverNothing
<1>1. I!TypeOK
  BY BackIs DEF InstallInv, InstallTyped, I!TypeOK, Databases, Folders, Archives
<1>2. I!RevisionsHaveZips
  BY BackIs DEF InstallInv, SnapshotIsCovered, I!RevisionsHaveZips
<1>3. I!SealedIsAllOrNothing
  BY BackIs DEF InstallInv, OneAtATime, I!OpenFrom, I!SealedIsAllOrNothing
<1>4. I!PutsOverNothing
  BY DEF InstallInv, OneAtATime, I!PutsOverNothing
<1> QED
  BY <1>1, <1>2, <1>3, <1>4

(* The invariant holds throughout, for every number of projects and          *)
(* generations of their files.                                               *)
THEOREM InstallInvariance == ASSUME I!BoundsOK PROVE I!Spec => []InstallInv
<1>1. I!Init => InstallInv
  BY InstallInit
<1>2. InstallInv /\ [I!Next]_I!bvars => InstallInv'
  BY InstallStep
<1> QED
  BY <1>1, <1>2, PTL DEF I!Spec

(* A revision in an archive has its zip, a sealed archive is restored whole  *)
(* or not at all, and never over an installation without force.              *)
THEOREM InstallSound ==
    ASSUME I!BoundsOK
    PROVE  I!Spec => /\ [](I!TypeOK /\ I!RevisionsHaveZips /\ I!SealedIsAllOrNothing)
                     /\ [][I!PutsOverNothing]_I!bvars
<1>1. InstallInv => I!TypeOK /\ I!RevisionsHaveZips /\ I!SealedIsAllOrNothing
  BY InstallEnough
<1>2. InstallInv /\ [I!Next]_I!bvars => [I!PutsOverNothing]_I!bvars
  BY InstallEnough
<1> QED
  BY <1>1, <1>2, InstallInvariance, PTL DEF I!Spec

-----------------------------------------------------------------------------
(****************************************************************************)
(* Templates.  The invariant says what each request has read and written,   *)
(* and which directory is in whose hands.                                   *)
(****************************************************************************)
(* Sizes of sets are those of the standard module.                           *)
LEMMA TemplateSizes == \A X : T!IsFiniteSet(X) = IsFiniteSet(X) /\ T!Cardinality(X) = Cardinality(X)
<1>1. \A X : T!IsFiniteSet(X) = IsFiniteSet(X)
  BY DEF T!IsFiniteSet, IsFiniteSet
<1> QED
  BY <1>1 DEF T!Cardinality, Cardinality

(* Where a request can stand and what it then holds.                         *)
Tables == [Paths -> Nat]
Resolving == [pc : {"read", "store"}, to : Slugs \cup {"project"}, from : 0..TemplateIds, todo : SUBSET Paths, got : Tables,
              whole : BOOLEAN]
Storing == [pc : {"seed", "undo", "undoRow"}, id : T!Ids, got : Tables, todo : SUBSET Paths]
Dropping == [pc : {"rmdir"}, id : T!Ids]
Touching == [pc : {"write", "unlink"}, id : T!Ids, file : Paths]
Standing == {T!Idle} \cup Resolving \cup Storing \cup Dropping \cup Touching

TemplateInv ==
    /\ log \in Seq(Paths)
    /\ row \in [T!Ids -> Slugs \cup {T!NoRow}]
    /\ files \in [T!Ids -> Tables]
    /\ nextId \in 1..TemplateIds + 1
    /\ seeded \subseteq T!Ids
    /\ project \in Tables
    /\ req \in [Requests -> Standing]
    /\ T!NoHalfTemplates
    /\ T!SeededWithinCap

LEMMA GreatestNumber ==
    ASSUME NEW k \in Nat, NEW S \in SUBSET (1..k), S # {}
    PROVE  \E m \in S : \A j \in S : j <= m
<1> DEFINE L == {k - s : s \in S}
<1>1. L \subseteq Nat /\ L # {}
  <2>1. \A s \in S : s \in Int /\ s <= k /\ k - s \in Nat
    OBVIOUS
  <2> QED
    BY <2>1
<1>2. PICK n \in L : \A y \in L : <<y, n>> \notin OpToRel(<, Nat)
  <2>1. IsWellFoundedOn(OpToRel(<, Nat), Nat)
    BY NatLessThanWellFounded
  <2> QED
    BY <1>1, <2>1, WFMin
<1>3. PICK m \in S : n = k - m
  BY <1>2
<1>4. \A j \in S : j <= m
  <2> SUFFICES ASSUME NEW j \in S, ~(j <= m) PROVE FALSE
    OBVIOUS
  <2>1. k - j \in L /\ k - j \in Nat /\ n \in Nat /\ k - j < n
    BY <1>3, <1>1
  <2>2. <<k - j, n>> \in OpToRel(<, Nat)
    BY <2>1 DEF OpToRel
  <2> QED
    BY <1>2, <2>1, <2>2
<1> QED
  BY <1>4

LEMMA AtTyped ==
    ASSUME log \in Seq(Paths)
    PROVE  T!At(Len(log)) \in Tables
<1> SUFFICES ASSUME NEW f \in Paths PROVE T!At(Len(log))[f] \in Nat
  BY DEF T!At, Tables
<1> DEFINE w == {i \in 1..Len(log) : log[i] = f}
<1>1. CASE w = {}
  BY <1>1 DEF T!At, T!Absent
<1>2. CASE w # {}
  <2>1. Len(log) \in Nat /\ w \in SUBSET (1..Len(log))
    OBVIOUS
  <2>2. \E m \in w : \A j \in w : j <= m
    BY <2>1, <1>2, GreatestNumber
  <2>3. (CHOOSE i \in w : \A j \in w : j <= i) \in w
    BY <2>2
  <2>4. T!At(Len(log))[f] = CHOOSE i \in w : \A j \in w : j <= i
    BY <1>2 DEF T!At
  <2> QED
    BY <2>1, <2>3, <2>4
<1> QED
  BY <1>1, <1>2

LEMMA TemplateInit == ASSUME T!BoundsOK, T!Init PROVE TemplateInv
<1> USE DEF T!BoundsOK, T!Init
<1>1. log \in Seq(Paths)
  OBVIOUS
<1>2. T!NoFiles \in Tables
  BY DEF T!NoFiles, Tables, T!Absent
<1>3. T!SeededWithinCap
  <2>1. {f \in Paths : T!NoFiles[f] # T!Absent} = {}
    BY DEF T!NoFiles
  <2>2. T!Count(T!NoFiles) = 0
    BY <2>1, FS_EmptySet, TemplateSizes DEF T!Count
  <2> QED
    BY <2>2 DEF T!SeededWithinCap
<1> QED
  BY <1>1, <1>2, <1>3 DEF TemplateInv, Standing, T!NoHalfTemplates

(* Only what a template row and its request say about each other matters.    *)
LEMMA ReadingTyped ==
    ASSUME T!BoundsOK, NEW s \in Slugs \cup {"project"}, NEW from \in 0..TemplateIds
    PROVE  T!Reading(s, from) \in Resolving
  BY DEF T!Reading, Resolving, T!NoFiles, Tables, T!Absent

LEMMA RequestsMove ==
    ASSUME T!BoundsOK, TemplateInv, NEW r \in Requests, NEW to \in Standing, T!ReqTo(r, to),
           UNCHANGED <<row, seeded>>,
           req[r].pc \notin {"seed", "undo", "undoRow"}
    PROVE  req' \in [Requests -> Standing] /\ T!NoHalfTemplates'
<1> USE DEF T!ReqTo, TemplateInv
<1>1. req' \in [Requests -> Standing]
  OBVIOUS
<1>2. \A t \in T!Ids : T!InHand(t) => T!InHand(t)'
  BY DEF T!InHand
<1> QED
  BY <1>1, <1>2 DEF T!NoHalfTemplates

LEMMA HandsStay ==
    ASSUME TemplateInv, NEW r \in Requests, NEW to \in Standing, T!ReqTo(r, to),
           UNCHANGED <<row, seeded>>, req[r].pc \in {"seed", "undo", "undoRow"},
           to.pc \in {"seed", "undo", "undoRow"}, to.id = req[r].id
    PROVE  req' \in [Requests -> Standing] /\ T!NoHalfTemplates'
<1> USE DEF T!ReqTo, TemplateInv
<1>1. req' \in [Requests -> Standing]
  OBVIOUS
<1>2. \A t \in T!Ids : T!InHand(t) => T!InHand(t)'
  BY DEF T!InHand
<1> QED
  BY <1>1, <1>2 DEF T!NoHalfTemplates

LEMMA RequestsStand ==
    ASSUME TemplateInv, NEW r \in Requests
    PROVE  /\ req[r].pc \in {"read", "store"} => req[r] \in Resolving
           /\ req[r].pc \in {"seed", "undo", "undoRow"} => req[r] \in Storing
           /\ req[r].pc = "rmdir" => req[r] \in Dropping
           /\ req[r].pc \in {"write", "unlink"} => req[r] \in Touching
  BY DEF TemplateInv, Standing, T!Idle, Resolving, Storing, Dropping, Touching

LEMMA ReadKeeps ==
    ASSUME T!BoundsOK, TemplateInv, NEW r \in Requests, NEW f \in Paths, T!ReadFile(r, f)
    PROVE  TemplateInv'
<1> DEFINE x == req[r]
           to == [x EXCEPT !.todo = @ \ {f}, !.got[f] = T!Source(r)[f], !.pc = IF x.todo = {f} THEN "store" ELSE @]
<1>1. x \in Resolving /\ x.pc = "read"
  BY RequestsStand DEF T!ReadFile
<1>2. T!Source(r)[f] \in Nat
  <2>1. T!Source(r) \in Tables
    BY <1>1, AtTyped DEF T!Source, TemplateInv, Resolving, T!Ids
  <2> QED
    BY <2>1 DEF Tables
<1>3. to \in Standing
  <2>1. to.got \in Tables
    BY <1>1, <1>2 DEF Resolving, Tables
  <2> QED
    BY <1>1, <2>1 DEF Resolving, Standing
<1>4. T!ReqTo(r, to) /\ UNCHANGED <<log, row, nextId, files, seeded, project>>
  BY DEF T!ReadFile
<1>5. req' \in [Requests -> Standing] /\ T!NoHalfTemplates'
  BY <1>1, <1>3, <1>4, RequestsMove
<1> QED
  BY <1>4, <1>5 DEF TemplateInv, T!SeededWithinCap

LEMMA SeedProjectKeeps ==
    ASSUME T!BoundsOK, TemplateInv, NEW r \in Requests, T!SeedProject(r)
    PROVE  TemplateInv'
<1>1. req[r] \in Resolving /\ req[r].pc = "store"
  BY RequestsStand DEF T!SeedProject
<1>2. T!ReqTo(r, T!Idle) /\ UNCHANGED <<log, row, nextId, files, seeded>>
  BY DEF T!SeedProject
<1>3. T!Idle \in Standing
  BY DEF Standing
<1>4. req' \in [Requests -> Standing] /\ T!NoHalfTemplates'
  BY <1>1, <1>2, <1>3, RequestsMove
<1>5. project' \in Tables /\ T!SeededWithinCap'
  BY <1>1 DEF T!SeedProject, T!Seedable, T!SeededWithinCap, TemplateInv, Resolving
<1> QED
  BY <1>2, <1>4, <1>5 DEF TemplateInv

LEMMA CreateRowKeeps ==
    ASSUME T!BoundsOK, TemplateInv, NEW r \in Requests, T!CreateRow(r)
    PROVE  TemplateInv'
<1>1. req[r] \in Resolving /\ req[r].pc = "store"
  BY RequestsStand DEF T!CreateRow
<1>2. UNCHANGED <<log, files, seeded, project>>
  BY DEF T!CreateRow
<1>3. CASE \E t \in T!Ids : row[t] = req[r].to
  <2>1. T!ReqTo(r, T!Idle) /\ UNCHANGED <<row, nextId>>
    BY <1>3 DEF T!CreateRow
  <2>2. T!Idle \in Standing
    BY DEF Standing
  <2>3. req' \in [Requests -> Standing] /\ T!NoHalfTemplates'
    BY <1>1, <1>2, <2>1, <2>2, RequestsMove
  <2> QED
    BY <1>2, <2>1, <2>3 DEF TemplateInv, T!SeededWithinCap
<1>4. CASE ~ \E t \in T!Ids : row[t] = req[r].to
  <2> DEFINE to == [pc |-> IF T!Seedable(req[r].got) THEN "seed" ELSE "undo", id |-> nextId, got |-> req[r].got,
                    todo |-> {f \in Paths : req[r].got[f] # T!Absent}]
  <2>1. nextId \in T!Ids /\ row' = [row EXCEPT ![nextId] = req[r].to] /\ nextId' = nextId + 1 /\ T!ReqTo(r, to)
    BY <1>4 DEF T!CreateRow
  <2>2. to \in Storing
    BY <1>1, <2>1 DEF Storing, Resolving
  <2>3. req' \in [Requests -> Standing] /\ req'[r] = to /\ \A q \in Requests \ {r} : req'[q] = req[q]
    BY <2>1, <2>2 DEF T!ReqTo, TemplateInv, Standing
  <2>4. \A t \in T!Ids : t = nextId => T!InHand(t)'
    BY <2>2, <2>3 DEF T!InHand, Storing
  <2>5. \A t \in T!Ids : T!InHand(t) => T!InHand(t)'
    BY <1>1, <2>3 DEF T!InHand
  <2>6. T!NoHalfTemplates'
    BY <1>2, <2>1, <2>4, <2>5 DEF T!NoHalfTemplates, TemplateInv
  <2>7. row' \in [T!Ids -> Slugs \cup {T!NoRow}]
    BY <1>1, <2>1 DEF T!CreateRow, TemplateInv, Resolving
  <2>8. nextId' \in 1..TemplateIds + 1
    BY <2>1 DEF T!Ids, T!BoundsOK
  <2> QED
    BY <1>2, <2>3, <2>6, <2>7, <2>8 DEF TemplateInv, T!SeededWithinCap
<1> QED
  BY <1>3, <1>4

LEMMA SeedFileKeeps ==
    ASSUME T!BoundsOK, TemplateInv, NEW r \in Requests, NEW f \in Paths, T!SeedFile(r, f)
    PROVE  TemplateInv'
<1> DEFINE to == [req[r] EXCEPT !.todo = @ \ {f}]
<1>1. req[r] \in Storing /\ req[r].pc = "seed"
  BY RequestsStand DEF T!SeedFile
<1>2. T!ReqTo(r, to) /\ UNCHANGED <<log, row, nextId, seeded, project>>
  BY DEF T!SeedFile
<1>3. to \in Standing /\ to.pc = "seed" /\ to.id = req[r].id
  BY <1>1 DEF Storing, Standing
<1>4. req' \in [Requests -> Standing] /\ T!NoHalfTemplates'
  BY <1>1, <1>2, <1>3, HandsStay
<1>5. files' \in [T!Ids -> Tables]
  <2>1. [files[req[r].id] EXCEPT ![f] = req[r].got[f]] \in Tables
    BY <1>1 DEF Storing, Tables, TemplateInv
  <2>2. files' = [files EXCEPT ![req[r].id] = [files[req[r].id] EXCEPT ![f] = req[r].got[f]]]
    BY DEF T!SeedFile
  <2> QED
    BY <1>1, <2>1, <2>2 DEF TemplateInv
<1> QED
  BY <1>2, <1>4, <1>5 DEF TemplateInv, T!SeededWithinCap

LEMMA SeededKeeps ==
    ASSUME T!BoundsOK, TemplateInv, NEW r \in Requests, T!Seeded(r)
    PROVE  TemplateInv'
<1>1. req[r] \in Storing
  BY RequestsStand DEF T!Seeded
<1>2. /\ req' \in [Requests -> Standing] /\ \A q \in Requests \ {r} : req'[q] = req[q]
  BY DEF T!Seeded, T!ReqTo, TemplateInv, Standing
<1>3. \A t \in T!Ids : T!InHand(t) => T!InHand(t)' \/ t = req[r].id
  BY <1>2 DEF T!InHand
<1>4. seeded' = seeded \cup {req[r].id} /\ UNCHANGED <<log, row, nextId, files, project>>
  BY DEF T!Seeded
<1>5. T!NoHalfTemplates'
  BY <1>3, <1>4 DEF T!NoHalfTemplates, TemplateInv
<1>6. seeded' \subseteq T!Ids
  BY <1>1, <1>4 DEF Storing, TemplateInv
<1> QED
  BY <1>2, <1>4, <1>5, <1>6 DEF TemplateInv, T!SeededWithinCap

LEMMA UndoKeeps ==
    ASSUME T!BoundsOK, TemplateInv, NEW r \in Requests, T!SeedFails(r) \/ T!RemoveFolder(r)
    PROVE  TemplateInv'
<1> DEFINE to == [req[r] EXCEPT !.pc = IF req[r].pc = "seed" THEN "undo" ELSE "undoRow"]
<1>1. req[r] \in Storing
  BY RequestsStand DEF T!SeedFails, T!RemoveFolder
<1>2. T!ReqTo(r, to) /\ UNCHANGED <<log, row, nextId, seeded, project>>
  BY <1>1 DEF T!SeedFails, T!RemoveFolder, T!OnError, T!ReqTo
<1>3. to \in Standing /\ to.pc \in {"undo", "undoRow"} /\ to.id = req[r].id
  BY <1>1 DEF Storing, Standing
<1>4. req' \in [Requests -> Standing] /\ T!NoHalfTemplates'
  <2>1. req[r].pc \in {"seed", "undo", "undoRow"}
    BY <1>1 DEF Storing
  <2> QED
    BY <2>1, <1>2, <1>3, HandsStay
<1>5. files' \in [T!Ids -> Tables]
  <2>1. T!NoFiles \in Tables
    BY DEF T!NoFiles, T!Absent, Tables
  <2> QED
    BY <1>1, <2>1 DEF T!SeedFails, T!RemoveFolder, TemplateInv
<1> QED
  BY <1>2, <1>4, <1>5 DEF TemplateInv, T!SeededWithinCap

LEMMA RemoveRowKeeps ==
    ASSUME T!BoundsOK, TemplateInv, NEW r \in Requests, T!RemoveRow(r)
    PROVE  TemplateInv'
<1>1. req[r] \in Storing
  BY RequestsStand DEF T!RemoveRow
<1>2. /\ req' \in [Requests -> Standing] /\ \A q \in Requests \ {r} : req'[q] = req[q]
  BY DEF T!RemoveRow, T!ReqTo, TemplateInv, Standing
<1>3. \A t \in T!Ids : T!InHand(t) => T!InHand(t)' \/ t = req[r].id
  BY <1>2 DEF T!InHand
<1>4. row' = [row EXCEPT ![req[r].id] = T!NoRow] /\ UNCHANGED <<log, seeded, nextId, files, project>>
  BY DEF T!RemoveRow
<1>5. T!NoHalfTemplates' /\ row' \in [T!Ids -> Slugs \cup {T!NoRow}]
  BY <1>3, <1>4 DEF T!NoHalfTemplates, TemplateInv
<1> QED
  BY <1>2, <1>4, <1>5 DEF TemplateInv, T!SeededWithinCap

LEMMA DeleteRowKeeps ==
    ASSUME T!BoundsOK, TemplateInv, NEW r \in Requests, NEW t \in T!Ids, T!DeleteRow(r, t)
    PROVE  TemplateInv'
<1> DEFINE to == [pc |-> "rmdir", id |-> t]
<1>1. req[r].pc = "idle" /\ T!ReqTo(r, to)
  BY DEF T!DeleteRow, T!Start
<1>2. /\ req' \in [Requests -> Standing] /\ \A q \in Requests \ {r} : req'[q] = req[q]
  BY <1>1 DEF T!ReqTo, TemplateInv, Standing, Dropping
<1>3. \A u \in T!Ids : T!InHand(u) => T!InHand(u)'
  BY <1>1, <1>2 DEF T!InHand
<1>4. row' = [row EXCEPT ![t] = T!NoRow] /\ UNCHANGED <<log, seeded, nextId, files, project>>
  BY DEF T!DeleteRow
<1>5. T!NoHalfTemplates' /\ row' \in [T!Ids -> Slugs \cup {T!NoRow}]
  BY <1>3, <1>4 DEF T!NoHalfTemplates, TemplateInv
<1> QED
  BY <1>2, <1>4, <1>5 DEF TemplateInv, T!SeededWithinCap

LEMMA FolderKeeps ==
    ASSUME T!BoundsOK, TemplateInv, NEW r \in Requests,
           T!DeleteFolder(r) \/ T!WriteTemplateFile(r) \/ T!DeleteTemplateFile(r)
    PROVE  TemplateInv'
<1>1. req[r].pc \in {"rmdir", "write", "unlink"} /\ T!ReqTo(r, T!Idle)
  BY DEF T!DeleteFolder, T!WriteTemplateFile, T!DeleteTemplateFile
<1>2. UNCHANGED <<log, row, nextId, seeded, project>>
  BY DEF T!DeleteFolder, T!WriteTemplateFile, T!DeleteTemplateFile
<1>3. T!Idle \in Standing
  BY DEF Standing
<1>4. req' \in [Requests -> Standing] /\ T!NoHalfTemplates'
  BY <1>1, <1>2, <1>3, RequestsMove
<1>5. files' \in [T!Ids -> Tables]
  <2>1. CASE T!DeleteFolder(r)
    BY <2>1, <1>1, RequestsStand DEF T!DeleteFolder, Dropping, T!NoFiles, T!Absent, Tables, TemplateInv
  <2>2. ASSUME NEW n \in Nat, req[r] \in Touching, files' = [files EXCEPT ![req[r].id][req[r].file] = n]
        PROVE  files' \in [T!Ids -> Tables]
    <3>1. req[r].id \in T!Ids /\ req[r].file \in Paths
      BY <2>2 DEF Touching
    <3>2. [files[req[r].id] EXCEPT ![req[r].file] = n] \in Tables
      BY <3>1 DEF Tables, TemplateInv
    <3> QED
      BY <2>2, <3>1, <3>2 DEF TemplateInv
  <2>3. CASE T!WriteTemplateFile(r)
    <3>1. req[r] \in Touching
      BY <2>3, RequestsStand DEF T!WriteTemplateFile
    <3> QED
      BY <2>2, <2>3, <3>1 DEF T!WriteTemplateFile
  <2>4. CASE T!DeleteTemplateFile(r)
    <3>1. req[r] \in Touching
      BY <2>4, RequestsStand DEF T!DeleteTemplateFile
    <3> QED
      BY <2>2, <2>4, <3>1 DEF T!DeleteTemplateFile, T!Absent
  <2> QED
    BY <2>1, <2>3, <2>4
<1> QED
  BY <1>2, <1>4, <1>5 DEF TemplateInv, T!SeededWithinCap

LEMMA TemplateStep == ASSUME T!BoundsOK, TemplateInv, [T!Next]_T!uvars PROVE TemplateInv'
<1>1. CASE UNCHANGED T!uvars
  BY <1>1 DEF T!uvars, TemplateInv, T!NoHalfTemplates, T!SeededWithinCap, T!InHand
<1>2. ASSUME NEW f \in Paths, T!EditProject(f) PROVE TemplateInv'
  <2>1. log' \in Seq(Paths)
    BY <1>2 DEF T!EditProject, TemplateInv
  <2> QED
    BY <1>2, <2>1 DEF T!EditProject, TemplateInv, T!NoHalfTemplates, T!SeededWithinCap, T!InHand
<1>3. ASSUME NEW r \in Requests, T!Step(r) PROVE TemplateInv'
  <2>1. CASE \E slug \in Slugs : T!SaveAsTemplate(r, slug) \/ \E t \in T!Ids : T!DuplicateTemplate(r, slug, t)
    <3>1. UNCHANGED <<log, row, nextId, files, seeded, project>> /\ req[r].pc = "idle"
      BY <2>1 DEF T!SaveAsTemplate, T!DuplicateTemplate, T!Start
    <3>2. \E to \in Standing : T!ReqTo(r, to)
      <4>1. \A t \in T!Ids : t \in 0..TemplateIds
        BY DEF T!Ids, T!BoundsOK
      <4>2. 0 \in 0..TemplateIds
        BY DEF T!BoundsOK
      <4> QED
        BY <2>1, <4>1, <4>2, ReadingTyped DEF T!SaveAsTemplate, T!DuplicateTemplate, Standing
    <3>3. req' \in [Requests -> Standing] /\ T!NoHalfTemplates'
      BY <3>1, <3>2, RequestsMove
    <3> QED
      BY <3>1, <3>3 DEF TemplateInv, T!SeededWithinCap
  <2>2. CASE \E t \in T!Ids : T!CreateFromTemplate(r, t)
    <3>1. UNCHANGED <<log, row, nextId, files, seeded, project>> /\ req[r].pc = "idle"
      BY <2>2 DEF T!CreateFromTemplate, T!Start
    <3>2. \E to \in Standing : T!ReqTo(r, to)
      <4>1. \A t \in T!Ids : t \in 0..TemplateIds
        BY DEF T!Ids, T!BoundsOK
      <4> QED
        BY <2>2, <4>1, ReadingTyped DEF T!CreateFromTemplate, Standing
    <3>3. req' \in [Requests -> Standing] /\ T!NoHalfTemplates'
      BY <3>1, <3>2, RequestsMove
    <3> QED
      BY <3>1, <3>3 DEF TemplateInv, T!SeededWithinCap
  <2>3. CASE \E t \in T!Ids, f \in Paths : T!CheckWrite(r, t, f) \/ T!CheckDelete(r, t, f)
    <3>1. UNCHANGED <<log, row, nextId, files, seeded, project>> /\ req[r].pc = "idle"
      BY <2>3 DEF T!CheckWrite, T!CheckDelete, T!Start
    <3>2. \E to \in Standing : T!ReqTo(r, to)
      BY <2>3 DEF T!CheckWrite, T!CheckDelete, Standing, Touching
    <3>3. req' \in [Requests -> Standing] /\ T!NoHalfTemplates'
      BY <3>1, <3>2, RequestsMove
    <3> QED
      BY <3>1, <3>3 DEF TemplateInv, T!SeededWithinCap
  <2> QED
    BY <1>3, <2>1, <2>2, <2>3, ReadKeeps, SeedProjectKeeps, CreateRowKeeps, SeedFileKeeps, SeededKeeps, UndoKeeps,
       RemoveRowKeeps, DeleteRowKeeps, FolderKeeps DEF T!Step
<1> QED
  BY <1>1, <1>2, <1>3 DEF T!Next

LEMMA TemplateEnough == ASSUME T!BoundsOK, TemplateInv PROVE T!TypeOK /\ T!NoHalfTemplates /\ T!SeededWithinCap
  BY DEF TemplateInv, T!TypeOK, Tables, Standing, T!Idle, Resolving, Storing, Dropping, Touching

(* The invariant holds throughout, for every set of requests, slugs and      *)
(* paths.                                                                    *)
THEOREM TemplateInvariance == ASSUME T!BoundsOK PROVE T!Spec => []TemplateInv
<1>1. T!Init => TemplateInv
  BY TemplateInit
<1>2. TemplateInv /\ [T!Next]_T!uvars => TemplateInv'
  BY TemplateStep
<1> QED
  BY <1>1, <1>2, PTL DEF T!Spec

(* A template at rest is whole and no project is seeded past the cap.        *)
THEOREM TemplatesSound ==
    ASSUME T!BoundsOK PROVE T!Spec => [](T!TypeOK /\ T!NoHalfTemplates /\ T!SeededWithinCap)
<1>1. TemplateInv => T!TypeOK /\ T!NoHalfTemplates /\ T!SeededWithinCap
  BY TemplateEnough
<1> QED
  BY <1>1, TemplateInvariance, PTL

-----------------------------------------------------------------------------
(****************************************************************************)
(* The compose builder.  Keys are told apart by the numbers behind them,    *)
(* whatever keys were asked for; the invariant says what a request has read *)
(* of the fragments and which of them it has emitted.                       *)
(****************************************************************************)
(* Sizes of sets are those of the standard module.                           *)
LEMMA BuilderSizes == \A X : B!IsFiniteSet(X) = IsFiniteSet(X) /\ B!Cardinality(X) = Cardinality(X)
<1>1. \A X : B!IsFiniteSet(X) = IsFiniteSet(X)
  BY DEF B!IsFiniteSet, IsFiniteSet
<1> QED
  BY <1>1 DEF B!Cardinality, Cardinality

LEMMA LeastNumber ==
    ASSUME NEW Those \in SUBSET Nat, Those # {}
    PROVE  \E x \in Those : \A y \in Those : x <= y
<1>1. PICK x \in Those : \A y \in Those : ~(<<y, x>> \in OpToRel(<, Nat))
  BY WFMin, NatLessThanWellFounded
<1>2. \A y \in Those : ~(y < x)
  BY <1>1 DEF OpToRel
<1>3. x \in Nat /\ \A y \in Those : y \in Nat
  OBVIOUS
<1>4. \A y \in Those : x <= y
  BY <1>2, <1>3
<1> QED
  BY <1>4

NameParts == Keys \cup {b.service : b \in Blocks} \cup UNION {b.vols : b \in Blocks}
Pieces == UNION {{n[i] : i \in DOMAIN n} : n \in NameParts}
Part == Pieces \cup Nat
Labels == Seq(Part)

LEMMA NamesAreLabels == ASSUME B!BoundsOK, NEW n \in NameParts PROVE n \in Labels
<1>0. B!IsName(n)
  BY DEF B!BoundsOK, NameParts
<1>1. n \in Seq({n[i] : i \in DOMAIN n})
  BY <1>0 DEF B!IsName
<1>2. {n[i] : i \in DOMAIN n} \subseteq Part
  BY DEF Part, Pieces
<1> QED
  BY <1>1, <1>2 DEF Labels

(* Two names that differ still do once the same name is put behind both.     *)
LEMMA BehindKeepsApart ==
    ASSUME NEW a \in Labels, NEW b \in Labels, NEW v \in Labels, a \o v = b \o v
    PROVE  a = b
<1>1. Len(a \o v) = Len(a) + Len(v) /\ Len(b \o v) = Len(b) + Len(v)
  BY DEF Labels
<1>2. Len(a) \in Nat /\ Len(b) \in Nat /\ Len(v) \in Nat
  BY DEF Labels
<1>3. Len(a) = Len(b)
  BY <1>1, <1>2
<1>4. \A i \in 1..Len(a) : (a \o v)[i] = a[i] /\ (b \o v)[i] = b[i]
  BY <1>2, <1>3 DEF Labels
<1>5. \A i \in 1..Len(a) : a[i] = b[i]
  BY <1>4
<1> QED
  BY <1>3, <1>5 DEF Labels

LEMMA SuffixesDiffer ==
    ASSUME NEW key \in Labels, NEW m \in Nat, NEW n \in Nat, key \o <<m>> = key \o <<n>>
    PROVE  m = n
<1>0. m \in Part /\ n \in Part
  BY DEF Part
<1>1. <<m>> \in Labels /\ <<n>> \in Labels
  BY <1>0 DEF Labels
<1>2. (key \o <<m>>)[Len(key) + 1] = m /\ (key \o <<n>>)[Len(key) + 1] = n
  BY <1>1 DEF Labels
<1> QED
  BY <1>2

(* The loop over -2, -3... ends: a name is free once more have been tried    *)
(* than are in use.                                                          *)
LEMMA FreeIsFree ==
    ASSUME NEW key \in Labels, NEW keys, IsFiniteSet(keys)
    PROVE  B!Free(key, keys) \in Labels /\ B!Free(key, keys) \notin keys
<1>1. CASE key \notin keys
  BY <1>1 DEF B!Free
<1>2. CASE key \in keys
  <2> DEFINE c == Cardinality(keys)
             Good(n) == key \o <<n>> \notin keys /\ \A m \in 2..n - 1 : key \o <<m>> \in keys
  <2>1. c \in Nat
    BY FS_CardinalityType
  <2>2. \E n \in 2..c + 2 : key \o <<n>> \notin keys
    <3> SUFFICES ASSUME \A n \in 2..c + 2 : key \o <<n>> \in keys PROVE FALSE
      OBVIOUS
    <3> DEFINE f == [n \in 2..c + 2 |-> key \o <<n>>]
    <3>1. f \in [2..c + 2 -> keys]
      OBVIOUS
    <3>2. IsFiniteSet(2..c + 2) /\ Cardinality(2..c + 2) = c + 1
      BY <2>1, FS_Interval
    <3>3. \E x, y \in 2..c + 2 : x # y /\ f[x] = f[y]
      <4> HIDE DEF f
      <4>1. Cardinality(keys) < Cardinality(2..c + 2)
        BY <2>1, <3>2
      <4> QED
        BY <3>1, <3>2, <4>1, FS_PigeonHole
    <3>4. PICK x \in 2..c + 2, y \in 2..c + 2 : x # y /\ f[x] = f[y]
      BY <3>3
    <3>5. x \in Nat /\ y \in Nat /\ key \o <<x>> = key \o <<y>>
      BY <2>1, <3>4
    <3> QED
      BY <3>4, <3>5, SuffixesDiffer
  <2> DEFINE Those == {n \in 2..c + 2 : key \o <<n>> \notin keys}
  <2>3. Those \in SUBSET Nat /\ Those # {}
    BY <2>1, <2>2
  <2>4. PICK x \in Those : \A y \in Those : x <= y
    <3> HIDE DEF Those
    <3> QED
      BY <2>3, LeastNumber
  <2>5. Good(x)
    <3>1. \A m \in 2..x - 1 : m \in 2..c + 2 /\ ~(x <= m)
      BY <2>1, <2>4
    <3> QED
      BY <2>4, <3>1
  <2>6. \E n \in 2..c + 2 : Good(n)
    BY <2>4, <2>5
  <2> DEFINE p == CHOOSE n \in 2..c + 2 : Good(n)
  <2>7. p \in 2..c + 2 /\ Good(p)
    <3> HIDE DEF Good
    <3> QED
      BY <2>6
  <2>8. B!Free(key, keys) = key \o <<p>>
    BY <1>2, BuilderSizes DEF B!Free
  <2>9. p \in Nat
    BY <2>1, <2>7
  <2> HIDE DEF p
  <2>10. <<p>> \in Labels
    <3>1. p \in Part
      BY <2>9 DEF Part
    <3> QED
      BY <3>1 DEF Labels
  <2> QED
    BY <2>7, <2>8, <2>10 DEF Labels
<1> QED
  BY <1>1, <1>2

-----------------------------------------------------------------------------
(* KeysOf: the recursion has a solution on every prefix of a selection, by   *)
(* the smallest prefix on which it would have none.                          *)
KeysUpTo(insts, n, g) == g = [i \in 1..n |-> B!Free(B!Asked(insts[i]), {g[j] : j \in 1..i - 1})]

LEMMA KeysExist ==
    ASSUME NEW insts, NEW len \in Nat
    PROVE  \E g : KeysUpTo(insts, len, g)
<1> SUFFICES ASSUME ~ \E g : KeysUpTo(insts, len, g) PROVE FALSE
  OBVIOUS
<1> DEFINE Those == {n \in Nat : ~ \E g : KeysUpTo(insts, n, g)}
<1>1. Those \in SUBSET Nat /\ Those # {}
  OBVIOUS
<1>2. PICK n \in Those : \A m \in Those : n <= m
  <2> HIDE DEF Those
  <2> QED
    BY <1>1, LeastNumber
<1>3. n \in Nat /\ ~ \E g : KeysUpTo(insts, n, g)
  BY <1>2
<1>4. n # 0
  <2>1. KeysUpTo(insts, 0, [i \in 1..0 |-> 0])
    <3>1. 1..0 = {}
      OBVIOUS
    <3> QED
      BY <3>1 DEF KeysUpTo
  <2> QED
    BY <1>3, <2>1
<1>5. n - 1 \in Nat /\ n - 1 \notin Those
  <2>1. n - 1 \in Nat /\ ~(n <= n - 1)
    BY <1>3, <1>4
  <2> QED
    BY <1>2, <2>1
<1>6. PICK g : KeysUpTo(insts, n - 1, g)
  BY <1>5
<1> DEFINE k == B!Free(B!Asked(insts[n]), {g[j] : j \in 1..n - 1})
           h == [i \in 1..n |-> IF i = n THEN k ELSE g[i]]
<1>7. \A i \in 1..n : {h[j] : j \in 1..i - 1} = {g[j] : j \in 1..i - 1}
  <2> SUFFICES ASSUME NEW i \in 1..n PROVE {h[j] : j \in 1..i - 1} = {g[j] : j \in 1..i - 1}
    OBVIOUS
  <2>1. \A j \in 1..i - 1 : j \in 1..n /\ j # n
    BY <1>3
  <2>2. \A j \in 1..i - 1 : h[j] = g[j]
    BY <2>1
  <2> HIDE DEF h
  <2> QED
    BY <2>2
<1>8. \A i \in 1..n : h[i] = B!Free(B!Asked(insts[i]), {g[j] : j \in 1..i - 1})
  <2> SUFFICES ASSUME NEW i \in 1..n PROVE h[i] = B!Free(B!Asked(insts[i]), {g[j] : j \in 1..i - 1})
    OBVIOUS
  <2>1. CASE i = n
    BY <2>1
  <2>2. CASE i # n
    <3>1. i \in 1..n - 1
      BY <1>3, <2>2
    <3>2. g[i] = B!Free(B!Asked(insts[i]), {g[j] : j \in 1..i - 1})
      BY <1>6, <3>1 DEF KeysUpTo
    <3> QED
      BY <2>2, <3>2
  <2> QED
    BY <2>1, <2>2
<1>9. KeysUpTo(insts, n, h)
  <2>1. DOMAIN h = 1..n /\ h = [i \in 1..n |-> h[i]]
    OBVIOUS
  <2>2. \A i \in 1..n : h[i] = B!Free(B!Asked(insts[i]), {h[j] : j \in 1..i - 1})
    BY <1>7, <1>8
  <2> HIDE DEF h
  <2> QED
    BY <2>1, <2>2 DEF KeysUpTo
<1> QED
  BY <1>3, <1>9

LEMMA KeysOfIs ==
    ASSUME NEW S, NEW insts \in Seq(S)
    PROVE  KeysUpTo(insts, Len(insts), B!KeysOf(insts))
<1>1. DOMAIN insts = 1..Len(insts) /\ Len(insts) \in Nat
  OBVIOUS
<1>2. \E g : KeysUpTo(insts, Len(insts), g)
  BY <1>1, KeysExist
<1>3. B!KeysOf(insts) = CHOOSE g : g = [i \in DOMAIN insts |-> B!Free(B!Asked(insts[i]), {g[j] : j \in 1..i - 1})]
  BY DEF B!KeysOf
<1>4. B!KeysOf(insts) = CHOOSE g : KeysUpTo(insts, Len(insts), g)
  BY <1>1, <1>3 DEF KeysUpTo
<1> QED
  BY <1>2, <1>4

Placed == [block : Blocks, key : Keys, merges : SUBSET Anchors]

(* Every instance gets a key, and no two the same (AssembleCompose).         *)
LEMMA KeysAreDistinct ==
    ASSUME B!BoundsOK, NEW insts \in Seq(Placed)
    PROVE  /\ \A i \in 1..Len(insts) : B!KeysOf(insts)[i] \in Labels
           /\ \A i, j \in 1..Len(insts) : i # j => B!KeysOf(insts)[i] # B!KeysOf(insts)[j]
<1> DEFINE g == B!KeysOf(insts)
           n == Len(insts)
<1>1. KeysUpTo(insts, n, g) /\ n \in Nat
  BY KeysOfIs
<1> HIDE DEF g
<1>2. \A i \in 1..n : B!Asked(insts[i]) \in Labels
  <2> SUFFICES ASSUME NEW i \in 1..n PROVE B!Asked(insts[i]) \in Labels
    OBVIOUS
  <2>1. insts[i] \in Placed
    OBVIOUS
  <2>2. B!Asked(insts[i]) \in NameParts
    BY <2>1 DEF B!Asked, Placed, NameParts
  <2> QED
    BY <2>2, NamesAreLabels
<1>3. \A i \in 1..n : IsFiniteSet({g[j] : j \in 1..i - 1})
  <2> SUFFICES ASSUME NEW i \in 1..n PROVE IsFiniteSet({g[j] : j \in 1..i - 1})
    OBVIOUS
  <2> DEFINE f == [j \in 1..i - 1 |-> g[j]]
             Those == {g[j] : j \in 1..i - 1}
  <2>1. f \in Surjection(1..i - 1, Those)
    BY DEF Surjection
  <2>2. IsFiniteSet(1..i - 1)
    BY FS_Interval
  <2> HIDE DEF f, Those
  <2>3. IsFiniteSet(Those)
    BY <2>1, <2>2, FS_Surjection
  <2> QED
    BY <2>3 DEF Those
<1>4. \A i \in 1..n : g[i] = B!Free(B!Asked(insts[i]), {g[j] : j \in 1..i - 1})
  BY <1>1 DEF KeysUpTo
<1>5. \A i \in 1..n : g[i] \in Labels /\ g[i] \notin {g[j] : j \in 1..i - 1}
  BY <1>2, <1>3, <1>4, FreeIsFree
<1>6. \A i, j \in 1..n : j < i => g[i] # g[j]
  <2> SUFFICES ASSUME NEW i \in 1..n, NEW j \in 1..n, j < i PROVE g[i] # g[j]
    OBVIOUS
  <2>1. j \in 1..i - 1
    BY <1>1
  <2> QED
    BY <1>5, <2>1
<1>7. \A i, j \in 1..n : i # j => j < i \/ i < j
  BY <1>1
<1>8. \A i, j \in 1..n : i # j => g[i] # g[j]
  BY <1>6, <1>7
<1> QED
  BY <1>5, <1>8 DEF g

-----------------------------------------------------------------------------
(* Where a request can stand.                                                *)
ReadFrags == UNION {[Held -> SUBSET Anchors] : Held \in SUBSET FragIds}
Emitted(frags) == UNION {frags[f] : f \in DOMAIN frags}
Selecting == [pc : {"resolve", "merge"}, included : SUBSET FragIds, todo : Seq(B!Instances), merge : SUBSET FragIds,
              frags : ReadFrags, placed : Seq(Placed), anchors : SUBSET Anchors]

SelectionHolds ==
    build \in Selecting =>
          /\ build.pc = "merge" => build.todo # << >> /\ build.anchors \subseteq Emitted(build.frags)
          /\ \A i \in 1..Len(build.placed) : build.placed[i].merges \subseteq Emitted(build.frags)

BuilderInv ==
    /\ frag \in ReadFrags /\ edits \in 0..FragEdits
    /\ build.pc = "done" \/ build = B!Idle \/ build \in Selecting
    /\ SelectionHolds
    /\ B!AliasesResolve /\ B!NoServiceDropped /\ B!ClustersKeepTheirData

LEMMA FragsAre == ASSUME NEW g PROVE g \in ReadFrags <=> /\ DOMAIN g \subseteq FragIds /\ g = [f \in DOMAIN g |-> g[f]]
                                                         /\ \A f \in DOMAIN g : g[f] \subseteq Anchors
  BY DEF ReadFrags

LEMMA BuilderInit == ASSUME B!BoundsOK, B!Init PROVE BuilderInv
<1>1. frag \in ReadFrags
  BY DEF B!Init, ReadFrags
<1>2. build = B!Idle /\ B!Idle.pc = "idle" /\ B!Idle \notin Selecting
  BY DEF B!Init, B!Idle, Selecting
<1>3. edits \in 0..FragEdits
  BY DEF B!Init, B!BoundsOK
<1> QED
  BY <1>1, <1>2, <1>3 DEF BuilderInv, SelectionHolds, B!AliasesResolve, B!NoServiceDropped,
     B!ClustersKeepTheirData

LEMMA EditFragmentKeeps ==
    ASSUME B!BoundsOK, BuilderInv, NEW f \in FragIds, NEW anchors \in SUBSET Anchors, B!DeleteFragment(f) \/ B!UpdateFragment(f, anchors)
    PROVE  BuilderInv'
<1>1. frag' \in ReadFrags
  <2>1. CASE B!DeleteFragment(f)
    BY <2>1, FragsAre DEF B!DeleteFragment, BuilderInv
  <2>2. CASE B!UpdateFragment(f, anchors)
    BY <2>2, FragsAre DEF B!UpdateFragment, BuilderInv
  <2> QED
    BY <2>1, <2>2
<1>2. build' = build /\ edits' \in 0..FragEdits
  BY DEF B!DeleteFragment, B!UpdateFragment, BuilderInv, B!BoundsOK
<1> QED
  BY <1>1, <1>2 DEF BuilderInv, SelectionHolds, B!AliasesResolve, B!NoServiceDropped,
     B!ClustersKeepTheirData

(* A request that goes on, or is refused, has no file yet.                   *)
LEMMA Selects ==
    ASSUME BuilderInv, UNCHANGED <<frag, edits>>, build' = B!Idle \/ (build' \in Selecting /\ SelectionHolds')
    PROVE  BuilderInv'
<1>1. build'.pc # "done" /\ SelectionHolds'
  <2>1. CASE build' = B!Idle
    BY <2>1 DEF B!Idle, Selecting, SelectionHolds
  <2>2. CASE build' \in Selecting /\ SelectionHolds'
    BY <2>2 DEF Selecting
  <2> QED
    BY <2>1, <2>2
<1> QED
  BY <1>1 DEF BuilderInv, B!AliasesResolve, B!NoServiceDropped, B!ClustersKeepTheirData

LEMMA RequestKeeps ==
    ASSUME B!BoundsOK, BuilderInv, NEW included \in SUBSET FragIds, NEW n \in 1..MaxInstances,
           NEW insts \in [1..n -> B!Instances], B!Request(included, insts)
    PROVE  BuilderInv'
<1>1. insts \in Seq(B!Instances)
  <2>1. n \in Nat
    BY DEF B!BoundsOK
  <2> QED
    BY <2>1
<1>2. [f \in {} |-> {}] \in ReadFrags
  BY FragsAre
<1>3. build' \in Selecting /\ build'.pc = "resolve" /\ build'.placed = << >>
  BY <1>1, <1>2 DEF B!Request, Selecting
<1>4. SelectionHolds'
  BY <1>3 DEF SelectionHolds
<1> QED
  BY <1>3, <1>4, Selects DEF B!Request

(* Reading a fragment only adds to what is emitted.                          *)
LEMMA AddFragIs ==
    ASSUME BuilderInv, NEW x \in Selecting, NEW f \in FragIds, f \in DOMAIN frag, f \notin DOMAIN x.frags
    PROVE  /\ B!AddFrag(x, f) \in Selecting
           /\ \A c \in {"pc", "included", "todo", "merge", "placed", "anchors"} : B!AddFrag(x, f)[c] = x[c]
           /\ Emitted(x.frags) \subseteq Emitted(B!AddFrag(x, f).frags)
           /\ f \in DOMAIN B!AddFrag(x, f).frags /\ B!AddFrag(x, f).frags[f] = frag[f]
           /\ B!AddFrag(x, f).frags[f] \subseteq Emitted(B!AddFrag(x, f).frags)
<1> DEFINE g == [h \in DOMAIN x.frags \cup {f} |-> IF h = f THEN frag[f] ELSE x.frags[h]]
           y == [x EXCEPT !.frags = g]
<1>1. B!AddFrag(x, f) = y
  BY DEF B!AddFrag
<1>2. x.frags \in ReadFrags /\ frag \in ReadFrags
  BY DEF Selecting, BuilderInv
<1>3. g \in ReadFrags
  BY <1>2, FragsAre
<1>4. DOMAIN g = DOMAIN x.frags \cup {f} /\ g[f] = frag[f] /\ \A h \in DOMAIN x.frags : g[h] = x.frags[h]
  OBVIOUS
<1>5. Emitted(x.frags) \subseteq Emitted(g) /\ g[f] \subseteq Emitted(g)
  <2> HIDE DEF g
  <2> QED
    BY <1>4 DEF Emitted
<1> HIDE DEF g
<1>6. y \in Selecting /\ y.frags = g /\ \A c \in {"pc", "included", "todo", "merge", "placed", "anchors"} : y[c] = x[c]
  BY <1>3 DEF Selecting
<1> QED
  BY <1>1, <1>4, <1>5, <1>6

LEMMA ReadIncludedKeeps ==
    ASSUME B!BoundsOK, BuilderInv, NEW f \in FragIds, B!ReadIncluded(f)
    PROVE  BuilderInv'
<1>0. build \in Selecting /\ build.pc = "resolve" /\ SelectionHolds
  BY DEF B!ReadIncluded, BuilderInv, B!Idle
<1> DEFINE x == [build EXCEPT !.included = @ \ {f}]
<1>1. x \in Selecting /\ x.pc = "resolve" /\ x.placed = build.placed /\ x.frags = build.frags
  BY <1>0 DEF Selecting
<1> HIDE DEF x
<1>2. CASE build' = B!Idle
  BY <1>2, Selects DEF B!ReadIncluded
<1>3. CASE build' = x
  <2>1. build' \in Selecting /\ SelectionHolds'
    BY <1>0, <1>1, <1>3 DEF SelectionHolds
  <2> QED
    BY <2>1, Selects DEF B!ReadIncluded
<1>4. CASE build' = B!AddFrag(x, f) /\ f \in DOMAIN frag /\ f \notin DOMAIN build.frags
  <2>1. /\ build' \in Selecting /\ build'.pc = "resolve" /\ build'.placed = build.placed
        /\ Emitted(build.frags) \subseteq Emitted(build'.frags)
    BY <1>1, <1>4, AddFragIs
  <2>2. SelectionHolds'
    BY <1>0, <2>1 DEF SelectionHolds
  <2> QED
    BY <2>1, <2>2, Selects DEF B!ReadIncluded
<1> QED
  BY <1>2, <1>3, <1>4 DEF B!ReadIncluded, B!Known, x

LEMMA NextInstanceKeeps == ASSUME B!BoundsOK, BuilderInv, B!NextInstance PROVE BuilderInv'
<1>0. build \in Selecting /\ build.pc = "resolve" /\ SelectionHolds /\ build.todo # << >>
  BY DEF B!NextInstance, BuilderInv, B!Idle
<1>1. Head(build.todo) \in B!Instances
  BY <1>0 DEF Selecting
<1>2. /\ build' \in Selecting /\ build'.todo = build.todo /\ build'.anchors = {} /\ build'.placed = build.placed
      /\ build'.frags = build.frags
  BY <1>0, <1>1 DEF B!NextInstance, Selecting, B!Instances
<1>3. SelectionHolds'
  BY <1>0, <1>2 DEF SelectionHolds
<1> QED
  BY <1>2, <1>3, Selects DEF B!NextInstance

LEMMA ReadMergeKeeps == ASSUME B!BoundsOK, BuilderInv, NEW f \in FragIds, B!ReadMerge(f) PROVE BuilderInv'
<1>0. build \in Selecting /\ build.pc = "merge" /\ SelectionHolds
  BY DEF B!ReadMerge, BuilderInv, B!Idle
<1> DEFINE x == [build EXCEPT !.merge = @ \ {f}]
           y == B!MergeFrag(x, f)
           more == B!AnchorsOf(B!MergeFrag(build, f), f)
<1>1. x \in Selecting /\ x.pc = "merge" /\ x.todo = build.todo /\ x.placed = build.placed /\ x.frags = build.frags /\ x.anchors = build.anchors
  BY <1>0 DEF Selecting
<1> HIDE DEF x
<1>2. CASE build' = B!Idle
  BY <1>2, Selects DEF B!ReadMerge
<1>3. CASE build' = [y EXCEPT !.anchors = @ \cup more] /\ (f \in DOMAIN build.frags \/ f \in DOMAIN frag)
  <2>1. /\ y \in Selecting /\ y.pc = "merge" /\ y.todo = build.todo /\ y.placed = build.placed /\ y.anchors = build.anchors
        /\ Emitted(build.frags) \subseteq Emitted(y.frags)
        /\ more \subseteq Emitted(y.frags) /\ more \subseteq Anchors
    <3>1. CASE f \in DOMAIN build.frags
      <4>1. y = x /\ more = build.frags[f]
        BY <1>1, <3>1 DEF B!MergeFrag, B!AnchorsOf, B!Known
      <4>2. build.frags[f] \subseteq Emitted(build.frags) /\ build.frags[f] \subseteq Anchors
        BY <1>0, <3>1, FragsAre DEF Emitted, Selecting
      <4> HIDE DEF y, more
      <4> QED
        BY <1>1, <4>1, <4>2
    <3>2. CASE f \notin DOMAIN build.frags
      <4>1. y = B!AddFrag(x, f) /\ more = B!AddFrag(build, f).frags[f] /\ f \in DOMAIN frag
        BY <1>1, <1>3, <3>2 DEF B!MergeFrag, B!AnchorsOf, B!Known
      <4>2. more = frag[f] /\ frag[f] \subseteq Anchors
        BY <1>0, <3>2, <4>1, AddFragIs, FragsAre DEF BuilderInv
      <4> HIDE DEF y, more
      <4>3. /\ y \in Selecting /\ y.pc = "merge" /\ y.todo = build.todo /\ y.placed = build.placed /\ y.anchors = build.anchors
            /\ Emitted(build.frags) \subseteq Emitted(y.frags)
            /\ y.frags[f] = frag[f] /\ y.frags[f] \subseteq Emitted(y.frags)
        BY <1>1, <3>2, <4>1, AddFragIs
      <4> QED
        BY <4>2, <4>3
    <3> QED
      BY <3>1, <3>2
  <2> HIDE DEF y, more
  <2>2. /\ build' \in Selecting /\ build'.pc = "merge" /\ build'.todo = build.todo /\ build'.placed = build.placed
        /\ build'.anchors = build.anchors \cup more /\ build'.frags = y.frags
    BY <1>3, <2>1 DEF Selecting
  <2>3. SelectionHolds'
    BY <1>0, <2>1, <2>2 DEF SelectionHolds
  <2> QED
    BY <2>2, <2>3, Selects DEF B!ReadMerge
<1> QED
  BY <1>2, <1>3 DEF B!ReadMerge, B!Known, x

LEMMA PlaceInstanceKeeps == ASSUME B!BoundsOK, BuilderInv, B!PlaceInstance PROVE BuilderInv'
<1>0. build \in Selecting /\ build.pc = "merge" /\ SelectionHolds
  BY DEF B!PlaceInstance, BuilderInv, B!Idle
<1> DEFINE p == [block |-> Head(build.todo).block, key |-> Head(build.todo).key, merges |-> build.anchors]
<1>1. build.todo # << >> /\ build.todo \in Seq(B!Instances) /\ build.anchors \subseteq Emitted(build.frags)
  BY <1>0 DEF SelectionHolds, Selecting
<1>2. Head(build.todo) \in B!Instances /\ Tail(build.todo) \in Seq(B!Instances)
  BY <1>1
<1>3. p \in Placed /\ p.merges = build.anchors
  BY <1>0, <1>2 DEF Placed, B!Instances, Selecting
<1>6. build' = [build EXCEPT !.pc = "resolve", !.todo = Tail(@), !.placed = Append(@, p)]
  BY DEF B!PlaceInstance
<1> HIDE DEF p
<1>4. /\ build' \in Selecting /\ build'.pc = "resolve" /\ build'.placed = Append(build.placed, p) /\ build'.frags = build.frags
  <2>1. build.placed \in Seq(Placed)
    BY <1>0 DEF Selecting
  <2>2. Append(build.placed, p) \in Seq(Placed)
    BY <1>3, <2>1
  <2> DEFINE t == Tail(build.todo)
             q == Append(build.placed, p)
  <2>3. build' = [build EXCEPT !.pc = "resolve", !.todo = t, !.placed = q] /\ t \in Seq(B!Instances) /\ q \in Seq(Placed)
    BY <1>2, <1>6, <2>2
  <2> HIDE DEF t, q
  <2>4. build' \in Selecting /\ build'.pc = "resolve" /\ build'.placed = q /\ build'.frags = build.frags
    BY <1>0, <2>3 DEF Selecting
  <2> QED
    BY <2>4 DEF q
<1>5. SelectionHolds'
  <2> SUFFICES ASSUME NEW i \in 1..Len(build'.placed) PROVE build'.placed[i].merges \subseteq Emitted(build.frags)
    BY <1>4 DEF SelectionHolds
  <2>1. build.placed \in Seq(Placed)
    BY <1>0 DEF Selecting
  <2>2. CASE i = Len(build.placed) + 1
    BY <1>1, <1>3, <1>4, <2>1, <2>2
  <2>3. CASE i \in 1..Len(build.placed)
    BY <1>0, <1>4, <2>1, <2>3 DEF SelectionHolds
  <2> QED
    BY <1>4, <2>1, <2>2, <2>3
<1> QED
  BY <1>4, <1>5, Selects DEF B!PlaceInstance

-----------------------------------------------------------------------------
(* AssembleCompose.                                                          *)
LEMMA UsedTwice ==
    ASSUME NEW S, NEW insts \in Seq(S), NEW i \in 1..Len(insts), NEW j \in 1..Len(insts), i # j, NEW v,
           v \in insts[i].block.vols, v \in insts[j].block.vols
    PROVE  B!Uses(insts, v) > 1
<1> DEFINE U == {k \in DOMAIN insts : v \in insts[k].block.vols}
<1>1. DOMAIN insts = 1..Len(insts) /\ Len(insts) \in Nat
  OBVIOUS
<1>2. IsFiniteSet(U)
  <2>1. IsFiniteSet(1..Len(insts))
    BY <1>1, FS_Interval
  <2> QED
    BY <1>1, <2>1, FS_Subset
<1>3. {i, j} \in SUBSET U
  BY <1>1
<1>4. Cardinality({i, j}) = 2
  <2>1. IsFiniteSet({i}) /\ Cardinality({i}) = 1
    BY FS_Singleton
  <2>2. Cardinality({i} \cup {j}) = 2
    <3>1. j \notin {i}
      OBVIOUS
    <3>2. Cardinality({i} \cup {j}) = Cardinality({i}) + 1
      BY <2>1, <3>1, FS_AddElement
    <3> DEFINE k == Cardinality({i})
               n == Cardinality({i} \cup {j})
    <3>3. k = 1 /\ n = k + 1
      BY <2>1, <3>2
    <3> HIDE DEF k, n
    <3>4. n = 2
      BY <3>3
    <3> QED
      BY <3>4 DEF n
  <2>3. {i} \cup {j} = {i, j}
    OBVIOUS
  <2> QED
    BY <2>2, <2>3
<1> HIDE DEF U
<1>5. Cardinality(U) \in Nat /\ Cardinality({i, j}) <= Cardinality(U)
  BY <1>2, <1>3, FS_Subset, FS_CardinalityType
<1> QED
  BY <1>4, <1>5, BuilderSizes DEF B!Uses, U

LEMMA AssembleKeeps ==
    ASSUME B!BoundsOK, BuilderInv, NEW given, B!Assemble(given)
    PROVE  BuilderInv'
<1>0. build \in Selecting /\ build.pc = "resolve" /\ SelectionHolds
  BY DEF B!Assemble, BuilderInv, B!Idle
<1> DEFINE insts == build.placed
           n == Len(insts)
           ks == B!KeysOf(insts)
           s == [i \in DOMAIN insts |->
                  [key |-> ks[i], merges |-> insts[i].merges,
                   vols |-> [v \in insts[i].block.vols |-> B!VolumeName(insts, ks[i], v)]]]
           vols == UNION {{s[i].vols[v] : v \in DOMAIN s[i].vols} : i \in DOMAIN s}
<1>1. insts \in Seq(Placed) /\ n \in Nat /\ DOMAIN insts = 1..n
  BY <1>0 DEF Selecting
<1>2. /\ build'.pc = "done" /\ build'.insts = insts
      /\ build'.file.services = s /\ build'.file.defined = Emitted(build.frags) /\ build'.file.volumes = vols
  BY DEF B!Assemble, B!AssembleCompose, Emitted
<1>3. /\ \A i \in 1..n : ks[i] \in Labels
      /\ \A i, j \in 1..n : i # j => ks[i] # ks[j]
  BY <1>1, KeysAreDistinct
<1> HIDE DEF ks, insts
<1>4. /\ DOMAIN s = 1..n
      /\ \A i \in 1..n : /\ s[i].key = ks[i] /\ s[i].merges = insts[i].merges
                         /\ DOMAIN s[i].vols = insts[i].block.vols
                         /\ \A v \in insts[i].block.vols : s[i].vols[v] = B!VolumeName(insts, ks[i], v)
  BY <1>1
<1>5. Len(s) = n
  <2>1. s \in [1..n -> {s[i] : i \in 1..n}]
    BY <1>1
  <2> HIDE DEF s
  <2>2. s \in Seq({s[i] : i \in 1..n})
    BY <1>1, <2>1
  <2> QED
    BY <1>1, <1>4, <2>2
<1>10. \A i \in 1..n : \A v \in insts[i].block.vols : s[i].vols[v] \in vols
  <2> HIDE DEF s
  <2> QED
    BY <1>4
<1> HIDE DEF s, vols
<1>6. B!AliasesResolve'
  <2>1. \A i \in 1..n : insts[i].merges \subseteq Emitted(build.frags)
    BY <1>0 DEF SelectionHolds, insts
  <2> QED
    BY <1>2, <1>4, <2>1 DEF B!AliasesResolve
<1>7. B!NoServiceDropped'
  BY <1>2, <1>3, <1>4, <1>5 DEF B!NoServiceDropped, B!IsInjective
<1>8. B!ClustersKeepTheirData'
  <2> SUFFICES ASSUME NEW i \in 1..n, NEW j \in 1..n, NEW v \in insts[i].block.vols
               PROVE  /\ s[i].vols[v] \in vols
                      /\ i # j /\ v \in insts[j].block.vols => s[i].vols[v] # s[j].vols[v]
    BY <1>2, <1>4 DEF B!ClustersKeepTheirData
  <2>1. s[i].vols[v] \in vols
    BY <1>10
  <2>2. ASSUME i # j, v \in insts[j].block.vols PROVE s[i].vols[v] # s[j].vols[v]
    <3>1. B!Uses(insts, v) > 1
      BY <1>1, <2>2, UsedTwice
    <3>2. s[i].vols[v] = ks[i] \o v /\ s[j].vols[v] = ks[j] \o v
      BY <1>4, <2>2, <3>1 DEF B!VolumeName
    <3>3. v \in Labels
      <4>1. insts[i] \in Placed
        BY <1>1
      <4>2. v \in NameParts
        BY <4>1 DEF Placed, NameParts
      <4> QED
        BY <4>2, NamesAreLabels
    <3> QED
      BY <1>3, <2>2, <3>2, <3>3, BehindKeepsApart
  <2> QED
    BY <2>1, <2>2
<1>9. SelectionHolds' /\ UNCHANGED <<frag, edits>>
  BY <1>2 DEF SelectionHolds, Selecting, B!Assemble
<1> QED
  BY <1>2, <1>6, <1>7, <1>8, <1>9 DEF BuilderInv

LEMMA BuilderStep == ASSUME B!BoundsOK, BuilderInv, [B!Next]_B!cvars PROVE BuilderInv'
<1>1. CASE UNCHANGED B!cvars
  BY <1>1 DEF B!cvars, BuilderInv, SelectionHolds, B!AliasesResolve, B!NoServiceDropped,
     B!ClustersKeepTheirData
<1>2. CASE \E f \in FragIds : B!DeleteFragment(f) \/ \E anchors \in SUBSET Anchors : B!UpdateFragment(f, anchors)
  <2>1. {} \in SUBSET Anchors
    OBVIOUS
  <2> QED
    BY <1>2, <2>1, EditFragmentKeeps
<1>3. CASE \E included \in SUBSET FragIds, n \in 1..MaxInstances : \E insts \in [1..n -> B!Instances] : B!Request(included, insts)
  BY <1>3, RequestKeeps
<1> QED
  BY <1>1, <1>2, <1>3, ReadIncludedKeeps, ReadMergeKeeps, NextInstanceKeeps, PlaceInstanceKeeps,
     AssembleKeeps DEF B!Next

LEMMA BuilderEnough ==
    ASSUME B!BoundsOK, BuilderInv
    PROVE  B!TypeOK /\ B!AliasesResolve /\ B!NoServiceDropped /\ B!ClustersKeepTheirData
<1>1. DOMAIN frag \subseteq FragIds /\ \A f \in DOMAIN frag : frag[f] \subseteq Anchors
  BY FragsAre DEF BuilderInv
<1>2. build.pc \in {"idle", "resolve", "merge", "done"}
  BY DEF BuilderInv, B!Idle, Selecting
<1> QED
  BY <1>1, <1>2 DEF BuilderInv, B!TypeOK

(* The invariant holds throughout, for every set of blocks, fragments and    *)
(* keys.                                                                     *)
THEOREM BuilderInvariance == ASSUME B!BoundsOK PROVE B!Spec => []BuilderInv
<1>1. B!Init => BuilderInv
  BY BuilderInit
<1>2. BuilderInv /\ [B!Next]_B!cvars => BuilderInv'
  BY BuilderStep
<1> QED
  BY <1>1, <1>2, PTL DEF B!Spec

(* A built file has every service under a key of its own, its aliases        *)
(* resolve, and instances of one block have volumes of their own.            *)
THEOREM BuilderSound ==
    ASSUME B!BoundsOK
    PROVE  B!Spec => [](B!TypeOK /\ B!AliasesResolve /\ B!NoServiceDropped /\ B!ClustersKeepTheirData)
<1>1. BuilderInv => B!TypeOK /\ B!AliasesResolve /\ B!NoServiceDropped /\ B!ClustersKeepTheirData
  BY BuilderEnough
<1> QED
  BY <1>1, BuilderInvariance, PTL

-----------------------------------------------------------------------------
(****************************************************************************)
(* Recovery bundles.  The invariant says what an import knows of its bundle,*)
(* of its budget and of the rows it has met, that a project it created is   *)
(* on the host it chose, and what nobody can take from an import of what is *)
(* there already.                                                           *)
(****************************************************************************)
(* What the tables, the disk, a bundle, an export and an import can hold.    *)
Dirs == {d \in [n : 0..MaxProjectFiles, b : 0..MaxProjectFiles] : d.b <= d.n}
Projects == [slug : Slugs, host : Nat]
Listed == [slug : Slugs, remote : BOOLEAN, secret : BOOLEAN, domain : BOOLEAN, files : Dirs]
Counts == [export : Nat, change : Nat, delete : Nat, fault : Nat, crash : Nat]
Bundles == [pc : {"file"}, secrets : BOOLEAN, sealed : BOOLEAN, host : BOOLEAN, rows : SUBSET R!Kinds, projects : SUBSET Listed]
Exporting == [pc : {"tables", "projects"}, at : Nat, secrets : BOOLEAN, pass : BOOLEAN, host : Nat, rows : SUBSET R!Kinds]
Packing == [pc : {"pack"}, secrets : BOOLEAN, pass : BOOLEAN, host : BOOLEAN, rows : SUBSET R!Kinds,
            todo : SUBSET Listed, packed : SUBSET Listed, bytes : Nat]
ImportPcs == {"host", "list", "row", "settings", "next", "stopped", "validate", "create", "rename", "attach", "domains"}
Importing == [pc : ImportPcs, b : Bundles, hostId : Nat, hooks : BOOLEAN, seen : SUBSET (R!Kinds \cup Slugs),
              todo : SUBSET Listed, bytes : 0..MaxTotalBytes, files : 0..MaxTotalFiles, m : Listed \cup {R!None},
              n : Nat, id : Nat, before : BOOLEAN, deletes : Nat, made : Nat,
              lost : SUBSET (R!Kinds \cup {"host"}), link : {"none", "linked", "bare"}]

WorldOK ==
    /\ host \in Nat /\ tables \in [R!Kinds -> Nat]
    /\ stored \in [R!Ids -> {R!None} \cup Projects] /\ dir \in [R!Ids -> Dirs]
    /\ secrets \in SUBSET R!Ids /\ mapped \in 0..MaxIds /\ settings \in {"own", "bundle"}
    /\ next \in [host : Nat \ {0}, project : Nat \ {0}]
    /\ staging \in SUBSET Importers /\ counted \in Counts
UnusedIds == \A p \in R!Ids : p >= next.project => stored[p] = R!None

ExportOK ==
    \/ export = R!Idle
    \/ export \in Exporting /\ (export.pc = "tables" => export.at \in 1..3)
    \/ /\ export \in Packing /\ IsFiniteSet(export.todo) /\ IsFiniteSet(export.packed)
       /\ export.todo \cup export.packed # {} => export.pass
BundleOK ==
    \/ bundle = R!Idle
    \/ bundle \in Bundles /\ IsFiniteSet(bundle.projects) /\ (bundle.projects # {} => bundle.sealed)

(* What an import has in its hands, whatever became of the tables.           *)
Known(x) ==
    /\ x \in Importing
    /\ IsFiniteSet(x.todo) /\ x.todo \subseteq x.b.projects /\ R!DeclaredBytes(x.todo) <= x.bytes
    /\ x.pc \in {"list", "row"} => x.n \in 1..3
    /\ x.pc \in {"validate", "create", "rename", "attach", "domains"} => x.m \in Listed
    /\ x.pc \in {"create", "rename"} => x.m.files.n > 0
    /\ x.pc # "host" /\ x.b.host /\ "host" \notin x.lost => x.hostId # 0
HooksKnown(x) ==
    /\ x.pc \in {"list", "row"} /\ "webhook" \in x.seen => x.hooks
    /\ x.pc \in {"list", "row"} /\ x.n = 3 /\ "webhook" \in x.b.rows => x.hooks \/ "webhook" \in x.lost
    /\ x.link = "bare" /\ "webhook" \in x.b.rows => "webhook" \in x.lost
    /\ x.pc = "host" => x.seen = {}

(* The project it created is on the host it chose, or deleted.               *)
Follows(x) ==
    /\ x.deletes <= counted.delete
    /\ x.pc \in {"rename", "attach", "domains"} =>
         /\ x.id \in R!Ids /\ x.id < next.project
         /\ stored[x.id] # R!None => stored[x.id].host = R!Target(x)

(* An import of what is there: it creates nothing, and nobody else can take  *)
(* away what it found, short of a deletion.                                  *)
Still(m) == \E p \in R!Ids : stored[p] # R!None /\ stored[p].slug = m.slug /\ ~R!InHand(p)
Quiet(x) ==
    x.before /\ x.deletes = counted.delete =>
        /\ x.made = 0 /\ x.pc \in {"host", "list", "row", "settings", "next", "stopped"}
        /\ x.b.host => host # 0 /\ (x.pc = "host" => x.hostId # 0)
        /\ \A k \in x.b.rows : tables[k] > 0
        /\ \A m \in x.b.projects : Still(m)
        /\ x.pc = "row" /\ R!Tables[x.n] \in x.b.rows => R!Tables[x.n] \in x.seen
        /\ x.pc = "next" => \A m \in x.todo : m.slug \in x.seen

ImportOK(x) == Known(x) /\ HooksKnown(x) /\ Follows(x) /\ Quiet(x)
ImportsOK == imp \in [Importers -> {R!Idle} \cup Importing] /\ \A i \in Importers : imp[i] = R!Idle \/ ImportOK(imp[i])

BundleInv ==
    /\ WorldOK /\ UnusedIds /\ ExportOK /\ BundleOK /\ ImportsOK
    /\ R!RowHasFiles /\ R!StagingIsOwned

-----------------------------------------------------------------------------
(* The records are told apart, and the tables come in their order.           *)
LEMMA ApartFromNone == R!None \notin Projects /\ R!None \notin Listed
  BY DEF R!None, Projects, Listed

LEMMA IdleApart ==
    /\ R!Idle \notin Importing /\ R!Idle \notin Bundles /\ R!Idle \notin Exporting /\ R!Idle \notin Packing
    /\ R!Idle.pc = "idle"
  BY DEF R!Idle, Importing, Bundles, Exporting, Packing, ImportPcs

LEMMA TablesAre == /\ R!Tables[1] = "registry" /\ R!Tables[2] = "webhook" /\ R!Tables[3] = "rule" /\ Len(R!Tables) = 3
                   /\ \A n \in 1..3 : R!Tables[n] \in R!Kinds
  BY DEF R!Tables, R!Kinds

LEMMA NoDirIs == ASSUME R!BoundsOK PROVE R!NoDir \in Dirs /\ R!NoDir.n = 0 /\ R!NoDir.b = 0
  BY DEF R!BoundsOK, R!NoDir, Dirs

LEMMA FilesAre == ASSUME R!BoundsOK PROVE R!Files \subseteq Dirs /\ \A d \in R!Files : d # R!NoDir
<1>1. R!Files \subseteq Dirs
  BY DEF R!BoundsOK, R!Files, Dirs
<1>2. \A d \in R!Files : d.n # 0
  BY DEF R!BoundsOK, R!Files
<1> QED
  BY <1>1, <1>2, NoDirIs

-----------------------------------------------------------------------------
(* The declared bytes of a finite list are those of one project and the      *)
(* others.                                                                   *)
Bytes(metas) == {u \in R!Numbered(metas) : u[2] <= u[1].files.b}

(* Sizes of sets are those of the standard module.                           *)
LEMMA BundleSizes == \A X : R!IsFiniteSet(X) = IsFiniteSet(X) /\ R!Cardinality(X) = Cardinality(X)
<1>1. \A X : R!IsFiniteSet(X) = IsFiniteSet(X)
  BY DEF R!IsFiniteSet, IsFiniteSet
<1> QED
  BY <1>1 DEF R!Cardinality, Cardinality

LEMMA BytesFinite ==
    ASSUME R!BoundsOK, NEW S, IsFiniteSet(S) PROVE IsFiniteSet(Bytes(S)) /\ R!DeclaredBytes(S) \in Nat
<1>1. IsFiniteSet(1..MaxProjectFiles)
  BY FS_Interval DEF R!BoundsOK
<1>2. IsFiniteSet(R!Numbered(S))
  BY <1>1, FS_Product DEF R!Numbered
<1>3. Bytes(S) \in SUBSET R!Numbered(S)
  BY DEF Bytes
<1>4. IsFiniteSet(Bytes(S))
  BY <1>2, <1>3, FS_Subset
<1> QED
  BY <1>4, FS_CardinalityType, BundleSizes DEF R!DeclaredBytes, Bytes

LEMMA OwnBytes == ASSUME R!BoundsOK, NEW m \in Listed PROVE R!DeclaredBytes({m}) = m.files.b
<1> DEFINE k == m.files.b
<1>1. k \in Nat /\ k <= MaxProjectFiles /\ MaxProjectFiles \in Nat
  BY DEF R!BoundsOK, Listed, Dirs
<1>2. Bytes({m}) = {m} \X (1..k)
  <2> SUFFICES ASSUME NEW u PROVE u \in Bytes({m}) <=> u \in {m} \X (1..k)
    OBVIOUS
  <2>1. ASSUME u \in Bytes({m}) PROVE u \in {m} \X (1..k)
    <3>1. u \in {m} \X (1..MaxProjectFiles) /\ u[2] <= u[1].files.b
      BY <2>1 DEF Bytes, R!Numbered
    <3>2. PICK n \in 1..MaxProjectFiles : u = <<m, n>>
      BY <3>1
    <3>3. n <= k
      BY <3>1, <3>2
    <3>4. n \in 1..k
      BY <1>1, <3>3
    <3> HIDE DEF k
    <3> QED
      BY <3>2, <3>4
  <2>2. ASSUME u \in {m} \X (1..k) PROVE u \in Bytes({m})
    <3>2. PICK n \in 1..k : u = <<m, n>>
      BY <2>2
    <3>3. n \in 1..MaxProjectFiles /\ n <= k
      BY <1>1
    <3>4. u \in {m} \X (1..MaxProjectFiles) /\ u[2] <= u[1].files.b
      BY <3>2, <3>3
    <3> QED
      BY <3>4 DEF Bytes, R!Numbered
  <2> QED
    BY <2>1, <2>2
<1> HIDE DEF k
<1>3. IsFiniteSet(1..k) /\ Cardinality(1..k) = k
  BY <1>1, FS_Interval
<1>4. IsFiniteSet({m}) /\ Cardinality({m}) = 1
  BY FS_Singleton
<1>5. Cardinality({m} \X (1..k)) = 1 * k
  BY <1>3, <1>4, FS_Product
<1>6. 1 * k = k
  BY <1>1
<1> QED
  BY <1>2, <1>5, <1>6, BundleSizes DEF R!DeclaredBytes, Bytes, k

LEMMA BytesSplit ==
    ASSUME R!BoundsOK, NEW S \in SUBSET Listed, IsFiniteSet(S), NEW m \in S
    PROVE  R!DeclaredBytes(S) = R!DeclaredBytes(S \ {m}) + m.files.b
<1> DEFINE A == S \ {m}
<1>1. IsFiniteSet(A) /\ IsFiniteSet({m}) /\ m \in Listed
  BY FS_RemoveElement, FS_Singleton
<1>2. Bytes(S) = Bytes(A) \cup Bytes({m}) /\ Bytes(A) \cap Bytes({m}) = {}
  BY DEF Bytes, R!Numbered
<1>3. IsFiniteSet(Bytes(A)) /\ IsFiniteSet(Bytes({m})) /\ R!DeclaredBytes(A) \in Nat /\ R!DeclaredBytes({m}) = m.files.b
  BY <1>1, BytesFinite, OwnBytes
<1>4. R!DeclaredBytes(S) = Cardinality(Bytes(S)) /\ R!DeclaredBytes(A) = Cardinality(Bytes(A))
      /\ R!DeclaredBytes({m}) = Cardinality(Bytes({m}))
  BY BundleSizes DEF R!DeclaredBytes, Bytes
<1> HIDE DEF A
<1>5. Cardinality(Bytes(S)) = Cardinality(Bytes(A)) + Cardinality(Bytes({m})) - Cardinality({})
  BY <1>2, <1>3, FS_Union
<1>6. Cardinality({}) = 0
  BY FS_EmptySet
<1>7. m.files.b \in Nat
  BY <1>1 DEF Listed, Dirs
<1>8. R!DeclaredBytes(S) = R!DeclaredBytes(A) + m.files.b
  BY <1>3, <1>4, <1>5, <1>6, <1>7
<1> QED
  BY <1>8 DEF A

-----------------------------------------------------------------------------
LEMMA BundleInit == ASSUME R!BoundsOK, R!Init PROVE BundleInv
<1>1. PICK slug \in Slugs, h \in {R!Local, 1}, d \in R!Files :
        /\ stored = [p \in R!Ids |-> IF p = 1 THEN [slug |-> slug, host |-> h] ELSE R!None]
        /\ dir = [p \in R!Ids |-> IF p = 1 THEN d ELSE R!NoDir]
  BY DEF R!Init
<1>2. stored \in [R!Ids -> {R!None} \cup Projects] /\ dir \in [R!Ids -> Dirs]
  BY <1>1, NoDirIs, FilesAre DEF Projects, R!Local
<1>3. WorldOK
  BY <1>2 DEF WorldOK, R!Init, R!Kinds, Counts, R!Ids, R!BoundsOK
<1>4. UnusedIds
  BY <1>1 DEF UnusedIds, R!Init, R!Ids, R!BoundsOK
<1>5. ExportOK /\ BundleOK /\ ImportsOK
  BY DEF R!Init, ExportOK, BundleOK, ImportsOK
<1>6. R!RowHasFiles /\ R!StagingIsOwned
  BY <1>1, FilesAre DEF R!Init, R!RowHasFiles, R!StagingIsOwned, R!Rows
<1> QED
  BY <1>3, <1>4, <1>5, <1>6 DEF BundleInv

-----------------------------------------------------------------------------
(* What a step may do to the tables without disturbing an import: ids and    *)
(* deletions only grow, a project keeps its host, and only what an import is *)
(* still creating, or a deletion that is counted, goes.                      *)
Onward ==
    /\ counted' \in Counts /\ counted'.delete >= counted.delete
    /\ next'.project \in Nat /\ next'.project >= next.project
    /\ \A p \in R!Ids : p < next.project => stored'[p] \in {stored[p], R!None}
    /\ counted'.delete = counted.delete =>
         /\ host # 0 => host' # 0
         /\ \A k \in R!Kinds : tables[k] > 0 => tables'[k] > 0
         /\ \A p \in R!Ids : stored[p] # R!None /\ ~R!InHand(p) => stored'[p] = stored[p] /\ ~R!InHand(p)'

LEMMA OnwardKeeps ==
    ASSUME R!BoundsOK, WorldOK, Onward, NEW x, Known(x), Follows(x), Quiet(x)
    PROVE  Follows(x)' /\ Quiet(x)'
<1>0. /\ counted.delete \in Nat /\ counted'.delete \in Nat /\ x.deletes \in Nat /\ next.project \in Nat /\ next'.project \in Nat
      /\ x.id \in Nat /\ x.b.rows \in SUBSET R!Kinds
  BY DEF WorldOK, Onward, Counts, Known, Importing, Bundles
<1>1. x.deletes <= counted'.delete
  BY <1>0 DEF Follows, Onward
<1>2. ASSUME x.pc \in {"rename", "attach", "domains"}
      PROVE  x.id \in R!Ids /\ x.id < next'.project /\ (stored'[x.id] # R!None => stored'[x.id].host = R!Target(x))
  <2>1. x.id \in R!Ids /\ x.id < next.project /\ (stored[x.id] # R!None => stored[x.id].host = R!Target(x))
    BY <1>2 DEF Follows
  <2>2. stored'[x.id] \in {stored[x.id], R!None}
    BY <2>1 DEF Onward
  <2>3. x.id < next'.project
    BY <1>0, <2>1 DEF Onward
  <2> QED
    BY <2>1, <2>2, <2>3
<1>3. Follows(x)'
  BY <1>1, <1>2 DEF Follows, R!Target, R!Local
<1>4. ASSUME x.before, x.deletes = counted'.delete PROVE counted'.delete = counted.delete /\ x.deletes = counted.delete
  BY <1>0, <1>4 DEF Follows, Onward
<1>5. ASSUME x.before, x.deletes = counted'.delete, NEW m \in x.b.projects PROVE Still(m)'
  <2>1. PICK p \in R!Ids : stored[p] # R!None /\ stored[p].slug = m.slug /\ ~R!InHand(p)
    BY <1>4, <1>5 DEF Quiet, Still
  <2>2. stored'[p] = stored[p] /\ ~R!InHand(p)'
    BY <1>4, <1>5, <2>1 DEF Onward
  <2> QED
    BY <2>1, <2>2 DEF Still
<1>6. Quiet(x)'
  <2> SUFFICES ASSUME x.before, x.deletes = counted'.delete
      PROVE  /\ x.made = 0 /\ x.pc \in {"host", "list", "row", "settings", "next", "stopped"}
             /\ x.b.host => host' # 0 /\ (x.pc = "host" => x.hostId # 0)
             /\ \A k \in x.b.rows : tables'[k] > 0
             /\ \A m \in x.b.projects : Still(m)'
             /\ x.pc = "row" /\ R!Tables[x.n] \in x.b.rows => R!Tables[x.n] \in x.seen
             /\ x.pc = "next" => \A m \in x.todo : m.slug \in x.seen
    BY DEF Quiet
  <2>1. /\ x.made = 0 /\ x.pc \in {"host", "list", "row", "settings", "next", "stopped"}
        /\ x.b.host => host # 0 /\ (x.pc = "host" => x.hostId # 0)
        /\ \A k \in x.b.rows : tables[k] > 0
        /\ x.pc = "row" /\ R!Tables[x.n] \in x.b.rows => R!Tables[x.n] \in x.seen
        /\ x.pc = "next" => \A m \in x.todo : m.slug \in x.seen
    BY <1>4 DEF Quiet
  <2>2. (host # 0 => host' # 0) /\ \A k \in R!Kinds : tables[k] > 0 => tables'[k] > 0
    BY <1>4 DEF Onward
  <2> QED
    BY <1>0, <1>5, <2>1, <2>2
<1> QED
  BY <1>3, <1>6

LEMMA SpendIs ==
    ASSUME WorldOK, NEW w \in {"export", "change", "fault", "crash"}, NEW limit, R!Spend(w, limit)
    PROVE  /\ counted' \in Counts /\ counted'.delete = counted.delete
           /\ w # "crash" => counted'.crash = counted.crash
           /\ w = "crash" => counted'.crash # 0
  BY DEF WorldOK, Counts, R!Spend

LEMMA SpendDeleteIs ==
    ASSUME WorldOK, R!SpendDelete
    PROVE  counted' \in Counts /\ counted'.delete = counted.delete + 1 /\ counted'.crash = counted.crash /\ counted.delete \in Nat
<1>1. counted \in Counts /\ counted' = [counted EXCEPT !.change = counted.change + 1, !.delete = counted.delete + 1]
  BY DEF WorldOK, R!SpendDelete
<1>2. counted.change + 1 \in Nat /\ counted.delete + 1 \in Nat /\ counted.delete \in Nat
  BY <1>1 DEF Counts
<1> QED
  BY <1>1, <1>2 DEF Counts

LEMMA CountsStay == ASSUME WorldOK PROVE counted \in Counts /\ counted.delete \in Nat /\ counted.crash \in Nat
                                         /\ next.project \in Nat \ {0} /\ next.host \in Nat \ {0}
  BY DEF WorldOK, Counts

(* The imports see nothing of a step that leaves the tables alone.           *)
LEMMA OnwardAlone ==
    ASSUME WorldOK, UNCHANGED <<host, tables, stored, next>>, counted' \in Counts, counted'.delete = counted.delete,
           \A p \in R!Ids : R!InHand(p)' => R!InHand(p)
    PROVE  Onward
  BY CountsStay DEF Onward

LEMMA ImportsStay ==
    ASSUME R!BoundsOK, BundleInv, Onward, UNCHANGED imp PROVE ImportsOK'
<1>1. \A i \in Importers : imp[i] = R!Idle \/ ImportOK(imp[i])'
  <2> SUFFICES ASSUME NEW i \in Importers, imp[i] # R!Idle PROVE ImportOK(imp[i])'
    OBVIOUS
  <2>1. PICK x : x = imp[i]
    OBVIOUS
  <2>2. Known(x) /\ HooksKnown(x) /\ Follows(x) /\ Quiet(x) /\ WorldOK
    BY <2>1 DEF BundleInv, ImportsOK, ImportOK
  <2>3. Follows(x)' /\ Quiet(x)'
    BY <2>2, OnwardKeeps
  <2>4. Known(x)' /\ HooksKnown(x)'
    BY <2>2 DEF Known, HooksKnown
  <2>5. ImportOK(x)'
    BY <2>3, <2>4 DEF ImportOK
  <2> QED
    BY <2>1, <2>5
<1> QED
  BY <1>1 DEF BundleInv, ImportsOK

LEMMA ImportMoves ==
    ASSUME R!BoundsOK, BundleInv, Onward, NEW i \in Importers, NEW y, imp' = [imp EXCEPT ![i] = y],
           y = R!Idle \/ ImportOK(y)'
    PROVE  ImportsOK'
<1>0. imp \in [Importers -> {R!Idle} \cup Importing] /\ WorldOK
  BY DEF BundleInv, ImportsOK
<1>1. \A j \in Importers : (imp[j] = R!Idle \/ ImportOK(imp[j]))'
  <2> SUFFICES ASSUME NEW j \in Importers PROVE (imp[j] = R!Idle \/ ImportOK(imp[j]))'
    OBVIOUS
  <2>1. CASE j = i
    BY <1>0, <2>1
  <2>2. CASE j # i
    <3>1. PICK x : x = imp[j] /\ x = imp'[j]
      BY <1>0, <2>2
    <3>2. x = R!Idle \/ (Known(x) /\ HooksKnown(x) /\ Follows(x) /\ Quiet(x))
      BY <3>1 DEF BundleInv, ImportsOK, ImportOK
    <3>3. CASE x = R!Idle
      BY <3>1, <3>3
    <3>4. CASE Known(x) /\ HooksKnown(x) /\ Follows(x) /\ Quiet(x)
      <4>1. Follows(x)' /\ Quiet(x)'
        BY <1>0, <3>4, OnwardKeeps
      <4>2. Known(x)' /\ HooksKnown(x)'
        BY <3>4 DEF Known, HooksKnown
      <4>3. ImportOK(x)'
        BY <4>1, <4>2 DEF ImportOK
      <4> QED
        BY <3>1, <4>3
    <3> QED
      BY <3>2, <3>3, <3>4
  <2> QED
    BY <2>1, <2>2
<1>2. imp' \in [Importers -> {R!Idle} \cup Importing]
  <2>1. y \in {R!Idle} \cup Importing
    BY DEF ImportOK, Known
  <2> QED
    BY <1>0, <2>1
<1> QED
  BY <1>1, <1>2 DEF ImportsOK

-----------------------------------------------------------------------------
(* Users.                                                                    *)
LEMMA NewRowKeeps ==
    ASSUME R!BoundsOK, WorldOK, UnusedIds, NEW s \in Slugs, NEW h \in Nat, R!CreateProjectRow(s, h), UNCHANGED host, UNCHANGED tables,
           counted' \in Counts, counted'.delete = counted.delete,
           \A p \in R!Ids : R!InHand(p)' => R!InHand(p) \/ p = next.project
    PROVE  /\ Onward /\ UnusedIds' /\ stored' \in [R!Ids -> {R!None} \cup Projects]
           /\ next' \in [host : Nat \ {0}, project : Nat \ {0}] /\ next.project \in R!Ids
           /\ stored[next.project] = R!None
           /\ stored'[next.project] = [slug |-> s, host |-> h] /\ stored'[next.project] # R!None
           /\ \A p \in R!Ids : p # next.project => stored'[p] = stored[p]
           /\ next'.project > next.project
<1> DEFINE k == next.project
<1>1. k \in R!Ids /\ stored' = [stored EXCEPT ![k] = [slug |-> s, host |-> h]] /\ next' = [next EXCEPT !.project = @ + 1]
  BY DEF R!CreateProjectRow
<1>2. k \in Nat \ {0} /\ next' \in [host : Nat \ {0}, project : Nat \ {0}] /\ next'.project = k + 1
  BY <1>1 DEF WorldOK
<1>3. [slug |-> s, host |-> h] \in Projects
  BY DEF Projects
<1>4. /\ stored' \in [R!Ids -> {R!None} \cup Projects] /\ stored'[k] = [slug |-> s, host |-> h] /\ stored'[k] # R!None
      /\ \A p \in R!Ids : p # k => stored'[p] = stored[p]
  BY <1>1, <1>3, ApartFromNone DEF WorldOK
<1>5. stored[k] = R!None
  BY <1>1, <1>2 DEF UnusedIds
<1> HIDE DEF k
<1>6. UnusedIds'
  <2> SUFFICES ASSUME NEW p \in R!Ids, p >= k + 1 PROVE stored'[p] = R!None
    BY <1>2 DEF UnusedIds
  <2>1. p # k /\ p >= k
    BY <1>2 DEF R!Ids, R!BoundsOK
  <2> QED
    BY <1>4, <2>1 DEF UnusedIds, k
<1>7. Onward
  <2>1. next'.project \in Nat /\ next'.project >= next.project
    BY <1>2 DEF k
  <2>2. \A p \in R!Ids : p < next.project => stored'[p] \in {stored[p], R!None}
    <3> SUFFICES ASSUME NEW p \in R!Ids, p < k PROVE stored'[p] = stored[p]
      BY DEF k
    <3>1. p # k
      BY <1>2 DEF R!Ids, R!BoundsOK
    <3> QED
      BY <1>4, <3>1
  <2>3. \A p \in R!Ids : stored[p] # R!None /\ ~R!InHand(p) => stored'[p] = stored[p] /\ ~R!InHand(p)'
    BY <1>4, <1>5 DEF k
  <2> QED
    BY <2>1, <2>2, <2>3, CountsStay DEF Onward
<1> QED
  BY <1>1, <1>2, <1>4, <1>5, <1>6, <1>7 DEF k

LEMMA UserCreatesKeeps ==
    ASSUME R!BoundsOK, BundleInv, NEW s \in Slugs, NEW h \in {R!Local, host}, NEW d \in R!Files, R!UserCreatesProject(s, h, d)
    PROVE  BundleInv'
<1>0. WorldOK /\ UnusedIds
  BY DEF BundleInv
<1>1. counted' \in Counts /\ counted'.delete = counted.delete /\ counted'.crash = counted.crash
  BY <1>0, SpendIs DEF R!UserCreatesProject
<1>2. h \in Nat
  BY <1>0 DEF WorldOK, R!Local
<1>3. \A p \in R!Ids : R!InHand(p)' <=> R!InHand(p)
  BY DEF R!UserCreatesProject, R!InHand
<1> DEFINE k == next.project
<1>4. /\ Onward /\ UnusedIds' /\ stored' \in [R!Ids -> {R!None} \cup Projects]
      /\ next' \in [host : Nat \ {0}, project : Nat \ {0}] /\ k \in R!Ids
      /\ \A p \in R!Ids : p # k => stored'[p] = stored[p]
  BY <1>0, <1>1, <1>2, <1>3, NewRowKeeps DEF R!UserCreatesProject
<1>5. ImportsOK'
  BY <1>4, ImportsStay DEF R!UserCreatesProject
<1>6. d \in Dirs /\ d # R!NoDir
  BY FilesAre
<1>7. dir' = [dir EXCEPT ![k] = d] /\ secrets' = secrets \cup {k} /\ mapped' = IF mapped = 0 THEN k ELSE mapped
  BY DEF R!UserCreatesProject
<1> HIDE DEF k
<1>8. dir' \in [R!Ids -> Dirs] /\ dir'[k] # R!NoDir /\ \A p \in R!Ids : p # k => dir'[p] = dir[p]
  BY <1>0, <1>4, <1>6, <1>7 DEF WorldOK
<1>9. WorldOK'
  <2>1. secrets' \in SUBSET R!Ids /\ mapped' \in 0..MaxIds
    BY <1>0, <1>4, <1>7 DEF WorldOK, R!Ids, R!BoundsOK
  <2> QED
    BY <1>0, <1>1, <1>4, <1>8, <2>1 DEF WorldOK, R!UserCreatesProject
<1>10. R!RowHasFiles'
  BY <1>1, <1>3, <1>4, <1>8 DEF BundleInv, R!RowHasFiles, R!Rows
<1>11. R!StagingIsOwned' /\ ExportOK' /\ BundleOK'
  BY <1>1 DEF R!UserCreatesProject, BundleInv, R!StagingIsOwned, ExportOK, BundleOK
<1> QED
  BY <1>4, <1>5, <1>9, <1>10, <1>11 DEF BundleInv

LEMMA UserDeletesKeeps == ASSUME R!BoundsOK, BundleInv, NEW q \in R!Ids, R!UserDeletesProject(q) PROVE BundleInv'
<1>0. WorldOK /\ UnusedIds
  BY DEF BundleInv
<1>1. counted' \in Counts /\ counted'.delete = counted.delete + 1 /\ counted'.crash = counted.crash /\ counted.delete \in Nat
  BY <1>0, SpendDeleteIs DEF R!UserDeletesProject
<1>2. /\ stored' = [stored EXCEPT ![q] = R!None] /\ dir' = [dir EXCEPT ![q] = R!NoDir] /\ secrets' = secrets \ {q}
      /\ mapped' = IF mapped = q THEN 0 ELSE mapped
      /\ UNCHANGED <<host, tables, settings, next, staging, export, bundle, imp>>
  BY DEF R!UserDeletesProject, R!DeleteProject
<1>3. WorldOK'
  BY <1>0, <1>1, <1>2, NoDirIs DEF WorldOK, R!Ids, R!BoundsOK
<1>4. UnusedIds' /\ \A p \in R!Ids : stored'[p] \in {stored[p], R!None}
  BY <1>0, <1>2 DEF WorldOK, UnusedIds
<1>5. Onward
  <2>1. counted'.delete >= counted.delete /\ counted'.delete # counted.delete
    BY <1>1
  <2>2. next'.project \in Nat /\ next'.project >= next.project
    BY <1>0, <1>2, CountsStay
  <2> QED
    BY <1>1, <1>4, <2>1, <2>2 DEF Onward
<1>6. ImportsOK'
  BY <1>2, <1>5, ImportsStay
<1>7. \A p \in R!Ids : R!InHand(p)' <=> R!InHand(p)
  BY <1>2 DEF R!InHand
<1>8. R!RowHasFiles'
  BY <1>0, <1>1, <1>2, <1>7 DEF BundleInv, R!RowHasFiles, R!Rows, WorldOK
<1>9. R!StagingIsOwned' /\ ExportOK' /\ BundleOK'
  BY <1>1, <1>2 DEF BundleInv, R!StagingIsOwned, ExportOK, BundleOK
<1> QED
  BY <1>3, <1>4, <1>6, <1>8, <1>9 DEF BundleInv

LEMMA UserWritesKeeps ==
    ASSUME R!BoundsOK, BundleInv, NEW q \in R!Ids, NEW size \in 0..1, R!UserWritesFile(q, size) PROVE BundleInv'
<1>0. WorldOK /\ UnusedIds /\ dir[q] \in Dirs
  BY DEF BundleInv, WorldOK
<1>1. counted' \in Counts /\ counted'.delete = counted.delete /\ counted'.crash = counted.crash
  BY <1>0, SpendIs DEF R!UserWritesFile
<1>2. /\ dir' = [dir EXCEPT ![q] = [n |-> dir[q].n + 1, b |-> dir[q].b + size]] /\ dir[q].n < MaxProjectFiles
      /\ UNCHANGED <<host, tables, stored, secrets, mapped, settings, next, staging, export, bundle, imp>>
  BY DEF R!UserWritesFile
<1> DEFINE d == [n |-> dir[q].n + 1, b |-> dir[q].b + size]
<1>3. d \in Dirs /\ d.n # 0
  BY <1>0, <1>2 DEF Dirs, R!BoundsOK
<1>4. d # R!NoDir
  BY <1>3, NoDirIs
<1> HIDE DEF d
<1>5. dir' \in [R!Ids -> Dirs] /\ dir'[q] # R!NoDir /\ \A p \in R!Ids : p # q => dir'[p] = dir[p]
  BY <1>0, <1>2, <1>3, <1>4 DEF WorldOK, d
<1>6. \A p \in R!Ids : R!InHand(p)' <=> R!InHand(p)
  BY <1>2 DEF R!InHand
<1>7. ImportsOK'
  <2>1. Onward
    BY <1>0, <1>1, <1>2, <1>6, OnwardAlone
  <2> QED
    BY <1>2, <2>1, ImportsStay
<1>8. WorldOK' /\ UnusedIds'
  BY <1>0, <1>1, <1>2, <1>5 DEF WorldOK, UnusedIds
<1>9. R!RowHasFiles'
  BY <1>1, <1>2, <1>5, <1>6 DEF BundleInv, R!RowHasFiles, R!Rows
<1>10. R!StagingIsOwned' /\ ExportOK' /\ BundleOK'
  BY <1>1, <1>2 DEF BundleInv, R!StagingIsOwned, ExportOK, BundleOK
<1> QED
  BY <1>7, <1>8, <1>9, <1>10 DEF BundleInv

LEMMA HostGoneKeeps == ASSUME R!BoundsOK, BundleInv, R!UserDeletesHost PROVE BundleInv'
<1>0. WorldOK /\ UnusedIds
  BY DEF BundleInv
<1>1. counted' \in Counts /\ counted'.delete = counted.delete + 1 /\ counted'.crash = counted.crash /\ counted.delete \in Nat
  BY <1>0, SpendDeleteIs DEF R!UserDeletesHost
<1>2. host' = 0 /\ UNCHANGED <<tables, stored, dir, secrets, mapped, settings, next, staging, export, bundle, imp>>
  BY DEF R!UserDeletesHost
<1>3. WorldOK' /\ UnusedIds'
  BY <1>0, <1>1, <1>2 DEF WorldOK, UnusedIds
<1>4. Onward
  <2>1. counted'.delete >= counted.delete /\ counted'.delete # counted.delete
    BY <1>1
  <2> QED
    BY <1>0, <1>1, <1>2, <2>1, CountsStay DEF Onward
<1>5. ImportsOK'
  BY <1>2, <1>4, ImportsStay
<1>6. R!RowHasFiles' /\ R!StagingIsOwned' /\ ExportOK' /\ BundleOK'
  BY <1>1, <1>2 DEF BundleInv, R!RowHasFiles, R!InHand, R!Rows, R!StagingIsOwned, ExportOK, BundleOK
<1> QED
  BY <1>3, <1>5, <1>6 DEF BundleInv

LEMMA NewInstanceKeeps == ASSUME R!BoundsOK, BundleInv, R!NewInstance PROVE BundleInv'
<1>0. WorldOK
  BY DEF BundleInv
<1>1. counted' \in Counts
  BY <1>0, SpendIs DEF R!NewInstance
<1>2. WorldOK'
  BY <1>0, <1>1, NoDirIs DEF WorldOK, R!NewInstance, R!Kinds, R!Ids, R!BoundsOK
<1>3. UnusedIds' /\ ImportsOK' /\ R!RowHasFiles' /\ R!StagingIsOwned' /\ ExportOK'
  BY DEF R!NewInstance, UnusedIds, ImportsOK, R!RowHasFiles, R!Rows, R!StagingIsOwned, ExportOK
<1>4. BundleOK'
  BY DEF R!NewInstance, BundleInv, BundleOK
<1> QED
  BY <1>2, <1>3, <1>4 DEF BundleInv

LEMMA CrashKeeps == ASSUME R!BoundsOK, BundleInv, R!Crash PROVE BundleInv'
<1>0. WorldOK /\ UnusedIds
  BY DEF BundleInv
<1>1. counted' \in Counts /\ counted'.crash # 0
  BY <1>0, SpendIs DEF R!Crash
<1>2. WorldOK' /\ UnusedIds'
  BY <1>0, <1>1 DEF WorldOK, UnusedIds, R!Crash, R!world
<1>3. ImportsOK' /\ R!RowHasFiles' /\ R!StagingIsOwned' /\ ExportOK'
  BY <1>1 DEF R!Crash, ImportsOK, R!RowHasFiles, R!StagingIsOwned, ExportOK
<1>4. BundleOK'
  BY DEF R!Crash, BundleInv, BundleOK
<1> QED
  BY <1>2, <1>3, <1>4 DEF BundleInv

-----------------------------------------------------------------------------
(* The export.                                                               *)
LEMMA ExportsKeep ==
    ASSUME R!BoundsOK, BundleInv, UNCHANGED <<R!world, staging, imp>>, counted' \in Counts, counted'.delete = counted.delete,
           counted'.crash = counted.crash, ExportOK', BundleOK'
    PROVE  BundleInv'
<1>0. WorldOK /\ UnusedIds /\ UNCHANGED <<host, tables, stored, dir, secrets, mapped, settings, next, staging, imp>>
  BY DEF BundleInv, R!world
<1>1. \A p \in R!Ids : R!InHand(p)' <=> R!InHand(p)
  BY <1>0 DEF R!InHand
<1>2. Onward
  BY <1>0, <1>1, OnwardAlone
<1>3. ImportsOK'
  BY <1>0, <1>2, ImportsStay
<1>4. WorldOK' /\ UnusedIds'
  BY <1>0 DEF WorldOK, UnusedIds
<1>5. R!RowHasFiles' /\ R!StagingIsOwned'
  BY <1>0, <1>1 DEF BundleInv, R!RowHasFiles, R!Rows, R!StagingIsOwned
<1> QED
  BY <1>3, <1>4, <1>5 DEF BundleInv

LEMMA ExportIs ==
    ASSUME ExportOK
    PROVE  /\ export.pc = "tables" => export \in Exporting /\ export.at \in 1..3
           /\ export.pc = "projects" => export \in Exporting
           /\ export.pc = "pack" => /\ export \in Packing /\ IsFiniteSet(export.todo) /\ IsFiniteSet(export.packed)
                                    /\ export.todo \cup export.packed # {} => export.pass
  BY IdleApart DEF ExportOK, Exporting, Packing

LEMMA ReadHostsKeeps ==
    ASSUME R!BoundsOK, BundleInv, NEW withSecrets \in BOOLEAN, NEW pass \in BOOLEAN, R!ReadHosts(withSecrets, pass) PROVE BundleInv'
<1>1. counted' \in Counts /\ counted'.delete = counted.delete /\ counted'.crash = counted.crash
  BY SpendIs DEF BundleInv, R!ReadHosts
<1>2. host \in Nat
  BY DEF BundleInv, WorldOK
<1>3. ExportOK'
  BY <1>2 DEF R!ReadHosts, ExportOK, Exporting
<1>4. BundleOK' /\ UNCHANGED <<R!world, staging, imp>>
  BY DEF R!ReadHosts, BundleInv, BundleOK
<1> QED
  BY <1>1, <1>3, <1>4, ExportsKeep

LEMMA ReadTableKeeps == ASSUME R!BoundsOK, BundleInv, R!ReadTable PROVE BundleInv'
<1>0. counted \in Counts /\ UNCHANGED <<R!world, staging, imp, counted, bundle>> /\ BundleOK /\ ExportOK /\ export.pc = "tables"
  BY DEF BundleInv, WorldOK, R!ReadTable
<1>1. export \in Exporting /\ export.at \in 1..3
  BY <1>0, ExportIs
<1>2. Len(R!ExportTables) = 3 /\ R!ExportTables[export.at] \in R!Kinds
  BY <1>1 DEF R!ExportTables, R!Kinds
<1>3. PICK pc \in {"tables", "projects"}, got \in SUBSET R!Kinds :
        /\ export' = [export EXCEPT !.pc = pc, !.at = export.at + 1, !.rows = got]
        /\ pc = "tables" => export.at # 3
  <2> DEFINE k == R!ExportTables[export.at]
             pc == IF export.at = Len(R!ExportTables) THEN "projects" ELSE export.pc
             got == IF tables[k] > 0 /\ (k = "webhook" => export.secrets) THEN export.rows \cup {k} ELSE export.rows
  <2>1. export' = [export EXCEPT !.pc = pc, !.at = export.at + 1, !.rows = got]
    BY DEF R!ReadTable
  <2>2. pc \in {"tables", "projects"} /\ (pc = "tables" => export.at # 3)
    BY <1>0, <1>2
  <2>3. got \in SUBSET R!Kinds
    BY <1>1, <1>2 DEF Exporting
  <2> HIDE DEF pc, got
  <2> QED
    BY <2>1, <2>2, <2>3
<1>4. export.at + 1 \in Nat /\ (pc = "tables" => export.at + 1 \in 1..3)
  BY <1>1, <1>3
<1>5. export' \in Exporting /\ export'.pc = pc /\ export'.at = export.at + 1
  BY <1>1, <1>3, <1>4 DEF Exporting
<1>6. ExportOK'
  BY <1>4, <1>5 DEF ExportOK
<1>7. BundleOK'
  BY <1>0 DEF BundleOK
<1> QED
  BY <1>0, <1>6, <1>7, ExportsKeep

LEMMA MetaIs == ASSUME R!BoundsOK, WorldOK, NEW p \in R!Rows PROVE R!Meta(p) \in Listed
<1>1. stored[p] \in Projects
  BY DEF WorldOK, R!Rows
<1> QED
  BY <1>1, NoDirIs DEF R!Meta, Listed, Projects

LEMMA ReadProjectsKeeps == ASSUME R!BoundsOK, BundleInv, R!ReadProjects PROVE BundleInv'
<1>0. /\ counted \in Counts /\ UNCHANGED <<R!world, staging, imp, counted, bundle>> /\ BundleOK /\ ExportOK /\ export.pc = "projects"
      /\ WorldOK
  BY DEF BundleInv, WorldOK, R!ReadProjects
<1>1. export \in Exporting
  BY <1>0, ExportIs
<1>2. PICK want \in SUBSET R!Rows :
        export' = IF R!NeedsPassphrase({R!Meta(p) : p \in want}) /\ ~export.pass THEN R!Idle
                  ELSE [pc |-> "pack", secrets |-> export.secrets, pass |-> export.pass,
                        host |-> export.host # 0, rows |-> export.rows,
                        todo |-> {R!Meta(p) : p \in want}, packed |-> {}, bytes |-> 0]
  BY DEF R!ReadProjects
<1> DEFINE metas == {R!Meta(p) : p \in want}
<1>3. metas \in SUBSET Listed
  BY <1>0, MetaIs
<1>4. IsFiniteSet(metas)
  <2> DEFINE f == [p \in want |-> R!Meta(p)]
  <2>1. f \in Surjection(want, metas)
    BY DEF Surjection
  <2>2. IsFiniteSet(1..MaxIds) /\ want \in SUBSET (1..MaxIds)
    BY FS_Interval DEF R!Rows, R!Ids, R!BoundsOK
  <2>3. IsFiniteSet(want)
    BY <2>2, FS_Subset
  <2> HIDE DEF f, metas
  <2> QED
    BY <2>1, <2>3, FS_Surjection
<1> HIDE DEF metas
<1>5. CASE metas # {} /\ ~export.pass
  <2>1. export' = R!Idle
    BY <1>2, <1>5 DEF metas, R!NeedsPassphrase
  <2>2. ExportOK' /\ BundleOK'
    BY <1>0, <2>1 DEF ExportOK, BundleOK
  <2> QED
    BY <1>0, <2>2, ExportsKeep
<1>6. CASE ~(metas # {} /\ ~export.pass)
  <2>1. export' = [pc |-> "pack", secrets |-> export.secrets, pass |-> export.pass,
                   host |-> export.host # 0, rows |-> export.rows, todo |-> metas, packed |-> {}, bytes |-> 0]
    BY <1>2, <1>6 DEF metas, R!NeedsPassphrase
  <2>2. export' \in Packing
    BY <1>1, <1>3, <2>1 DEF Packing, Exporting
  <2>3. IsFiniteSet(export'.todo) /\ IsFiniteSet(export'.packed) /\ (export'.todo \cup export'.packed # {} => export'.pass)
    BY <1>1, <1>4, <1>6, <2>1, FS_EmptySet DEF Exporting
  <2>4. ExportOK' /\ BundleOK'
    BY <1>0, <2>2, <2>3 DEF ExportOK, BundleOK
  <2> QED
    BY <1>0, <2>4, ExportsKeep
<1> QED
  BY <1>5, <1>6

LEMMA PackProjectKeeps == ASSUME R!BoundsOK, BundleInv, R!PackProject PROVE BundleInv'
<1>0. /\ counted \in Counts /\ UNCHANGED <<R!world, staging, imp, counted, bundle>> /\ BundleOK /\ ExportOK /\ export.pc = "pack"
      /\ dir \in [R!Ids -> Dirs]
  BY DEF BundleInv, WorldOK, R!PackProject
<1>1. /\ export \in Packing /\ IsFiniteSet(export.todo) /\ IsFiniteSet(export.packed)
      /\ export.todo \cup export.packed # {} => export.pass
  BY <1>0, ExportIs
<1>2. PICK m \in export.todo, d \in Dirs :
        export' = IF export.bytes + d.b > MaxTotalBytes THEN R!Idle
                  ELSE [export EXCEPT !.todo = @ \ {m}, !.bytes = @ + d.b, !.packed = @ \cup {[m EXCEPT !.files = d]}]
  <2>1. PICK m \in export.todo :
          LET now == {p \in R!Rows : stored[p].slug = m.slug}
              d == IF now = {} THEN R!NoDir ELSE dir[CHOOSE p \in now : TRUE] IN
          export' = IF export.bytes + d.b > MaxTotalBytes THEN R!Idle
                    ELSE [export EXCEPT !.todo = @ \ {m}, !.bytes = @ + d.b,
                                        !.packed = @ \cup {[m EXCEPT !.files = d]}]
    BY DEF R!PackProject
  <2> DEFINE now == {p \in R!Rows : stored[p].slug = m.slug}
             d == IF now = {} THEN R!NoDir ELSE dir[CHOOSE p \in now : TRUE]
  <2>2. d \in Dirs
    <3>1. now \subseteq R!Ids
      BY DEF R!Rows
    <3>2. now # {} => (CHOOSE p \in now : TRUE) \in now
      OBVIOUS
    <3> QED
      BY <1>0, <3>1, <3>2, NoDirIs
  <2>3. export' = IF export.bytes + d.b > MaxTotalBytes THEN R!Idle
                  ELSE [export EXCEPT !.todo = @ \ {m}, !.bytes = @ + d.b, !.packed = @ \cup {[m EXCEPT !.files = d]}]
    BY <2>1
  <2> HIDE DEF d
  <2> QED
    BY <2>2, <2>3
<1> DEFINE r == [m EXCEPT !.files = d]
<1>3. r \in Listed
  BY <1>1 DEF Packing, Listed
<1>4. d.b \in Nat /\ export.bytes + d.b \in Nat
  BY <1>1 DEF Dirs, Packing
<1> HIDE DEF r
<1>5. CASE export' = R!Idle
  <2>2. ExportOK' /\ BundleOK'
    BY <1>0, <1>5 DEF ExportOK, BundleOK
  <2> QED
    BY <1>0, <2>2, ExportsKeep
<1>6. CASE export' = [export EXCEPT !.todo = export.todo \ {m}, !.bytes = export.bytes + d.b, !.packed = export.packed \cup {r}]
  <2>1. /\ export' \in Packing /\ export'.todo = export.todo \ {m} /\ export'.packed = export.packed \cup {r}
        /\ export'.pass = export.pass
    BY <1>1, <1>3, <1>4, <1>6 DEF Packing
  <2>2. IsFiniteSet(export.todo \ {m}) /\ IsFiniteSet(export.packed \cup {r})
    BY <1>1, FS_RemoveElement, FS_AddElement
  <2>3. export.pass
    BY <1>1
  <2>4. ExportOK'
    BY <2>1, <2>2, <2>3 DEF ExportOK
  <2>5. BundleOK'
    BY <1>0 DEF BundleOK
  <2> QED
    BY <1>0, <2>4, <2>5, ExportsKeep
<1> QED
  BY <1>2, <1>5, <1>6 DEF r

LEMMA BundleDeliverKeeps == ASSUME R!BoundsOK, BundleInv, R!Deliver PROVE BundleInv'
<1>0. /\ counted \in Counts /\ UNCHANGED <<R!world, staging, imp, counted>> /\ ExportOK /\ export.pc = "pack" /\ export.todo = {}
      /\ export' = R!Idle
      /\ bundle' = [pc |-> "file", secrets |-> export.secrets, sealed |-> export.pass,
                    host |-> export.host, rows |-> export.rows, projects |-> export.packed]
  BY DEF BundleInv, WorldOK, R!Deliver
<1>1. /\ export \in Packing /\ IsFiniteSet(export.packed)
      /\ export.todo \cup export.packed # {} => export.pass
  BY <1>0, ExportIs
<1>2. bundle' \in Bundles /\ bundle'.projects = export.packed /\ bundle'.sealed = export.pass
  BY <1>0, <1>1 DEF Packing, Bundles
<1>3. BundleOK'
  BY <1>0, <1>1, <1>2 DEF BundleOK
<1>4. ExportOK'
  BY <1>0 DEF ExportOK
<1> QED
  BY <1>0, <1>3, <1>4, ExportsKeep

-----------------------------------------------------------------------------
(* The imports.                                                              *)
LEMMA ImportIs == ASSUME ImportsOK, NEW i \in Importers, imp[i].pc # "idle" PROVE ImportOK(imp[i])
  BY IdleApart DEF ImportsOK

LEMMA StillOK == ASSUME R!BoundsOK, WorldOK, Onward, NEW y, ImportOK(y) PROVE ImportOK(y)'
<1>1. Known(y) /\ HooksKnown(y) /\ Follows(y) /\ Quiet(y)
  BY DEF ImportOK
<1>2. Follows(y)' /\ Quiet(y)'
  BY <1>1, OnwardKeeps
<1>3. Known(y)' /\ HooksKnown(y)'
  BY <1>1 DEF Known, HooksKnown
<1> QED
  BY <1>2, <1>3 DEF ImportOK

(* An import takes a step that leaves projects and directories alone.        *)
AtFiles == {"validate", "create", "rename"}
LEMMA Turns ==
    ASSUME R!BoundsOK, BundleInv, Onward, WorldOK', UnusedIds', UNCHANGED <<stored, dir, export, bundle>>,
           counted'.crash = counted.crash, NEW i \in Importers, NEW y, imp' = [imp EXCEPT ![i] = y],
           imp[i].pc # "rename", y = R!Idle \/ ImportOK(y),
           counted.crash = 0 => \A j \in staging' : (j \in staging /\ j # i) \/ (j = i /\ y.pc \in AtFiles)
    PROVE  BundleInv'
<1>0. WorldOK /\ imp \in [Importers -> {R!Idle} \cup Importing]
  BY DEF BundleInv, ImportsOK
<1>1. ImportsOK'
  <2>1. y = R!Idle \/ ImportOK(y)'
    BY <1>0, StillOK
  <2> QED
    BY <2>1, ImportMoves
<1>2. \A p \in R!Ids : R!InHand(p) => R!InHand(p)'
  BY <1>0 DEF R!InHand
<1>3. R!RowHasFiles'
  BY <1>2 DEF BundleInv, R!RowHasFiles, R!Rows
<1>4. R!StagingIsOwned'
  <2> SUFFICES ASSUME counted.crash = 0, NEW j \in staging' PROVE imp'[j].pc \in {"validate", "create", "rename"}
    BY DEF R!StagingIsOwned
  <2>1. CASE j \in staging /\ j # i
    BY <1>0, <2>1 DEF BundleInv, R!StagingIsOwned, WorldOK
  <2>2. CASE j = i /\ y.pc \in AtFiles
    BY <1>0, <2>2 DEF AtFiles
  <2> QED
    BY <2>1, <2>2
<1>5. ExportOK' /\ BundleOK'
  BY DEF BundleInv, ExportOK, BundleOK
<1> QED
  BY <1>1, <1>3, <1>4, <1>5 DEF BundleInv

(* The same, when the tables stay as they are too.                           *)
LEMMA TurnsAlone ==
    ASSUME R!BoundsOK, BundleInv, UNCHANGED <<host, tables, stored, dir, next, export, bundle>>,
           secrets' \in SUBSET R!Ids, mapped' \in 0..MaxIds, settings' \in {"own", "bundle"},
           staging' \in SUBSET Importers,
           UNCHANGED counted \/ R!Spend("fault", BundleFaults),
           NEW i \in Importers, NEW y, imp' = [imp EXCEPT ![i] = y],
           imp[i].pc # "rename", y = R!Idle \/ ImportOK(y), y.pc # "rename",
           counted.crash = 0 => \A j \in staging' : (j \in staging /\ j # i) \/ (j = i /\ y.pc \in AtFiles)
    PROVE  BundleInv'
<1>0. WorldOK /\ UnusedIds /\ imp \in [Importers -> {R!Idle} \cup Importing]
  BY DEF BundleInv, ImportsOK
<1>1. counted' \in Counts /\ counted'.delete = counted.delete /\ counted'.crash = counted.crash
  BY <1>0, SpendIs, CountsStay
<1>2. \A p \in R!Ids : R!InHand(p)' => R!InHand(p)
  BY <1>0 DEF R!InHand
<1>3. Onward
  BY <1>0, <1>1, <1>2, OnwardAlone
<1>4. WorldOK' /\ UnusedIds'
  BY <1>0, <1>1 DEF WorldOK, UnusedIds
<1> QED
  BY <1>1, <1>3, <1>4, Turns

LEMMA NotStaged ==
    ASSUME BundleInv, NEW i \in Importers, imp[i].pc \notin AtFiles, counted.crash = 0 PROVE i \notin staging
  BY DEF BundleInv, R!StagingIsOwned, AtFiles

LEMMA StartImportKeeps == ASSUME R!BoundsOK, BundleInv, NEW i \in Importers, R!StartImport(i) PROVE BundleInv'
<1>0. WorldOK /\ BundleOK /\ ImportsOK
  BY DEF BundleInv
<1>1. imp[i].pc = "idle" /\ bundle.pc = "file" /\ R!WithinBudget(bundle) /\ UNCHANGED <<R!world, staging, export, bundle, counted>>
  BY DEF R!StartImport
<1>2. PICK y : /\ imp' = [imp EXCEPT ![i] = y]
               /\ y = [pc |-> "host", b |-> bundle, hostId |-> host, hooks |-> FALSE, seen |-> {},
                       todo |-> bundle.projects, bytes |-> MaxTotalBytes, files |-> MaxTotalFiles,
                       m |-> R!None, n |-> 0, id |-> 0,
                       before |-> R!Present(bundle) /\ \A j \in Importers \ {i} : imp[j].pc = "idle",
                       deletes |-> counted.delete, made |-> 0, lost |-> {}, link |-> "none"]
  BY DEF R!StartImport, R!ImpTo
<1>3. bundle \in Bundles /\ IsFiniteSet(bundle.projects) /\ bundle.projects \in SUBSET Listed
  BY <1>0, <1>1, IdleApart DEF BundleOK, Bundles
<1>4. y \in Importing
  BY <1>0, <1>2, <1>3, CountsStay DEF Importing, ImportPcs, WorldOK, R!BoundsOK, R!Present
<1>5. Known(y)
  <2>1. R!DeclaredBytes(bundle.projects) <= MaxTotalBytes
    BY <1>1 DEF R!WithinBudget
  <2> QED
    BY <1>2, <1>3, <1>4, <2>1 DEF Known
<1>6. HooksKnown(y)
  BY <1>2 DEF HooksKnown
<1>7. Follows(y)
  BY <1>0, <1>2, CountsStay DEF Follows
<1>8. Quiet(y)
  <2>1. y.before => R!Present(bundle) /\ \A j \in Importers : imp[j].pc # "rename"
    BY <1>1, <1>2
  <2>2. ASSUME y.before PROVE \A m \in y.b.projects : Still(m)
    <3>1. R!Present(bundle) /\ \A p \in R!Ids : ~R!InHand(p)
      BY <2>1, <2>2 DEF R!InHand
    <3> QED
      BY <1>2, <3>1 DEF R!Present, R!Taken, R!Rows, Still
  <2>3. y.before => (y.b.host => host # 0) /\ \A k \in y.b.rows : tables[k] > 0
    BY <1>2, <2>1 DEF R!Present
  <2>4. y.made = 0 /\ y.pc = "host" /\ y.hostId = host
    BY <1>2
  <2> QED
    BY <2>2, <2>3, <2>4 DEF Quiet
<1>9. ImportOK(y)
  BY <1>5, <1>6, <1>7, <1>8 DEF ImportOK
<1>10. y.pc = "host"
  BY <1>2
<1> QED
  BY <1>0, <1>1, <1>2, <1>9, <1>10, TurnsAlone, NotStaged DEF WorldOK, R!world, AtFiles

LEMMA EndImportKeeps == ASSUME R!BoundsOK, BundleInv, NEW i \in Importers, R!EndImport(i) PROVE BundleInv'
<1>0. WorldOK
  BY DEF BundleInv
<1>1. imp[i].pc \in {"stopped", "next"} /\ UNCHANGED <<R!world, staging, export, bundle, counted>> /\ imp' = [imp EXCEPT ![i] = R!Idle]
  BY DEF R!EndImport, R!ImpTo
<1> QED
  BY <1>0, <1>1, TurnsAlone, NotStaged, IdleApart DEF WorldOK, R!world, AtFiles

LEMMA SkipHostOK ==
    ASSUME R!BoundsOK, WorldOK, NEW x, ImportOK(x), x.pc = "host", ~x.b.host \/ x.hostId # 0,
           NEW y, y = [x EXCEPT !.pc = "list", !.n = 1]
    PROVE  ImportOK(y) /\ y.pc = "list"
<1>1. x \in Importing
  BY DEF ImportOK, Known
<1>2. /\ y \in Importing /\ y.pc = "list" /\ y.n = 1 /\ y.b = x.b /\ y.hostId = x.hostId /\ y.hooks = x.hooks
      /\ y.seen = x.seen /\ y.todo = x.todo /\ y.bytes = x.bytes /\ y.before = x.before /\ y.deletes = x.deletes
      /\ y.made = x.made /\ y.lost = x.lost /\ y.link = x.link
  BY <1>1 DEF Importing, ImportPcs
<1>3. Known(y)
  BY <1>2 DEF ImportOK, Known
<1>4. HooksKnown(y) /\ Follows(y) /\ Quiet(y)
  BY <1>2 DEF ImportOK, HooksKnown, Follows, Quiet
<1> QED
  BY <1>2, <1>3, <1>4 DEF ImportOK

LEMMA TriedHostOK ==
    ASSUME R!BoundsOK, WorldOK, NEW x, ImportOK(x), x.pc = "host", x.b.host, x.hostId = 0,
           NEW y, y \in Importing, y.pc = "list", y.n = 1, y.b = x.b, y.hooks = x.hooks,
           y.seen = x.seen, y.todo = x.todo, y.bytes = x.bytes, y.before = x.before, y.deletes = x.deletes,
           y.link = x.link, x.lost \subseteq y.lost, y.hostId # 0 \/ "host" \in y.lost
    PROVE  ImportOK(y)
<1>1. Known(y)
  BY DEF ImportOK, Known
<1>2. HooksKnown(y) /\ Follows(y) /\ Quiet(y)
  BY DEF ImportOK, HooksKnown, Follows, Quiet
<1> QED
  BY <1>1, <1>2 DEF ImportOK

LEMMA ImportHostKeeps == ASSUME R!BoundsOK, BundleInv, NEW i \in Importers, R!ImportHost(i) PROVE BundleInv'
<1> DEFINE x == imp[i]
<1>0. WorldOK /\ UnusedIds /\ ImportsOK /\ x.pc = "host" /\ ImportOK(x)
      /\ UNCHANGED <<tables, stored, dir, secrets, mapped, settings, staging, export, bundle>>
  BY ImportIs DEF BundleInv, R!ImportHost
<1>1. x \in Importing /\ x.lost \in SUBSET (R!Kinds \cup {"host"}) /\ x.made \in Nat /\ imp \in [Importers -> {R!Idle} \cup Importing]
  BY <1>0 DEF ImportOK, Known, Importing, ImportsOK
<1>2. counted.crash = 0 => i \notin staging
  BY <1>0, NotStaged DEF AtFiles
<1>3. CASE /\ ~x.b.host \/ x.hostId # 0
           /\ R!ImpTo(i, [x EXCEPT !.pc = "list", !.n = 1])
           /\ UNCHANGED <<host, next, counted>>
  <2>1. PICK y : y = [x EXCEPT !.pc = "list", !.n = 1]
    OBVIOUS
  <2>2. ImportOK(y) /\ y.pc = "list"
    BY <1>0, <1>3, <2>1, SkipHostOK
  <2>3. imp' = [imp EXCEPT ![i] = y]
    BY <1>3, <2>1 DEF R!ImpTo
  <2> QED
    BY <1>0, <1>2, <1>3, <2>2, <2>3, TurnsAlone DEF WorldOK
<1>4. CASE /\ x.b.host /\ x.hostId = 0 /\ host = 0
           /\ R!CreateHost
           /\ R!ImpTo(i, R!AddHostId(x, next.host))
           /\ UNCHANGED counted
  <2>1. PICK y : y = [x EXCEPT !.hostId = next.host, !.made = x.made + 1, !.lost = x.lost, !.pc = "list", !.n = 1]
    OBVIOUS
  <2>2. next.host \in Nat \ {0} /\ x.made + 1 \in Nat
    BY <1>0, <1>1, CountsStay
  <2>3. ImportOK(y) /\ y.pc = "list"
    <3>1. /\ y \in Importing /\ y.pc = "list" /\ y.n = 1 /\ y.b = x.b /\ y.hostId = next.host /\ y.hooks = x.hooks
          /\ y.seen = x.seen /\ y.todo = x.todo /\ y.bytes = x.bytes /\ y.before = x.before /\ y.deletes = x.deletes
          /\ y.lost = x.lost /\ y.link = x.link
      BY <1>1, <2>1, <2>2 DEF Importing, ImportPcs
    <3>2. WorldOK /\ ImportOK(x) /\ x.pc = "host" /\ x.b.host /\ x.hostId = 0 /\ next.host # 0
      BY <1>0, <1>4, <2>2
    <3> HIDE DEF x
    <3> QED
      BY <3>1, <3>2, TriedHostOK
  <2>4. imp' = [imp EXCEPT ![i] = y]
    <3>1. R!AddHostId(x, next.host) = y
      BY <1>1, <2>1 DEF R!AddHostId, Importing
    <3> QED
      BY <1>4, <3>1 DEF R!ImpTo
  <2>5. host' = next.host /\ next' = [next EXCEPT !.host = next.host + 1]
    BY <1>4 DEF R!CreateHost
  <2>6. next' \in [host : Nat \ {0}, project : Nat \ {0}] /\ next'.project = next.project
    BY <1>0, <2>2, <2>5 DEF WorldOK
  <2>7. WorldOK' /\ UnusedIds'
    BY <1>0, <1>4, <2>2, <2>5, <2>6 DEF WorldOK, UnusedIds
  <2>8. \A p \in R!Ids : R!InHand(p)' => R!InHand(p)
    BY <1>1, <2>3, <2>4 DEF R!InHand
  <2>9. Onward
    BY <1>0, <1>4, <2>2, <2>5, <2>6, <2>8, CountsStay DEF Onward
  <2> QED
    BY <1>0, <1>2, <1>4, <2>3, <2>4, <2>7, <2>9, Turns
<1>5. CASE /\ x.b.host /\ x.hostId = 0
           /\ IF host # 0 THEN UNCHANGED counted ELSE R!Spend("fault", BundleFaults)
           /\ R!ImpTo(i, [x EXCEPT !.pc = "list", !.n = 1, !.lost = @ \cup {"host"}])
           /\ UNCHANGED <<host, next>>
  <2>1. PICK y : y = [x EXCEPT !.hostId = 0, !.made = x.made, !.lost = x.lost \cup {"host"}, !.pc = "list", !.n = 1]
    OBVIOUS
  <2>2. x.lost \cup {"host"} \in SUBSET (R!Kinds \cup {"host"})
    BY <1>1
  <2>3. ImportOK(y) /\ y.pc = "list"
    <3>1. /\ y \in Importing /\ y.pc = "list" /\ y.n = 1 /\ y.b = x.b /\ y.hooks = x.hooks
          /\ y.seen = x.seen /\ y.todo = x.todo /\ y.bytes = x.bytes /\ y.before = x.before /\ y.deletes = x.deletes
          /\ y.lost = x.lost \cup {"host"} /\ y.link = x.link
      BY <1>1, <2>1, <2>2 DEF Importing, ImportPcs
    <3>2. WorldOK /\ ImportOK(x) /\ x.pc = "host" /\ x.b.host /\ x.hostId = 0
      BY <1>0, <1>5
    <3> HIDE DEF x
    <3> QED
      BY <3>1, <3>2, TriedHostOK
  <2>4. imp' = [imp EXCEPT ![i] = y]
    <3>1. [x EXCEPT !.pc = "list", !.n = 1, !.lost = @ \cup {"host"}] = y
      BY <1>1, <1>5, <2>1 DEF Importing
    <3> QED
      BY <1>5, <3>1 DEF R!ImpTo
  <2>5. UNCHANGED counted \/ R!Spend("fault", BundleFaults)
    BY <1>5
  <2> QED
    BY <1>0, <1>2, <1>5, <2>3, <2>4, <2>5, TurnsAlone DEF WorldOK
<1> QED
  BY <1>3, <1>4, <1>5 DEF R!ImportHost

LEMMA ListTableKeeps == ASSUME R!BoundsOK, BundleInv, NEW i \in Importers, R!ListTable(i) PROVE BundleInv'
<1> DEFINE x == imp[i]
           k == R!Tables[x.n]
<1>0. WorldOK /\ ImportsOK /\ x.pc = "list" /\ ImportOK(x) /\ UNCHANGED <<R!world, staging, export, bundle, counted>>
  BY ImportIs DEF BundleInv, R!ListTable
<1>1. x \in Importing /\ x.n \in 1..3 /\ k \in R!Kinds
  BY <1>0, TablesAre DEF ImportOK, Known
<1>2. PICK seen, hooks : /\ seen = IF tables[k] > 0 THEN x.seen \cup {k} ELSE x.seen
                         /\ hooks = (x.hooks \/ (k = "webhook" /\ tables[k] > 0))
  OBVIOUS
<1>3. seen \in SUBSET (R!Kinds \cup Slugs) /\ hooks \in BOOLEAN
  BY <1>1, <1>2 DEF Importing
<1>4. PICK y : y = [x EXCEPT !.pc = "row", !.seen = seen, !.hooks = hooks]
  OBVIOUS
<1>5. imp' = [imp EXCEPT ![i] = y]
  BY <1>2, <1>4 DEF R!ListTable, R!ImpTo
<1>6. /\ y \in Importing /\ y.pc = "row" /\ y.n = x.n /\ y.b = x.b /\ y.hostId = x.hostId /\ y.hooks = hooks
      /\ y.seen = seen /\ y.todo = x.todo /\ y.bytes = x.bytes /\ y.before = x.before /\ y.deletes = x.deletes
      /\ y.made = x.made /\ y.lost = x.lost /\ y.link = x.link
  BY <1>1, <1>3, <1>4 DEF Importing, ImportPcs
<1>7. Known(y)
  BY <1>0, <1>6 DEF ImportOK, Known
<1>8. HooksKnown(y)
  BY <1>0, <1>2, <1>6 DEF ImportOK, HooksKnown
<1>9. Follows(y)
  BY <1>0, <1>6 DEF ImportOK, Follows
<1>10. Quiet(y)
  <2>1. Quiet(x)
    BY <1>0 DEF ImportOK
  <2>2. tables[k] > 0 => k \in seen
    BY <1>2
  <2> HIDE DEF x
  <2> QED
    BY <1>0, <1>6, <2>1, <2>2 DEF Quiet
<1>11. ImportOK(y)
  BY <1>7, <1>8, <1>9, <1>10 DEF ImportOK
<1> QED
  BY <1>0, <1>5, <1>6, <1>11, TurnsAlone, NotStaged DEF WorldOK, R!world, AtFiles

(* A table's row is done: created, found, or lost.                           *)
LEMMA RowDone ==
    ASSUME R!BoundsOK, WorldOK, NEW x, ImportOK(x), x.pc = "row",
           NEW y, y \in Importing, y.b = x.b, y.hostId = x.hostId, y.seen = x.seen, y.todo = x.todo, y.bytes = x.bytes,
           y.before = x.before, y.deletes = x.deletes,
           x.hooks => y.hooks, x.lost \subseteq y.lost,
           ~R!Wanted(x, R!Tables[x.n]) => y.made = x.made,
           \/ x.n = 3 /\ y.pc = "settings"
           \/ x.n # 3 /\ y.pc = "list" /\ y.n = x.n + 1,
           x.n = 2 /\ R!Wanted(x, "webhook") => y.hooks \/ "webhook" \in y.lost,
           y.link = x.link \/ (x.n = 3 /\ y.link = R!Linked(x))
    PROVE  ImportOK(y)
<1>0. Known(x) /\ HooksKnown(x) /\ Follows(x) /\ Quiet(x) /\ x.n \in 1..3
  BY DEF ImportOK, Known
<1>1. Known(y)
  <2>1. y.pc = "list" => y.n \in 1..3
    BY <1>0
  <2> QED
    BY <1>0, <2>1 DEF Known
<1>2. HooksKnown(y)
  <2>1. y.pc \in {"list", "row"} /\ "webhook" \in y.seen => y.hooks
    BY <1>0 DEF HooksKnown
  <2>2. ASSUME y.pc \in {"list", "row"}, y.n = 3, "webhook" \in y.b.rows PROVE y.hooks \/ "webhook" \in y.lost
    <3>1. x.n = 2
      BY <1>0, <2>2
    <3>2. CASE R!Wanted(x, "webhook")
      BY <3>1, <3>2
    <3>3. CASE ~R!Wanted(x, "webhook")
      BY <1>0, <2>2, <3>3 DEF R!Wanted, HooksKnown
    <3> QED
      BY <3>2, <3>3
  <2>3. ASSUME y.link = "bare", "webhook" \in y.b.rows PROVE "webhook" \in y.lost
    <3>1. CASE x.link = "bare"
      BY <1>0, <2>3, <3>1 DEF HooksKnown
    <3>2. CASE x.n = 3 /\ y.link = R!Linked(x)
      BY <1>0, <2>3, <3>2 DEF HooksKnown, R!Linked
    <3> QED
      BY <2>3, <3>1, <3>2
  <2> QED
    BY <2>1, <2>2, <2>3 DEF HooksKnown
<1>3. Follows(y)
  BY <1>0 DEF Follows
<1>4. Quiet(y)
  <2>1. x.before /\ x.deletes = counted.delete => ~R!Wanted(x, R!Tables[x.n])
    BY <1>0 DEF Quiet, R!Wanted
  <2> QED
    BY <1>0, <2>1 DEF Quiet
<1> QED
  BY <1>1, <1>2, <1>3, <1>4 DEF ImportOK

LEMMA AfterTableIs ==
    ASSUME NEW x \in Importing, x.n \in 1..3
    PROVE  /\ R!AfterTable(x) \in Importing
           /\ \/ x.n = 3 /\ R!AfterTable(x).pc = "settings"
              \/ x.n # 3 /\ R!AfterTable(x).pc = "list" /\ R!AfterTable(x).n = x.n + 1
           /\ R!AfterTable(x).b = x.b /\ R!AfterTable(x).hostId = x.hostId /\ R!AfterTable(x).seen = x.seen
           /\ R!AfterTable(x).todo = x.todo /\ R!AfterTable(x).bytes = x.bytes /\ R!AfterTable(x).before = x.before
           /\ R!AfterTable(x).deletes = x.deletes /\ R!AfterTable(x).hooks = x.hooks /\ R!AfterTable(x).lost = x.lost
           /\ R!AfterTable(x).made = x.made /\ R!AfterTable(x).link = x.link
<1>1. CASE x.n = 3
  <2>1. R!AfterTable(x) = [x EXCEPT !.pc = "settings"]
    BY <1>1, TablesAre DEF R!AfterTable
  <2> QED
    BY <1>1, <2>1 DEF Importing, ImportPcs
<1>2. CASE x.n # 3
  <2>1. R!AfterTable(x) = [x EXCEPT !.pc = "list", !.n = x.n + 1]
    BY <1>2, TablesAre DEF R!AfterTable
  <2>2. x.n + 1 \in Nat
    OBVIOUS
  <2> QED
    BY <1>2, <2>1, <2>2 DEF Importing, ImportPcs
<1> QED
  BY <1>1, <1>2

LEMMA ImportRowKeeps == ASSUME R!BoundsOK, BundleInv, NEW i \in Importers, R!ImportRow(i) PROVE BundleInv'
<1> DEFINE x == imp[i]
           k == R!Tables[x.n]
<1>0. WorldOK /\ UnusedIds /\ ImportsOK /\ x.pc = "row" /\ ImportOK(x)
      /\ UNCHANGED <<host, stored, dir, secrets, mapped, settings, next, staging, export, bundle>>
  BY ImportIs DEF BundleInv, R!ImportRow
<1>1. x \in Importing /\ x.n \in 1..3 /\ k \in R!Kinds /\ imp \in [Importers -> {R!Idle} \cup Importing] /\ x.made \in Nat
  BY <1>0, TablesAre DEF ImportOK, Known, ImportsOK, Importing
<1>2. counted.crash = 0 => i \notin staging
  BY <1>0, NotStaged DEF AtFiles
<1>3. (x.n = 2 => k = "webhook") /\ (k = "rule" <=> x.n = 3)
  BY <1>1, TablesAre
<1>4. CASE ~R!Wanted(x, k) /\ R!ImpTo(i, R!AfterTable(x)) /\ UNCHANGED <<tables, counted>>
  <2>1. PICK y : y = R!AfterTable(x)
    OBVIOUS
  <2>2. imp' = [imp EXCEPT ![i] = y]
    BY <1>4, <2>1 DEF R!ImpTo
  <2>3. ImportOK(y) /\ y.pc \in {"list", "settings"}
    <3>1. WorldOK /\ ImportOK(x) /\ x.pc = "row" /\ x \in Importing /\ x.n \in 1..3 /\ (x.n = 2 => ~R!Wanted(x, "webhook"))
      BY <1>0, <1>1, <1>3, <1>4
    <3> HIDE DEF x, k
    <3>2. /\ y \in Importing /\ y.b = x.b /\ y.hostId = x.hostId /\ y.seen = x.seen /\ y.todo = x.todo /\ y.bytes = x.bytes
          /\ y.before = x.before /\ y.deletes = x.deletes /\ y.hooks = x.hooks /\ y.lost = x.lost /\ y.made = x.made
          /\ y.link = x.link
          /\ \/ x.n = 3 /\ y.pc = "settings"
             \/ x.n # 3 /\ y.pc = "list" /\ y.n = x.n + 1
      BY <2>1, <3>1, AfterTableIs
    <3> QED
      BY <3>1, <3>2, RowDone
  <2> QED
    BY <1>0, <1>2, <1>4, <2>2, <2>3, TurnsAlone DEF WorldOK
<1>5. CASE /\ R!Wanted(x, k)
           /\ tables' = [tables EXCEPT ![k] = @ + 1]
           /\ R!ImpTo(i, R!AfterTable([x EXCEPT !.made = @ + 1, !.hooks = @ \/ k = "webhook",
                                                !.link = IF k = "rule" THEN R!Linked(x) ELSE @]))
           /\ UNCHANGED counted
  <2>1. PICK hooks, link : hooks = (x.hooks \/ k = "webhook") /\ link = IF k = "rule" THEN R!Linked(x) ELSE x.link
    OBVIOUS
  <2>2. hooks \in BOOLEAN /\ link \in {"none", "linked", "bare"}
    BY <1>1, <2>1 DEF Importing, R!Linked
  <2>3. PICK z : z = [x EXCEPT !.made = x.made + 1, !.hooks = hooks, !.link = link]
    OBVIOUS
  <2>4. /\ z \in Importing /\ z.n = x.n /\ z.b = x.b /\ z.hostId = x.hostId /\ z.seen = x.seen /\ z.todo = x.todo
        /\ z.bytes = x.bytes /\ z.before = x.before /\ z.deletes = x.deletes /\ z.hooks = hooks /\ z.lost = x.lost
        /\ z.link = link
    <3>1. x.made + 1 \in Nat
      BY <1>1
    <3> QED
      BY <1>1, <2>2, <2>3, <3>1 DEF Importing
  <2>5. PICK y : y = R!AfterTable(z)
    OBVIOUS
  <2>6. imp' = [imp EXCEPT ![i] = y]
    BY <1>5, <2>1, <2>3, <2>5 DEF R!ImpTo
  <2>7. ImportOK(y) /\ y.pc \in {"list", "settings"}
    <3>1. WorldOK /\ ImportOK(x) /\ x.pc = "row" /\ x \in Importing /\ x.n \in 1..3 /\ R!Wanted(x, R!Tables[x.n])
          /\ (x.n = 2 => hooks) /\ (x.hooks => hooks) /\ (link = x.link \/ (x.n = 3 /\ link = R!Linked(x)))
      BY <1>0, <1>1, <1>3, <1>5, <2>1
    <3> HIDE DEF x, k
    <3>2. /\ y \in Importing /\ y.b = x.b /\ y.hostId = x.hostId /\ y.seen = x.seen /\ y.todo = x.todo /\ y.bytes = x.bytes
          /\ y.before = x.before /\ y.deletes = x.deletes /\ y.hooks = hooks /\ y.lost = x.lost /\ y.link = link
          /\ \/ x.n = 3 /\ y.pc = "settings"
             \/ x.n # 3 /\ y.pc = "list" /\ y.n = x.n + 1
      BY <2>4, <2>5, <3>1, AfterTableIs
    <3> QED
      BY <3>1, <3>2, RowDone
  <2>8. tables' \in [R!Kinds -> Nat] /\ \A t \in R!Kinds : tables[t] > 0 => tables'[t] > 0
    BY <1>0, <1>1, <1>5 DEF WorldOK
  <2>9. WorldOK' /\ UnusedIds'
    BY <1>0, <1>5, <2>8 DEF WorldOK, UnusedIds
  <2>10. \A p \in R!Ids : R!InHand(p)' => R!InHand(p)
    BY <1>1, <2>6, <2>7 DEF R!InHand
  <2>11. Onward
    BY <1>0, <1>5, <2>8, <2>10, CountsStay DEF Onward
  <2> QED
    BY <1>0, <1>2, <1>5, <2>6, <2>7, <2>9, <2>11, Turns
<1>6. CASE /\ R!Wanted(x, k)
           /\ R!Spend("fault", BundleFaults)
           /\ R!ImpTo(i, R!AfterTable([x EXCEPT !.lost = @ \cup {k}]))
           /\ UNCHANGED tables
  <2>1. PICK z : z = [x EXCEPT !.lost = x.lost \cup {k}]
    OBVIOUS
  <2>2. /\ z \in Importing /\ z.n = x.n /\ z.b = x.b /\ z.hostId = x.hostId /\ z.seen = x.seen /\ z.todo = x.todo
        /\ z.bytes = x.bytes /\ z.before = x.before /\ z.deletes = x.deletes /\ z.hooks = x.hooks /\ z.lost = x.lost \cup {k}
        /\ z.link = x.link
    <3>1. x.lost \cup {k} \in SUBSET (R!Kinds \cup {"host"})
      BY <1>1 DEF Importing
    <3> QED
      BY <1>1, <2>1, <3>1 DEF Importing
  <2>3. PICK y : y = R!AfterTable(z)
    OBVIOUS
  <2>4. imp' = [imp EXCEPT ![i] = y]
    BY <1>6, <2>1, <2>3 DEF R!ImpTo
  <2>5. ImportOK(y) /\ y.pc \in {"list", "settings"}
    <3>1. WorldOK /\ ImportOK(x) /\ x.pc = "row" /\ x \in Importing /\ x.n \in 1..3 /\ R!Wanted(x, R!Tables[x.n])
          /\ (x.n = 2 => "webhook" \in x.lost \cup {k})
      BY <1>0, <1>1, <1>3, <1>6
    <3> HIDE DEF x, k
    <3>2. /\ y \in Importing /\ y.b = x.b /\ y.hostId = x.hostId /\ y.seen = x.seen /\ y.todo = x.todo /\ y.bytes = x.bytes
          /\ y.before = x.before /\ y.deletes = x.deletes /\ y.hooks = x.hooks /\ y.lost = x.lost \cup {k} /\ y.link = x.link
          /\ \/ x.n = 3 /\ y.pc = "settings"
             \/ x.n # 3 /\ y.pc = "list" /\ y.n = x.n + 1
      BY <2>2, <2>3, <3>1, AfterTableIs
    <3> QED
      BY <3>1, <3>2, RowDone
  <2> QED
    BY <1>0, <1>2, <1>6, <2>4, <2>5, TurnsAlone DEF WorldOK
<1> QED
  BY <1>4, <1>5, <1>6 DEF R!ImportRow

LEMMA ListSlugsKeeps == ASSUME R!BoundsOK, BundleInv, NEW i \in Importers, R!ListSlugs(i) PROVE BundleInv'
<1> DEFINE x == imp[i]
<1>0. WorldOK /\ ImportsOK /\ x.pc = "settings" /\ ImportOK(x) /\ settings' \in {settings, "bundle"}
      /\ UNCHANGED <<host, tables, stored, dir, secrets, mapped, next, staging, export, bundle, counted>>
  BY ImportIs DEF BundleInv, R!ListSlugs
<1>1. x \in Importing
  BY <1>0 DEF ImportOK, Known
<1>2. PICK seen : seen = {stored[p].slug : p \in R!Rows}
  OBVIOUS
<1>3. seen \in SUBSET (R!Kinds \cup Slugs)
  <2>1. \A p \in R!Rows : stored[p].slug \in Slugs
    BY <1>0 DEF WorldOK, R!Rows, Projects
  <2> QED
    BY <1>2, <2>1
<1>4. PICK y : y = [x EXCEPT !.pc = "next", !.seen = seen]
  OBVIOUS
<1>5. imp' = [imp EXCEPT ![i] = y]
  BY <1>2, <1>4 DEF R!ListSlugs, R!ImpTo
<1>6. /\ y \in Importing /\ y.pc = "next" /\ y.n = x.n /\ y.b = x.b /\ y.hostId = x.hostId /\ y.hooks = x.hooks
      /\ y.seen = seen /\ y.todo = x.todo /\ y.bytes = x.bytes /\ y.before = x.before /\ y.deletes = x.deletes
      /\ y.made = x.made /\ y.lost = x.lost /\ y.link = x.link
  BY <1>1, <1>3, <1>4 DEF Importing, ImportPcs
<1>7. Known(y)
  BY <1>0, <1>6 DEF ImportOK, Known
<1>8. HooksKnown(y) /\ Follows(y)
  BY <1>0, <1>6 DEF ImportOK, HooksKnown, Follows
<1>9. Quiet(y)
  <2>1. Quiet(x) /\ x.todo \subseteq x.b.projects
    BY <1>0 DEF ImportOK, Known
  <2>2. \A m : Still(m) => m.slug \in seen
    BY <1>2 DEF Still, R!Rows
  <2> HIDE DEF x
  <2> QED
    BY <1>0, <1>6, <2>1, <2>2 DEF Quiet
<1>10. ImportOK(y)
  BY <1>7, <1>8, <1>9 DEF ImportOK
<1> QED
  BY <1>0, <1>5, <1>6, <1>10, TurnsAlone, NotStaged DEF WorldOK, AtFiles

(* A project is taken from the list: skipped, staged, or failed.             *)
LEMMA TakenOff ==
    ASSUME R!BoundsOK, WorldOK, NEW x, ImportOK(x), x.pc = "next", NEW m \in x.todo,
           NEW y, y \in Importing, y.b = x.b, y.hostId = x.hostId, y.seen = x.seen, y.before = x.before,
           y.deletes = x.deletes, y.made = x.made, y.lost = x.lost, y.link = x.link, y.m = m,
           y.todo = x.todo \ {m}, y.bytes + m.files.b >= x.bytes,
           \/ m.slug \in x.seen /\ y.pc = "next"
           \/ m.slug \notin x.seen /\ y.pc \in {"next", "validate"}
    PROVE  ImportOK(y)
<1>0. Known(x) /\ HooksKnown(x) /\ Follows(x) /\ Quiet(x) /\ x.todo \in SUBSET Listed /\ m \in Listed
  BY DEF ImportOK, Known, Importing
<1>1. Known(y)
  <2>1. R!DeclaredBytes(x.todo) = R!DeclaredBytes(y.todo) + m.files.b /\ IsFiniteSet(y.todo) /\ R!DeclaredBytes(x.todo) <= x.bytes
    <3>1. IsFiniteSet(x.todo) /\ R!DeclaredBytes(x.todo) <= x.bytes
      BY <1>0 DEF Known
    <3>2. IsFiniteSet(x.todo \ {m})
      BY <3>1, FS_RemoveElement
    <3>3. R!DeclaredBytes(x.todo) = R!DeclaredBytes(x.todo \ {m}) + m.files.b
      BY <1>0, <3>1, BytesSplit
    <3> QED
      BY <3>1, <3>2, <3>3
  <2>2. R!DeclaredBytes(y.todo) \in Nat /\ m.files.b \in Nat /\ x.bytes \in Nat /\ y.bytes \in Nat
    BY <1>0, <2>1, BytesFinite DEF Listed, Dirs, Known, Importing, R!BoundsOK
  <2>3. R!DeclaredBytes(y.todo) <= y.bytes
    BY <2>1, <2>2
  <2> QED
    BY <1>0, <2>1, <2>3 DEF Known
<1>2. HooksKnown(y) /\ Follows(y)
  BY <1>0 DEF HooksKnown, Follows
<1>3. Quiet(y)
  BY <1>0 DEF Quiet
<1> QED
  BY <1>1, <1>2, <1>3 DEF ImportOK

LEMMA StoppedOK ==
    ASSUME R!BoundsOK, WorldOK, NEW x, ImportOK(x), x.pc = "next", NEW m \in x.todo, m.slug \notin x.seen,
           NEW y, y \in Importing, y.b = x.b, y.hostId = x.hostId, y.before = x.before,
           y.deletes = x.deletes, y.lost = x.lost, y.link = x.link, y.todo = {}, y.bytes = x.bytes, y.pc = "stopped"
    PROVE  ImportOK(y)
<1>0. Known(x) /\ HooksKnown(x) /\ Follows(x) /\ Quiet(x)
  BY DEF ImportOK
<1>1. Known(y)
  <2>1. Bytes({}) = {} /\ Cardinality({}) = 0 /\ IsFiniteSet({})
    BY FS_EmptySet DEF Bytes, R!Numbered
  <2>2. R!DeclaredBytes({}) = 0
    BY <2>1, BundleSizes DEF R!DeclaredBytes, Bytes
  <2>3. y.bytes >= 0
    BY DEF Importing, R!BoundsOK
  <2> QED
    BY <1>0, <2>1, <2>2, <2>3 DEF Known
<1>2. HooksKnown(y) /\ Follows(y) /\ Quiet(y)
  BY <1>0 DEF HooksKnown, Follows, Quiet
<1> QED
  BY <1>1, <1>2 DEF ImportOK

LEMMA StageProjectKeeps == ASSUME R!BoundsOK, BundleInv, NEW i \in Importers, R!StageProject(i) PROVE BundleInv'
<1>0. WorldOK /\ ImportsOK /\ imp[i].pc = "next" /\ ImportOK(imp[i]) /\ UNCHANGED <<R!world, export, bundle>>
  BY ImportIs DEF BundleInv, R!StageProject
<1>1. PICK x : x = imp[i] /\ x \in Importing /\ x.pc = "next" /\ ImportOK(x)
  BY <1>0 DEF ImportOK, Known
<1>2. PICK m \in x.todo :
         LET y == [x EXCEPT !.todo = @ \ {m}, !.m = m] IN
         \/ /\ m.slug \in x.seen
            /\ R!ImpTo(i, y)
            /\ UNCHANGED <<staging, counted>>
         \/ /\ m.slug \notin x.seen /\ R!Overruns(x, m)
            /\ R!ImpTo(i, [y EXCEPT !.todo = {}, !.pc = "stopped"])
            /\ UNCHANGED <<staging, counted>>
         \/ /\ m.slug \notin x.seen /\ R!Fits(x, m)
            /\ staging' = staging \cup {i}
            /\ R!ImpTo(i, [R!Charge(y, m.files) EXCEPT !.pc = "validate"])
            /\ UNCHANGED counted
         \/ /\ m.slug \notin x.seen /\ R!Fits(x, m) /\ m.files.n > 0
            /\ R!Spend("fault", BundleFaults)
            /\ \E k \in 0..m.files.n - 1 :
                 R!ImpTo(i, R!Charge(y, [n |-> k, b |-> IF k < m.files.b THEN k ELSE m.files.b]))
            /\ UNCHANGED staging
  BY <1>1 DEF R!StageProject
<1>3. m \in Listed /\ x.todo \ {m} \in SUBSET Listed
  BY <1>1 DEF Importing
<1>4. PICK z : z = [x EXCEPT !.todo = x.todo \ {m}, !.m = m]
  OBVIOUS
<1>5. /\ z \in Importing /\ z.pc = "next" /\ z.b = x.b /\ z.hostId = x.hostId /\ z.seen = x.seen /\ z.before = x.before
      /\ z.deletes = x.deletes /\ z.made = x.made /\ z.lost = x.lost /\ z.link = x.link /\ z.m = m
      /\ z.todo = x.todo \ {m} /\ z.bytes = x.bytes /\ z.files = x.files
  BY <1>1, <1>3, <1>4 DEF Importing
<1>6. /\ m.files.n \in Nat /\ m.files.b \in Nat /\ m.files.b <= m.files.n /\ x.bytes \in Nat /\ x.files \in Nat
      /\ x.bytes <= MaxTotalBytes /\ x.files <= MaxTotalFiles
  BY <1>1, <1>3 DEF Importing, Listed, Dirs, R!BoundsOK
<1>7. m.files.b <= x.bytes
  <2>1. x.todo \in SUBSET Listed /\ IsFiniteSet(x.todo) /\ R!DeclaredBytes(x.todo) <= x.bytes
    BY <1>1 DEF ImportOK, Known, Importing
  <2>2. R!DeclaredBytes(x.todo) = R!DeclaredBytes(x.todo \ {m}) + m.files.b /\ IsFiniteSet(x.todo \ {m})
    BY <2>1, BytesSplit, FS_RemoveElement
  <2>3. R!DeclaredBytes(x.todo \ {m}) \in Nat
    BY <2>2, BytesFinite
  <2> QED
    BY <1>6, <2>1, <2>2, <2>3
<1>8. counted.crash = 0 => i \notin staging
  BY <1>0, NotStaged DEF AtFiles
<1>9. UNCHANGED <<host, tables, stored, dir, secrets, mapped, settings, next>>
  BY <1>0 DEF R!world
<1>10. ASSUME NEW n \in 0..x.files, NEW c \in 0..m.files.b
       PROVE  \E y : /\ y = R!Charge(z, [n |-> n, b |-> c]) /\ y \in Importing /\ y.pc = "next" /\ y.b = x.b /\ y.hostId = x.hostId
                     /\ y.seen = x.seen /\ y.before = x.before /\ y.deletes = x.deletes /\ y.made = x.made
                     /\ y.lost = x.lost /\ y.link = x.link /\ y.m = m /\ y.todo = x.todo \ {m}
                     /\ y.bytes + m.files.b >= x.bytes
  <2>1. PICK y : y = [z EXCEPT !.files = z.files - n, !.bytes = z.bytes - c]
    OBVIOUS
  <2>2. y = R!Charge(z, [n |-> n, b |-> c])
    BY <2>1 DEF R!Charge
  <2>3. x.files - n \in 0..MaxTotalFiles /\ x.bytes - c \in 0..MaxTotalBytes /\ (x.bytes - c) + m.files.b >= x.bytes
    BY <1>6, <1>7 DEF R!BoundsOK
  <2>4. /\ y \in Importing /\ y.pc = "next" /\ y.b = x.b /\ y.hostId = x.hostId /\ y.seen = x.seen /\ y.before = x.before
        /\ y.deletes = x.deletes /\ y.made = x.made /\ y.lost = x.lost /\ y.link = x.link /\ y.m = m
        /\ y.todo = x.todo \ {m} /\ y.bytes = x.bytes - c
    BY <1>5, <2>1, <2>3 DEF Importing
  <2> QED
    BY <2>2, <2>3, <2>4
<1>11. CASE m.slug \in x.seen /\ R!ImpTo(i, z) /\ UNCHANGED <<staging, counted>>
  <2>1. z.bytes + m.files.b >= x.bytes
    BY <1>5, <1>6
  <2>2. ImportOK(z)
    BY <1>0, <1>1, <1>5, <1>11, <2>1, TakenOff
  <2> QED
    BY <1>0, <1>1, <1>5, <1>8, <1>9, <1>11, <2>2, TurnsAlone DEF R!ImpTo, WorldOK
<1>12. CASE m.slug \notin x.seen /\ R!ImpTo(i, [z EXCEPT !.todo = {}, !.pc = "stopped"]) /\ UNCHANGED <<staging, counted>>
  <2>1. PICK y : y = [z EXCEPT !.todo = {}, !.pc = "stopped"]
    OBVIOUS
  <2>2. /\ y \in Importing /\ y.b = x.b /\ y.hostId = x.hostId /\ y.before = x.before /\ y.deletes = x.deletes
        /\ y.lost = x.lost /\ y.link = x.link /\ y.todo = {} /\ y.bytes = x.bytes /\ y.pc = "stopped"
    BY <1>5, <2>1 DEF Importing, ImportPcs
  <2>3. ImportOK(y)
    BY <1>0, <1>1, <1>12, <2>2, StoppedOK
  <2> QED
    BY <1>0, <1>1, <1>8, <1>9, <1>12, <2>1, <2>2, <2>3, TurnsAlone DEF R!ImpTo, WorldOK
<1>13. CASE /\ m.slug \notin x.seen /\ R!Fits(x, m) /\ staging' = staging \cup {i}
            /\ R!ImpTo(i, [R!Charge(z, m.files) EXCEPT !.pc = "validate"])
            /\ UNCHANGED counted
  <2>1. m.files.n \in 0..x.files /\ m.files.b \in 0..m.files.b /\ m.files = [n |-> m.files.n, b |-> m.files.b]
    BY <1>3, <1>6, <1>13 DEF R!Fits, Listed, Dirs
  <2>2. PICK w : /\ w = R!Charge(z, m.files) /\ w \in Importing /\ w.pc = "next" /\ w.b = x.b /\ w.hostId = x.hostId
                 /\ w.seen = x.seen /\ w.before = x.before /\ w.deletes = x.deletes /\ w.made = x.made
                 /\ w.lost = x.lost /\ w.link = x.link /\ w.m = m /\ w.todo = x.todo \ {m}
                 /\ w.bytes + m.files.b >= x.bytes
    BY <1>10, <2>1
  <2>3. PICK y : y = [w EXCEPT !.pc = "validate"]
    OBVIOUS
  <2>4. /\ y \in Importing /\ y.pc = "validate" /\ y.b = x.b /\ y.hostId = x.hostId /\ y.seen = x.seen /\ y.before = x.before
        /\ y.deletes = x.deletes /\ y.made = x.made /\ y.lost = x.lost /\ y.link = x.link /\ y.m = m
        /\ y.todo = x.todo \ {m} /\ y.bytes + m.files.b >= x.bytes
    BY <2>2, <2>3 DEF Importing, ImportPcs
  <2>5. ImportOK(y)
    BY <1>0, <1>1, <1>13, <2>4, TakenOff
  <2>6. imp' = [imp EXCEPT ![i] = y]
    BY <1>13, <2>2, <2>3 DEF R!ImpTo
  <2>7. staging' \in SUBSET Importers /\ \A j \in staging' : (j \in staging /\ j # i) \/ (j = i /\ y.pc \in AtFiles)
    BY <1>0, <1>13, <2>4 DEF WorldOK, AtFiles
  <2> QED
    BY <1>0, <1>1, <1>9, <1>13, <2>4, <2>5, <2>6, <2>7, TurnsAlone DEF WorldOK
<1>14. CASE /\ m.slug \notin x.seen /\ R!Fits(x, m) /\ m.files.n > 0
            /\ R!Spend("fault", BundleFaults)
            /\ \E k \in 0..m.files.n - 1 :
                 R!ImpTo(i, R!Charge(z, [n |-> k, b |-> IF k < m.files.b THEN k ELSE m.files.b]))
            /\ UNCHANGED staging
  <2>1. PICK k \in 0..m.files.n - 1 :
           R!ImpTo(i, R!Charge(z, [n |-> k, b |-> IF k < m.files.b THEN k ELSE m.files.b]))
    BY <1>14
  <2>2. PICK c : c = IF k < m.files.b THEN k ELSE m.files.b
    OBVIOUS
  <2>3. k \in 0..x.files /\ c \in 0..m.files.b
    BY <1>6, <1>14, <2>2 DEF R!Fits
  <2>4. PICK y : /\ y = R!Charge(z, [n |-> k, b |-> c]) /\ y \in Importing /\ y.pc = "next" /\ y.b = x.b /\ y.hostId = x.hostId
                 /\ y.seen = x.seen /\ y.before = x.before /\ y.deletes = x.deletes /\ y.made = x.made
                 /\ y.lost = x.lost /\ y.link = x.link /\ y.m = m /\ y.todo = x.todo \ {m}
                 /\ y.bytes + m.files.b >= x.bytes
    BY <1>10, <2>3
  <2>5. ImportOK(y)
    BY <1>0, <1>1, <1>14, <2>4, TakenOff
  <2>6. imp' = [imp EXCEPT ![i] = y]
    BY <2>1, <2>2, <2>4 DEF R!ImpTo
  <2> QED
    BY <1>0, <1>1, <1>8, <1>9, <1>14, <2>4, <2>5, <2>6, TurnsAlone DEF WorldOK
<1> QED
  BY <1>2, <1>4, <1>11, <1>12, <1>13, <1>14

(* An import that has staged a project was no repetition, and goes on.       *)
AtProject == {"validate", "create", "rename", "attach", "domains"}
LEMMA GoesOnOK ==
    ASSUME R!BoundsOK, WorldOK, NEW x, ImportOK(x), x.pc \in AtProject, NEW pc \in {"create", "attach", "domains", "next"},
           pc = "create" => x.m.files.n > 0, pc \in {"attach", "domains"} => x.pc \in {"rename", "attach"},
           NEW y, y = [x EXCEPT !.pc = pc]
    PROVE  ImportOK(y) /\ y.pc = pc
<1>0. Known(x) /\ HooksKnown(x) /\ Follows(x) /\ Quiet(x) /\ x \in Importing
  BY DEF ImportOK, Known
<1>1. /\ y \in Importing /\ y.pc = pc /\ y.n = x.n /\ y.b = x.b /\ y.hostId = x.hostId /\ y.hooks = x.hooks
      /\ y.seen = x.seen /\ y.todo = x.todo /\ y.bytes = x.bytes /\ y.before = x.before /\ y.deletes = x.deletes
      /\ y.made = x.made /\ y.lost = x.lost /\ y.link = x.link /\ y.m = x.m /\ y.id = x.id
  BY <1>0 DEF Importing, ImportPcs
<1>2. Known(y)
  BY <1>0, <1>1 DEF Known, AtProject
<1>3. HooksKnown(y) /\ Follows(y)
  BY <1>0, <1>1 DEF HooksKnown, Follows, R!Target
<1>4. Quiet(y)
  BY <1>0, <1>1 DEF Quiet, AtProject
<1> QED
  BY <1>1, <1>2, <1>3, <1>4 DEF ImportOK

LEMMA ValidateKeeps == ASSUME R!BoundsOK, BundleInv, NEW i \in Importers, R!ValidateStaged(i) PROVE BundleInv'
<1>0. WorldOK /\ ImportsOK /\ imp[i].pc = "validate" /\ ImportOK(imp[i]) /\ UNCHANGED <<R!world, export, bundle>>
  BY ImportIs DEF BundleInv, R!ValidateStaged
<1>1. UNCHANGED <<host, tables, stored, dir, secrets, mapped, settings, next>>
  BY <1>0 DEF R!world
<1>2. PICK x : x = imp[i] /\ x.pc = "validate" /\ ImportOK(x)
  BY <1>0
<1>3. CASE x.m.files.n > 0 /\ R!ImpTo(i, [x EXCEPT !.pc = "create"]) /\ UNCHANGED <<staging, counted>>
  <2>1. PICK y : y = [x EXCEPT !.pc = "create"]
    OBVIOUS
  <2>2. ImportOK(y) /\ y.pc = "create"
    BY <1>0, <1>2, <1>3, <2>1, GoesOnOK DEF AtProject
  <2>3. \A j \in staging' : (j \in staging /\ j # i) \/ (j = i /\ y.pc \in AtFiles)
    BY <1>3, <2>2 DEF AtFiles
  <2> QED
    BY <1>0, <1>1, <1>2, <1>3, <2>1, <2>2, <2>3, TurnsAlone DEF R!ImpTo, WorldOK
<1>4. CASE /\ IF x.m.files.n > 0 THEN R!Spend("fault", BundleFaults) ELSE UNCHANGED counted
           /\ R!ImpTo(i, [x EXCEPT !.pc = "next"])
           /\ staging' = R!Discard(i)
  <2>1. PICK y : y = [x EXCEPT !.pc = "next"]
    OBVIOUS
  <2>2. ImportOK(y) /\ y.pc = "next"
    BY <1>0, <1>2, <2>1, GoesOnOK DEF AtProject
  <2>3. staging' \in SUBSET Importers /\ \A j \in staging' : j \in staging /\ j # i
    BY <1>0, <1>4 DEF R!Discard, WorldOK
  <2>4. UNCHANGED counted \/ R!Spend("fault", BundleFaults)
    BY <1>4
  <2> QED
    BY <1>0, <1>1, <1>2, <1>4, <2>1, <2>2, <2>3, <2>4, TurnsAlone DEF R!ImpTo, WorldOK
<1> QED
  BY <1>2, <1>3, <1>4 DEF R!ValidateStaged

LEMMA RestoreSecretsKeeps == ASSUME R!BoundsOK, BundleInv, NEW i \in Importers, R!RestoreSecrets(i) PROVE BundleInv'
<1>0. WorldOK /\ ImportsOK /\ imp[i].pc = "attach" /\ ImportOK(imp[i])
      /\ UNCHANGED <<host, tables, stored, dir, mapped, settings, next, staging, export, bundle, counted>>
  BY ImportIs DEF BundleInv, R!RestoreSecrets
<1>1. PICK x : x = imp[i] /\ x.pc = "attach" /\ ImportOK(x)
  BY <1>0
<1>2. PICK y : y = [x EXCEPT !.pc = "domains"]
  OBVIOUS
<1>3. ImportOK(y) /\ y.pc = "domains"
  BY <1>0, <1>1, <1>2, GoesOnOK DEF AtProject
<1>4. imp' = [imp EXCEPT ![i] = y] /\ x.id \in R!Ids
  BY <1>1, <1>2 DEF R!RestoreSecrets, R!ImpTo, ImportOK, Follows
<1>5. secrets' \in SUBSET R!Ids
  BY <1>0, <1>1, <1>4 DEF R!RestoreSecrets, WorldOK
<1>6. counted.crash = 0 => i \notin staging
  BY <1>0, NotStaged DEF AtFiles
<1> QED
  BY <1>0, <1>3, <1>4, <1>5, <1>6, TurnsAlone DEF WorldOK

LEMMA RestoreDomainsKeeps == ASSUME R!BoundsOK, BundleInv, NEW i \in Importers, R!RestoreDomains(i) PROVE BundleInv'
<1>0. WorldOK /\ ImportsOK /\ imp[i].pc = "domains" /\ ImportOK(imp[i])
      /\ UNCHANGED <<host, tables, stored, dir, secrets, settings, next, staging, export, bundle, counted>>
  BY ImportIs DEF BundleInv, R!RestoreDomains
<1>1. PICK x : x = imp[i] /\ x.pc = "domains" /\ ImportOK(x)
  BY <1>0
<1>2. PICK y : y = [x EXCEPT !.pc = "next"]
  OBVIOUS
<1>3. ImportOK(y) /\ y.pc = "next"
  BY <1>0, <1>1, <1>2, GoesOnOK DEF AtProject
<1>4. imp' = [imp EXCEPT ![i] = y] /\ x.id \in R!Ids
  BY <1>1, <1>2 DEF R!RestoreDomains, R!ImpTo, ImportOK, Follows
<1>5. mapped' \in 0..MaxIds
  BY <1>0, <1>1, <1>4 DEF R!RestoreDomains, WorldOK, R!Ids, R!BoundsOK
<1>6. counted.crash = 0 => i \notin staging
  BY <1>0, NotStaged DEF AtFiles
<1> QED
  BY <1>0, <1>3, <1>4, <1>5, <1>6, TurnsAlone DEF WorldOK

LEMMA CreateProjectKeeps == ASSUME R!BoundsOK, BundleInv, NEW i \in Importers, R!CreateProject(i) PROVE BundleInv'
<1>0. WorldOK /\ UnusedIds /\ ImportsOK /\ imp[i].pc = "create" /\ ImportOK(imp[i]) /\ imp \in [Importers -> {R!Idle} \cup Importing]
      /\ UNCHANGED <<host, tables, dir, secrets, mapped, settings, export, bundle>>
  BY ImportIs DEF BundleInv, R!CreateProject, ImportsOK
<1>1. PICK x : x = imp[i] /\ x.pc = "create" /\ ImportOK(x) /\ x \in Importing
  BY <1>0 DEF ImportOK, Known
<1>2. CASE /\ ~R!Taken(x.m.slug)
           /\ R!CreateProjectRow(x.m.slug, R!Target(x))
           /\ R!ImpTo(i, [x EXCEPT !.pc = "rename", !.id = next.project, !.made = @ + 1])
           /\ UNCHANGED <<staging, counted>>
  <2>1. PICK k : k = next.project
    OBVIOUS
  <2>2. PICK y : y = [x EXCEPT !.pc = "rename", !.id = k, !.made = x.made + 1]
    OBVIOUS
  <2>3. imp' = [imp EXCEPT ![i] = y]
    BY <1>2, <2>1, <2>2 DEF R!ImpTo
  <2>4. k \in Nat /\ x.made + 1 \in Nat
    BY <1>0, <1>1, <2>1, CountsStay DEF Importing
  <2>5. /\ y \in Importing /\ y.pc = "rename" /\ y.n = x.n /\ y.b = x.b /\ y.hostId = x.hostId /\ y.hooks = x.hooks
        /\ y.seen = x.seen /\ y.todo = x.todo /\ y.bytes = x.bytes /\ y.before = x.before /\ y.deletes = x.deletes
        /\ y.lost = x.lost /\ y.link = x.link /\ y.m = x.m /\ y.id = k
    BY <1>1, <2>2, <2>4 DEF Importing, ImportPcs
  <2>6. x.m \in Listed /\ x.m.slug \in Slugs /\ R!Target(x) \in Nat
    BY <1>1 DEF ImportOK, Known, Listed, R!Target, Importing, R!Local
  <2>7. \A p \in R!Ids : R!InHand(p)' => R!InHand(p) \/ p = k
    BY <1>0, <2>3, <2>5 DEF R!InHand
  <2>8. /\ Onward /\ UnusedIds' /\ stored' \in [R!Ids -> {R!None} \cup Projects]
        /\ next' \in [host : Nat \ {0}, project : Nat \ {0}] /\ k \in R!Ids
        /\ stored'[k] = [slug |-> x.m.slug, host |-> R!Target(x)]
        /\ \A p \in R!Ids : p # k => stored'[p] = stored[p]
        /\ next'.project > k
    BY <1>0, <1>2, <2>1, <2>6, <2>7, NewRowKeeps, CountsStay
  <2>9. WorldOK'
    BY <1>0, <1>2, <2>8 DEF WorldOK
  <2>10. Known(x) /\ HooksKnown(x) /\ Follows(x) /\ Quiet(x)
    BY <1>1 DEF ImportOK
  <2>11. Known(y)' /\ HooksKnown(y)'
    BY <1>1, <2>5, <2>10 DEF Known, HooksKnown
  <2>12. Follows(y)'
    <3>1. y.deletes <= counted'.delete
      BY <1>2, <2>5, <2>10 DEF Follows
    <3>2. R!Target(y) = R!Target(x)
      BY <2>5 DEF R!Target
    <3>3. stored'[y.id].host = R!Target(y) /\ y.id \in R!Ids /\ y.id < next'.project
      BY <2>4, <2>5, <2>8, <3>2
    <3> QED
      BY <3>1, <3>3 DEF Follows, R!Target, R!Local
  <2>13. Quiet(y)'
    <3>1. ~(x.before /\ x.deletes = counted.delete)
      BY <1>1, <2>10 DEF Quiet
    <3> QED
      BY <1>2, <2>5, <3>1 DEF Quiet
  <2>14. ImportsOK'
    BY <2>3, <2>8, <2>11, <2>12, <2>13, ImportMoves DEF ImportOK
  <2>15. \A p \in R!Ids : (R!InHand(p) => R!InHand(p)') /\ (p = k => R!InHand(p)')
    <3>1. imp'[i] = y /\ \A j \in Importers : j # i => imp'[j] = imp[j]
      BY <1>0, <2>3
    <3> QED
      BY <1>0, <2>5, <3>1 DEF R!InHand
  <2>16. R!RowHasFiles'
    BY <1>0, <1>2, <2>8, <2>15 DEF BundleInv, R!RowHasFiles, R!Rows
  <2>17. R!StagingIsOwned'
    <3>1. imp'[i].pc = "rename" /\ \A j \in Importers : j # i => imp'[j] = imp[j]
      BY <1>0, <2>3, <2>5
    <3> QED
      BY <1>0, <1>2, <3>1 DEF BundleInv, R!StagingIsOwned, WorldOK
  <2>18. ExportOK' /\ BundleOK'
    BY <1>0 DEF BundleInv, ExportOK, BundleOK
  <2> QED
    BY <2>8, <2>9, <2>14, <2>16, <2>17, <2>18 DEF BundleInv
<1>3. CASE /\ IF R!Taken(x.m.slug) THEN UNCHANGED counted ELSE R!Spend("fault", BundleFaults)
           /\ R!ImpTo(i, [x EXCEPT !.pc = "next"])
           /\ staging' = R!Discard(i)
           /\ UNCHANGED <<stored, next>>
  <2>1. PICK y : y = [x EXCEPT !.pc = "next"]
    OBVIOUS
  <2>2. ImportOK(y) /\ y.pc = "next"
    BY <1>0, <1>1, <2>1, GoesOnOK DEF AtProject
  <2>3. staging' \in SUBSET Importers /\ \A j \in staging' : j \in staging /\ j # i
    BY <1>0, <1>3 DEF R!Discard, WorldOK
  <2>4. UNCHANGED counted \/ R!Spend("fault", BundleFaults)
    BY <1>3
  <2> QED
    BY <1>0, <1>1, <1>3, <2>1, <2>2, <2>3, <2>4, TurnsAlone DEF R!ImpTo, WorldOK
<1> QED
  BY <1>1, <1>2, <1>3 DEF R!CreateProject

LEMMA RenameKeeps == ASSUME R!BoundsOK, BundleInv, NEW i \in Importers, R!Rename(i) PROVE BundleInv'
<1>0. WorldOK /\ UnusedIds /\ ImportsOK /\ imp[i].pc = "rename" /\ ImportOK(imp[i]) /\ imp \in [Importers -> {R!Idle} \cup Importing]
      /\ staging' = staging \ {i} /\ UNCHANGED <<host, tables, settings, next, export, bundle>>
  BY ImportIs DEF BundleInv, R!Rename, ImportsOK, R!Discard
<1>1. PICK x : x = imp[i] /\ x.pc = "rename" /\ ImportOK(x) /\ x \in Importing
  BY <1>0 DEF ImportOK, Known
<1>2. x.id \in R!Ids /\ x.m \in Listed /\ x.m.files \in Dirs /\ x.m.files # R!NoDir
  <2>1. x.id \in R!Ids /\ x.m \in Listed /\ x.m.files.n > 0
    BY <1>1 DEF ImportOK, Follows, Known
  <2> QED
    BY <2>1, NoDirIs DEF Listed
<1>3. ExportOK' /\ BundleOK'
  BY <1>0 DEF BundleInv, ExportOK, BundleOK
<1>4. ASSUME NEW y, y.pc # "rename", imp' = [imp EXCEPT ![i] = y]
      PROVE  /\ \A p \in R!Ids : R!InHand(p)' => R!InHand(p)
             /\ \A p \in R!Ids : R!InHand(p) /\ p # x.id => R!InHand(p)'
             /\ counted'.crash = counted.crash => R!StagingIsOwned'
  <2>1. imp'[i] = y /\ \A j \in Importers : j # i => imp'[j] = imp[j]
    BY <1>0, <1>4
  <2> QED
    BY <1>0, <1>1, <1>4, <2>1 DEF R!InHand, BundleInv, R!StagingIsOwned, WorldOK
<1>5. CASE /\ R!CanRename(x.id)
           /\ dir' = [dir EXCEPT ![x.id] = x.m.files]
           /\ R!ImpTo(i, [x EXCEPT !.pc = "attach"])
           /\ UNCHANGED <<stored, secrets, mapped, counted>>
  <2>1. PICK y : y = [x EXCEPT !.pc = "attach"]
    OBVIOUS
  <2>2. ImportOK(y) /\ y.pc = "attach" /\ imp' = [imp EXCEPT ![i] = y]
    BY <1>0, <1>1, <1>5, <2>1, GoesOnOK DEF AtProject, R!ImpTo
  <2>3. /\ \A p \in R!Ids : R!InHand(p)' => R!InHand(p)
        /\ \A p \in R!Ids : R!InHand(p) /\ p # x.id => R!InHand(p)'
        /\ R!StagingIsOwned'
    BY <1>4, <1>5, <2>2
  <2>4. Onward
    BY <1>0, <1>5, <2>3, OnwardAlone, CountsStay
  <2>5. ImportsOK'
    BY <1>0, <2>2, <2>4, StillOK, ImportMoves
  <2>6. dir' \in [R!Ids -> Dirs] /\ dir'[x.id] # R!NoDir /\ \A p \in R!Ids : p # x.id => dir'[p] = dir[p]
    BY <1>0, <1>2, <1>5 DEF WorldOK
  <2>7. WorldOK' /\ UnusedIds'
    BY <1>0, <1>5, <2>6 DEF WorldOK, UnusedIds
  <2>8. R!RowHasFiles'
    BY <1>5, <2>3, <2>6 DEF BundleInv, R!RowHasFiles, R!Rows
  <2> QED
    BY <1>3, <2>3, <2>5, <2>7, <2>8 DEF BundleInv
<1>6. CASE /\ IF R!CanRename(x.id) THEN R!Spend("fault", BundleFaults) ELSE UNCHANGED counted
           /\ R!TakeBack(x.id)
           /\ R!ImpTo(i, [x EXCEPT !.pc = "next"])
           /\ UNCHANGED dir
  <2>1. PICK y : y = [x EXCEPT !.pc = "next"]
    OBVIOUS
  <2>2. ImportOK(y) /\ y.pc = "next" /\ imp' = [imp EXCEPT ![i] = y]
    BY <1>0, <1>1, <1>6, <2>1, GoesOnOK DEF AtProject, R!ImpTo
  <2>3. counted' \in Counts /\ counted'.delete = counted.delete /\ counted'.crash = counted.crash
    BY <1>0, <1>6, SpendIs, CountsStay
  <2>4. /\ \A p \in R!Ids : R!InHand(p)' => R!InHand(p)
        /\ \A p \in R!Ids : R!InHand(p) /\ p # x.id => R!InHand(p)'
        /\ R!StagingIsOwned'
    BY <1>4, <2>2, <2>3
  <2>5. /\ stored' = [stored EXCEPT ![x.id] = R!None] /\ secrets' = secrets \ {x.id}
        /\ mapped' = IF mapped = x.id THEN 0 ELSE mapped
    BY <1>6 DEF R!TakeBack, R!DeleteProject
  <2>6. stored' \in [R!Ids -> {R!None} \cup Projects] /\ stored'[x.id] = R!None /\ \A p \in R!Ids : p # x.id => stored'[p] = stored[p]
    BY <1>0, <1>2, <2>5 DEF WorldOK
  <2>7. WorldOK' /\ UnusedIds'
    <3>1. secrets' \in SUBSET R!Ids /\ mapped' \in 0..MaxIds
      BY <1>0, <2>5 DEF WorldOK, R!BoundsOK
    <3> QED
      BY <1>0, <1>6, <2>3, <2>6, <3>1 DEF WorldOK, UnusedIds
  <2>8. R!InHand(x.id)
    BY <1>1 DEF R!InHand
  <2>9. Onward
    BY <1>0, <2>3, <2>4, <2>6, <2>8, CountsStay DEF Onward
  <2>10. ImportsOK'
    BY <1>0, <2>2, <2>9, StillOK, ImportMoves
  <2>11. R!RowHasFiles'
    BY <1>6, <2>3, <2>4, <2>6 DEF BundleInv, R!RowHasFiles, R!Rows
  <2> QED
    BY <1>3, <2>4, <2>7, <2>10, <2>11 DEF BundleInv
<1> QED
  BY <1>1, <1>5, <1>6 DEF R!Rename

-----------------------------------------------------------------------------
LEMMA BundleStep == ASSUME R!BoundsOK, BundleInv, [R!Next]_R!rvars PROVE BundleInv'
<1>1. CASE UNCHANGED R!rvars
  <2>1. UNCHANGED <<R!world, staging, imp, counted, export, bundle>>
    BY <1>1 DEF R!rvars, R!world
  <2>2. ExportOK' /\ BundleOK' /\ counted \in Counts
    BY <2>1 DEF BundleInv, ExportOK, BundleOK, WorldOK
  <2> QED
    BY <2>1, <2>2, ExportsKeep
<1>2. CASE R!Users
  BY <1>2, UserCreatesKeeps, UserDeletesKeeps, UserWritesKeeps, HostGoneKeeps, NewInstanceKeeps DEF R!Users
<1>3. CASE R!Export
  BY <1>3, ReadHostsKeeps, ReadTableKeeps, ReadProjectsKeeps, PackProjectKeeps, BundleDeliverKeeps
     DEF R!Export
<1>4. ASSUME NEW i \in Importers, R!Import(i) PROVE BundleInv'
  BY <1>4, StartImportKeeps, ImportHostKeeps, ListTableKeeps, ImportRowKeeps, ListSlugsKeeps, StageProjectKeeps,
     ValidateKeeps, CreateProjectKeeps, RenameKeeps, RestoreSecretsKeeps, RestoreDomainsKeeps, EndImportKeeps DEF R!Import
<1>5. CASE R!Crash
  BY <1>5, CrashKeeps
<1> QED
  BY <1>1, <1>2, <1>3, <1>4, <1>5 DEF R!Next

(* What the run's property says of a bundle and an import follows.           *)
LEMMA BundleEnough ==
    ASSUME R!BoundsOK, BundleInv
    PROVE  /\ R!TypeOK /\ R!RowHasFiles /\ R!StagingIsOwned /\ R!FilesAreSealed
           /\ R!ReimportAddsNothing /\ R!RestoredOnItsHost /\ R!RuleFindsItsHook
<1>1. R!TypeOK
  <2>1. \A p \in R!Ids : stored[p] = R!None \/ (stored[p].slug \in Slugs /\ stored[p].host \in Nat)
    BY DEF BundleInv, WorldOK, Projects
  <2>2. \A p \in R!Ids : dir[p].n \in 0..MaxProjectFiles /\ dir[p].b \in 0..dir[p].n
    BY DEF BundleInv, WorldOK, Dirs, R!BoundsOK
  <2>3. bundle.pc = "file" => bundle.projects \subseteq R!Metas
    <3>1. Listed \subseteq R!Metas
      BY DEF Listed, R!Metas, Dirs
    <3> QED
      BY <3>1, IdleApart DEF BundleInv, BundleOK, Bundles
  <2>4. \A i \in Importers : imp[i].pc # "idle" =>
          imp[i].files \in 0..MaxTotalFiles /\ imp[i].bytes \in 0..MaxTotalBytes
    BY ImportIs DEF BundleInv, ImportOK, Known, Importing
  <2> QED
    BY <2>1, <2>2, <2>3, <2>4 DEF BundleInv, WorldOK, R!TypeOK
<1>2. R!FilesAreSealed
  BY IdleApart DEF BundleInv, BundleOK, R!FilesAreSealed, Bundles
<1>3. R!ReimportAddsNothing
  BY ImportIs DEF BundleInv, ImportOK, Quiet, R!ReimportAddsNothing
<1>4. R!RestoredOnItsHost
  <2> SUFFICES ASSUME NEW i \in Importers, imp[i].pc \in {"rename", "attach", "domains"}, stored[imp[i].id] # R!None,
                      imp[i].m.remote, imp[i].b.host, "host" \notin imp[i].lost
               PROVE  stored[imp[i].id].host # R!Local
    BY DEF R!RestoredOnItsHost
  <2>1. ImportOK(imp[i])
    BY ImportIs DEF BundleInv
  <2>2. imp[i].hostId # 0 /\ stored[imp[i].id].host = R!Target(imp[i])
    BY <2>1 DEF ImportOK, Known, Follows
  <2> QED
    BY <2>2 DEF R!Target, R!Local
<1>5. R!RuleFindsItsHook
  BY ImportIs DEF BundleInv, ImportOK, HooksKnown, R!RuleFindsItsHook
<1> QED
  BY <1>1, <1>2, <1>3, <1>4, <1>5 DEF BundleInv

(* No step of an import writes over a directory or another project's row.    *)
LEMMA OverwritesStep == ASSUME R!BoundsOK, BundleInv PROVE R!OverwritesNothing
<1> SUFFICES ASSUME NEW i \in Importers, R!Import(i), NEW p \in R!Ids
             PROVE  /\ dir[p] # R!NoDir => dir'[p] = dir[p]
                    /\ stored[p] # R!None /\ stored'[p] # stored[p] => imp[i].pc = "rename" /\ imp[i].id = p
  BY DEF R!OverwritesNothing
<1>0. WorldOK /\ UnusedIds /\ ImportsOK
  BY DEF BundleInv
<1>1. CASE UNCHANGED <<stored, dir>>
  BY <1>1
<1>2. CASE R!CreateProject(i)
  <2>1. next.project \in Nat
    BY <1>0, CountsStay
  <2>2. UNCHANGED dir /\ (UNCHANGED stored \/ \E r : stored' = [stored EXCEPT ![next.project] = r] /\ next.project \in R!Ids)
    BY <1>2 DEF R!CreateProject, R!CreateProjectRow
  <2>3. next.project \in R!Ids => stored[next.project] = R!None
    BY <1>0, <2>1 DEF UnusedIds
  <2> QED
    BY <1>0, <2>2, <2>3 DEF WorldOK
<1>3. CASE R!Rename(i)
  <2>1. imp[i].pc = "rename" /\ imp[i].id \in R!Ids
    BY <1>0, <1>3, ImportIs DEF R!Rename, ImportOK, Follows
  <2>2. CASE R!CanRename(imp[i].id) /\ dir' = [dir EXCEPT ![imp[i].id] = imp[i].m.files] /\ UNCHANGED stored
    BY <1>0, <2>1, <2>2 DEF R!CanRename, WorldOK
  <2>3. CASE UNCHANGED dir /\ stored' = [stored EXCEPT ![imp[i].id] = R!None]
    BY <1>0, <2>1, <2>3 DEF WorldOK
  <2> QED
    BY <1>3, <2>2, <2>3 DEF R!Rename, R!TakeBack, R!DeleteProject
<1>4. UNCHANGED <<stored, dir>> \/ R!CreateProject(i) \/ R!Rename(i)
  BY DEF R!Import, R!StartImport, R!ImportHost, R!ListTable, R!ImportRow, R!ListSlugs, R!StageProject,
     R!ValidateStaged,
         R!RestoreSecrets, R!RestoreDomains, R!EndImport, R!world
<1> QED
  BY <1>1, <1>2, <1>3, <1>4

(* The invariant holds throughout, for every set of slugs and imports and    *)
(* every limit on files and bytes.                                           *)
THEOREM BundleInvariance == ASSUME R!BoundsOK PROVE R!Spec => []BundleInv
<1>1. R!Init => BundleInv
  BY BundleInit
<1>2. BundleInv /\ [R!Next]_R!rvars => BundleInv'
  BY BundleStep
<1> QED
  BY <1>1, <1>2, PTL DEF R!Spec

(* A restored project is whole and on its host, an import overwrites nothing *)
(* and repeats nothing, and a bundle with files is sealed.                   *)
THEOREM BundleSound ==
    ASSUME R!BoundsOK
    PROVE  R!Spec => /\ [](R!TypeOK /\ R!RowHasFiles /\ R!StagingIsOwned /\ R!FilesAreSealed
                           /\ R!ReimportAddsNothing /\ R!RestoredOnItsHost /\ R!RuleFindsItsHook)
                     /\ [][R!OverwritesNothing]_R!rvars
<1>1. BundleInv => /\ R!TypeOK /\ R!RowHasFiles /\ R!StagingIsOwned /\ R!FilesAreSealed
                   /\ R!ReimportAddsNothing /\ R!RestoredOnItsHost /\ R!RuleFindsItsHook
  BY BundleEnough
<1>2. BundleInv /\ [R!Next]_R!rvars => [R!OverwritesNothing]_R!rvars
  BY OverwritesStep
<1> QED
  BY <1>1, <1>2, BundleInvariance, PTL DEF R!Spec

-----------------------------------------------------------------------------
(****************************************************************************)
(* The run's specification.  A behaviour of MCSpec is one of each           *)
(* component, the parts it has not chosen standing still.                   *)
(****************************************************************************)
LEMMA PartsBegin ==
    ASSUME MCInit PROVE Init /\ D!Init /\ R!Init /\ I!Init /\ T!Init /\ B!Init
  BY DEF MCInit

LEMMA PartsMove ==
    ASSUME [MCNext]_vars
    PROVE  /\ [Next]_yvars /\ [D!Next]_D!dvars /\ [R!Next]_R!rvars
           /\ [I!Next]_I!bvars /\ [T!Next]_T!uvars /\ [B!Next]_B!cvars
<1>1. UNCHANGED dvars => UNCHANGED D!dvars
  BY DEF dvars, D!dvars
<1>2. UNCHANGED rvars => UNCHANGED R!rvars
  BY DEF rvars, R!rvars
<1>3. UNCHANGED ivars => UNCHANGED I!bvars
  BY DEF ivars, I!bvars
<1>4. UNCHANGED tvars => UNCHANGED T!uvars
  BY DEF tvars, T!uvars
<1>5. UNCHANGED fvars => UNCHANGED B!cvars
  BY DEF fvars, B!cvars
<1>6. CASE UNCHANGED vars
  BY <1>1, <1>2, <1>3, <1>4, <1>5, <1>6 DEF vars
<1>7. CASE MCNext
  BY <1>1, <1>2, <1>3, <1>4, <1>5, <1>7 DEF MCNext
<1> QED
  BY <1>6, <1>7

(* However the instances of a run are chosen, its behaviours are behaviours *)
(* of the six components (MCInit, MCNext).                                   *)
THEOREM RunsTheParts == MCSpec => Spec /\ D!Spec /\ R!Spec /\ I!Spec /\ T!Spec /\ B!Spec
<1>1. MCInit => Init /\ D!Init /\ R!Init /\ I!Init /\ T!Init /\ B!Init
  BY PartsBegin
<1>2. [MCNext]_vars => /\ [Next]_yvars /\ [D!Next]_D!dvars /\ [R!Next]_R!rvars
                       /\ [I!Next]_I!bvars /\ [T!Next]_T!uvars /\ [B!Next]_B!cvars
  BY PartsMove
<1> QED
  BY <1>1, <1>2, PTL DEF MCSpec, Spec, D!Spec, R!Spec, I!Spec, T!Spec, B!Spec

(* What runs was verified and is no file of a package; an upgrade by policy *)
(* is within the policy's ceiling, upgrades from the app never go back to   *)
(* an older release, and no download is left lying about (Apply, autoApply, *)
(* applyMu).                                                                *)
THEOREM OnlyVerifiedEverRuns == MCSpec => OnlyVerifiedRuns
<1>1. TypeOK /\ NeverUnverified /\ PackageIsRespected /\ FilesAreOwned
      => (part = "update" => TypeOK /\ NeverUnverified /\ PackageIsRespected /\ FilesAreOwned)
  OBVIOUS
<1>2. [CeilingStep /\ ForwardStep]_yvars => [CeilingStep]_yvars /\ [ForwardStep]_yvars
  OBVIOUS
<1> QED
  BY <1>1, <1>2, UpdateSound, RunsTheParts, PTL
     DEF OnlyVerifiedRuns, AutoWithinCeiling, InAppNeverGoesBack, CeilingStep, ForwardStep

(* A request is sent to the service its mapping names over its own name's   *)
(* handshake; a client that leaves makes no backend "down", nothing cached  *)
(* is listed again and expired entries are swept (CombinedHandler,          *)
(* resolveBackendCached, storeLocked).                                      *)
THEOREM RoutesStayMapped == MCSpec => RoutesFollowMappings
<1>1. D!Spec => /\ [](D!TypeOK /\ D!AnswerIsOfTheMapping /\ D!ProxiedUnderItsOwnName
                      /\ D!NoClientPoisonsTheCache /\ D!NoNeedlessListing)
                /\ [][D!SweepStep]_D!dvars
  BY RouteBounds, RoutesSound
<1>2. [D!SweepStep]_D!dvars => [D!SweepStep]_dvars
  BY DEF dvars, D!dvars
<1>3. D!TypeOK /\ D!AnswerIsOfTheMapping /\ D!ProxiedUnderItsOwnName /\ D!NoClientPoisonsTheCache /\ D!NoNeedlessListing
      => (part = "domains" => D!TypeOK /\ D!AnswerIsOfTheMapping /\ D!ProxiedUnderItsOwnName
                              /\ D!NoClientPoisonsTheCache /\ D!NoNeedlessListing)
  OBVIOUS
<1> QED
  BY <1>1, <1>2, <1>3, RunsTheParts, PTL DEF RoutesFollowMappings

(* A restored project has its files, its host and its rules' webhooks, an   *)
(* import overwrites nothing, a second one adds nothing, a staging          *)
(* directory belongs to an import and a bundle with files is sealed         *)
(* (applyRecoveryBundle, handleExportRecoveryBundle).                       *)
THEOREM ImportStaysWhole == MCSpec => ImportIsWhole
<1>1. R!Spec => /\ [](R!TypeOK /\ R!RowHasFiles /\ R!StagingIsOwned /\ R!FilesAreSealed
                      /\ R!ReimportAddsNothing /\ R!RestoredOnItsHost /\ R!RuleFindsItsHook)
                /\ [][R!OverwritesNothing]_R!rvars
  BY BundleBounds, BundleSound
<1>2. [R!OverwritesNothing]_R!rvars => [R!OverwritesNothing]_rvars
  BY DEF rvars, R!rvars
<1>3. /\ R!TypeOK /\ R!RowHasFiles /\ R!StagingIsOwned /\ R!FilesAreSealed
      /\ R!ReimportAddsNothing /\ R!RestoredOnItsHost /\ R!RuleFindsItsHook
      => (part = "bundle" => R!TypeOK /\ R!RowHasFiles /\ R!StagingIsOwned /\ R!FilesAreSealed
                             /\ R!ReimportAddsNothing /\ R!RestoredOnItsHost /\ R!RuleFindsItsHook)
  OBVIOUS
<1> QED
  BY <1>1, <1>2, <1>3, RunsTheParts, PTL DEF ImportIsWhole

(* A revision in an archive has its zip, a sealed archive is restored whole *)
(* or not at all, and never over an installation without force              *)
(* (writeArchive, OpenFrom, checkTarget).                                   *)
THEOREM RestoreStaysWhole == MCSpec => RestoreIsWhole
<1>1. I!Spec => /\ [](I!TypeOK /\ I!RevisionsHaveZips /\ I!SealedIsAllOrNothing)
                /\ [][I!PutsOverNothing]_I!bvars
  BY InstallBounds, InstallSound
<1>2. [I!PutsOverNothing]_I!bvars => [I!PutsOverNothing]_ivars
  BY DEF ivars, I!bvars
<1>3. I!TypeOK /\ I!RevisionsHaveZips /\ I!SealedIsAllOrNothing
      => (part = "backup" => I!TypeOK /\ I!RevisionsHaveZips /\ I!SealedIsAllOrNothing)
  OBVIOUS
<1> QED
  BY <1>1, <1>2, <1>3, RunsTheParts, PTL DEF RestoreIsWhole

(* A template at rest is whole and no project is seeded past the cap        *)
(* (storeUserTemplate, seedProjectFiles).                                   *)
THEOREM TemplatesStayWhole == MCSpec => []TemplatesAreWhole
<1>1. T!Spec => [](T!TypeOK /\ T!NoHalfTemplates /\ T!SeededWithinCap)
  BY TemplateBounds, TemplatesSound
<1>2. T!TypeOK /\ T!NoHalfTemplates /\ T!SeededWithinCap => TemplatesAreWhole
  BY DEF TemplatesAreWhole
<1> QED
  BY <1>1, <1>2, RunsTheParts, PTL

(* A built file has every service under a key of its own, its aliases       *)
(* resolve, and instances of one block have volumes of their own            *)
(* (resolveSeedFiles, AssembleCompose).                                     *)
THEOREM BuiltFileStaysSound == MCSpec => []BuiltFileIsSound
<1>1. B!Spec => [](B!TypeOK /\ B!AliasesResolve /\ B!NoServiceDropped /\ B!ClustersKeepTheirData)
  BY BuilderBounds, BuilderSound
<1>2. B!TypeOK /\ B!AliasesResolve /\ B!NoServiceDropped /\ B!ClustersKeepTheirData => BuiltFileIsSound
  BY DEF BuiltFileIsSound
<1> QED
  BY <1>1, <1>2, RunsTheParts, PTL
=============================================================================
