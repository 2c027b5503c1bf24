----------------------------- MODULE SelfUpdate -----------------------------
(* Self-update (internal/selfupdate, internal/version,                       *)
(* api/update_handlers.go, api/selfupdate_policy.go, main.go's runServer).   *)
(* An administrator's request, the policy loop and --self-upgrade each       *)
(* resolve the latest release, download it beside the executable, verify it  *)
(* and rename it into place; the first two share applyMu, the command line   *)
(* is a process of its own. Releases are published meanwhile, a package      *)
(* manager may take the executable over, and the server may be restarted or  *)
(* killed. A version is a sequence of three numbers; Dev parses as none.     *)
EXTENDS Naturals, Sequences, TLC

CONSTANTS
    Versions,     \* releases, as <<major, minor, patch>>
    Current,      \* version running at first: one of Versions, or Dev
    Admins,       \* requests of POST /api/update/apply
    MaxStarts,    \* bound: upgrades started
    MaxEdits,     \* bound: changes of the policy
    MaxFaults,    \* bound: failed and spoilt downloads
    MaxKills      \* bound: processes killed

Dev == << >>
AutoLoop == "auto"    \* tryAutoApply
Cli == "cli"      \* --self-upgrade
InApp == Admins \cup {AutoLoop}
Installers == InApp \cup {Cli}
Granularities == {"patch", "minor", "major"}
None == [v |-> Dev, by |-> "none", good |-> FALSE]
Idle == [pc |-> "idle"]

ASSUME VersionsAssumption ==
    Versions \subseteq Nat \X Nat \X Nat /\ Current \in Versions \cup {Dev}
ASSUME InstallersAssumption == {AutoLoop, Cli, "nobody"} \cap Admins = {}

VARIABLES
    os,        \* "unix" or "windows"
    latest,    \* releases/latest at GitHub
    exe,       \* the executable: [v, by, good]; good: its bytes are the release's
    packaged,  \* a package manager owns the executable
    running,   \* version of the server process
    policy,    \* settings: [on, ceiling]
    notice,    \* settings: version of the last automatic update, Dev for none
    status,    \* updateChecker.cached: version last seen, Dev when not ok
    pre,       \* updateChecker.preErr, which may be a minute old: "free" or "blocked"
    applyMu,   \* who holds the lock, "nobody" if none does
    inst,      \* where each installer stands
    tmp,       \* installers whose .dockercmd-upgrade-* file exists
    restart,   \* restartReq has been signalled
    reply,     \* handleRestart has yet to flush its response
    cut,       \* history: a process ended with a response or a file in hand
    spent      \* history: what the bounds count

yvars == <<os, latest, exe, packaged, running, policy, notice, status, pre, applyMu, inst, tmp, restart,
           reply, cut, spent>>

(* version.Less and version.Delta: what does not parse is never older.       *)
Less(a, b) ==
    /\ a # Dev /\ b # Dev
    /\ \E k \in 1..3 : a[k] < b[k] /\ \A j \in 1..k - 1 : a[j] = b[j]
Delta(a, b) ==
    IF ~Less(a, b) THEN ""
    ELSE IF a[1] # b[1] THEN "major" ELSE IF a[2] # b[2] THEN "minor" ELSE "patch"

(* granularityAllows: the policy is a ceiling.                               *)
Allows(ceiling, delta) ==
    delta \in (CASE ceiling = "major" -> {"major", "minor", "patch"}
                 [] ceiling = "minor" -> {"minor", "patch"}
                 [] OTHER -> {"patch"})

Init ==
    /\ os \in {"unix", "windows"}
    /\ latest \in Versions /\ ~Less(latest, Current)
    /\ exe = [v |-> Current, by |-> "setup", good |-> TRUE] /\ running = Current
    /\ packaged = FALSE
    /\ policy = [on |-> FALSE, ceiling |-> "minor"] /\ notice = Dev
    /\ status = Dev /\ pre = "free"
    /\ applyMu = "nobody"
    /\ inst = [i \in Installers |-> Idle] /\ tmp = {}
    /\ restart = FALSE /\ reply = FALSE /\ cut = {}
    /\ spent = [start |-> 0, edit |-> 0, fault |-> 0, kill |-> 0]

Spend(what, bound) == spent[what] < bound /\ spent' = [spent EXCEPT ![what] = @ + 1]
InstTo(i, to) == inst' = [inst EXCEPT ![i] = to]

-----------------------------------------------------------------------------
(* The environment: GitHub, and a package installed over the executable.     *)
Publish(v) ==
    /\ Less(latest, v)
    /\ latest' = v
    /\ UNCHANGED <<os, exe, packaged, running, policy, notice, status, pre, applyMu, inst, tmp, restart,
                   reply, cut, spent>>

InstallPackage ==
    /\ os = "unix" /\ ~packaged
    /\ packaged' = TRUE
    /\ exe' = [v |-> latest, by |-> "package", good |-> TRUE]
    /\ UNCHANGED <<os, latest, running, policy, notice, status, pre, applyMu, inst, tmp, restart, reply,
                   cut, spent>>

(* handleSetSelfUpdatePolicy.                                                *)
SetSelfUpdatePolicy(on, ceiling) ==
    /\ Spend("edit", MaxEdits)
    /\ policy' = [on |-> on, ceiling |-> ceiling]
    /\ UNCHANGED <<os, latest, exe, packaged, running, notice, status, pre, applyMu, inst, tmp, restart,
                   reply, cut>>

(* handleUpdateStatus: status refreshes a cache that is empty or stale (an   *)
(* error keeps the last good answer), and blocked asks Precheck at most once *)
(* a minute.                                                                 *)
RefreshStatus ==
    /\ status # latest
    /\ status' = latest
    /\ UNCHANGED <<os, latest, exe, packaged, running, policy, notice, pre, applyMu, inst, tmp, restart,
                   reply, cut, spent>>

Blocked == IF packaged THEN "blocked" ELSE "free"
RefreshPrecheck ==
    /\ pre # Blocked
    /\ pre' = Blocked
    /\ UNCHANGED <<os, latest, exe, packaged, running, policy, notice, status, applyMu, inst, tmp, restart,
                   reply, cut, spent>>

-----------------------------------------------------------------------------
(* apply and applyIfPolicyAllows: TryLock, so a second upgrade is refused.   *)
TryLockAlways == TRUE
TryLock == applyMu = "nobody"

Begin(i, current, ceiling) ==
    InstTo(i, [pc |-> "resolve", current |-> current, ceiling |-> ceiling, packaged |-> packaged,
               rel |-> Dev, good |-> FALSE, old |-> None])

HandleApplyUpdate(a) ==
    /\ Spend("start", MaxStarts)
    /\ inst[a].pc = "idle" /\ TryLock
    /\ applyMu' = a
    /\ Begin(a, running, "major")
    /\ UNCHANGED <<os, latest, exe, packaged, running, policy, notice, status, pre, tmp, restart, reply, cut>>

(* autoApply: the policy is read here, and autoApplyEnabled asks blocked().  *)
AutoApply ==
    /\ Spend("start", MaxStarts)
    /\ inst[AutoLoop].pc = "idle" /\ os = "unix"
    /\ policy.on /\ pre = "free" /\ TryLock
    /\ applyMu' = AutoLoop
    /\ Begin(AutoLoop, running, policy.ceiling)
    /\ UNCHANGED <<os, latest, exe, packaged, running, policy, notice, status, pre, tmp, restart, reply, cut>>

(* Run: the process is the executable that is on disk; it takes no lock.     *)
SelfUpgrade ==
    /\ Spend("start", MaxStarts)
    /\ inst[Cli].pc = "idle" /\ exe # None
    /\ Begin(Cli, exe.v, "major")
    /\ UNCHANGED <<os, latest, exe, packaged, running, policy, notice, status, pre, applyMu, tmp, restart,
                   reply, cut>>

Unlocked(i) == IF applyMu = i THEN "nobody" ELSE applyMu
Refuse(i) == InstTo(i, Idle) /\ applyMu' = Unlocked(i)

(* latestRelease. The policy is asked about the release this very call is    *)
(* going to install.                                                         *)
Judged == latest

Resolve(i) ==
    /\ inst[i].pc = "resolve"
    /\ IF Less(inst[i].current, latest) /\ (i = AutoLoop => Allows(inst[i].ceiling, Delta(inst[i].current, Judged)))
         THEN /\ InstTo(i, [inst[i] EXCEPT !.pc = "check", !.rel = latest])
              /\ UNCHANGED applyMu
         ELSE Refuse(i)
    /\ UNCHANGED <<os, latest, exe, packaged, running, policy, notice, status, pre, tmp, restart, reply, cut, spent>>

(* installRelease, up to the download: a packaged executable is left alone   *)
(* and a release without a checksum is refused, whatever Precheck said when  *)
(* it was last asked.                                                        *)
Owned == packaged

Check(i) ==
    /\ inst[i].pc = "check"
    /\ \/ /\ ~Owned
          /\ InstTo(i, [inst[i] EXCEPT !.pc = "download"])
          /\ UNCHANGED <<applyMu, spent>>
       \/ /\ IF Owned THEN UNCHANGED spent ELSE Spend("fault", MaxFaults)
          /\ Refuse(i)
    /\ UNCHANGED <<os, latest, exe, packaged, running, policy, notice, status, pre, tmp, restart, reply, cut>>

(* download: what arrives is the release's asset, or other bytes; an error   *)
(* of the transfer removes the temporary file.                               *)
Download(i) ==
    /\ inst[i].pc = "download"
    /\ \/ /\ tmp' = tmp \cup {i}
          /\ InstTo(i, [inst[i] EXCEPT !.pc = "verify", !.good = TRUE])
          /\ UNCHANGED <<applyMu, spent>>
       \/ /\ Spend("fault", MaxFaults)
          /\ tmp' = tmp \cup {i}
          /\ InstTo(i, [inst[i] EXCEPT !.pc = "verify"])
          /\ UNCHANGED applyMu
       \/ /\ Spend("fault", MaxFaults)
          /\ Refuse(i)
          /\ UNCHANGED tmp
    /\ UNCHANGED <<os, latest, exe, packaged, running, policy, notice, status, pre, restart, reply, cut>>

(* verifyDigest; the deferred Remove takes the file away on a mismatch.      *)
Verified(i) == inst[i].good
Remove(i) == tmp \ {i}

Verify(i) ==
    /\ inst[i].pc = "verify"
    /\ IF Verified(i) THEN /\ InstTo(i, [inst[i] EXCEPT !.pc = IF os = "windows" THEN "aside" ELSE "swap"])
                           /\ UNCHANGED <<applyMu, tmp>>
       ELSE Refuse(i) /\ tmp' = Remove(i)
    /\ UNCHANGED <<os, latest, exe, packaged, running, policy, notice, status, pre, restart, reply, cut, spent>>

(* replaceExecutable: one rename; on Windows the old executable is moved     *)
(* aside before.                                                             *)
RenameAside(i) ==
    /\ inst[i].pc = "aside"
    /\ IF exe = None THEN Refuse(i) /\ tmp' = Remove(i) /\ UNCHANGED exe
       ELSE /\ exe' = None
            /\ InstTo(i, [inst[i] EXCEPT !.pc = "swap", !.old = exe])
            /\ UNCHANGED <<applyMu, tmp>>
    /\ UNCHANGED <<os, latest, packaged, running, policy, notice, status, pre, restart, reply, cut, spent>>

(* apply invalidates the cached status and unlocks; autoApply goes on.       *)
Swap(i) ==
    /\ inst[i].pc = "swap"
    /\ exe' = [v |-> inst[i].rel, by |-> IF i = Cli THEN "cli" ELSE "app", good |-> inst[i].good]
    /\ tmp' = tmp \ {i}
    /\ status' = IF i = Cli THEN status ELSE Dev
    /\ applyMu' = Unlocked(i)
    /\ InstTo(i, IF i = AutoLoop THEN [pc |-> "record", rel |-> inst[i].rel] ELSE Idle)
    /\ UNCHANGED <<os, latest, packaged, running, policy, notice, pre, restart, reply, cut, spent>>

(* The last rename fails; on Windows the executable moved aside comes back.  *)
SwapFails(i) ==
    /\ Spend("fault", MaxFaults)
    /\ inst[i].pc = "swap"
    /\ exe' = IF os = "windows" THEN inst[i].old ELSE exe
    /\ tmp' = Remove(i)
    /\ Refuse(i)
    /\ UNCHANGED <<os, latest, packaged, running, policy, notice, status, pre, restart, reply, cut>>

SetLastAutoUpdate ==
    /\ inst[AutoLoop].pc = "record"
    /\ notice' = inst[AutoLoop].rel
    /\ InstTo(AutoLoop, [pc |-> "restart"])
    /\ UNCHANGED <<os, latest, exe, packaged, running, policy, status, pre, applyMu, tmp, restart, reply, cut, spent>>

-----------------------------------------------------------------------------
(* onRestart: the channel holds one request; another is dropped.             *)
AutoRestart ==
    /\ inst[AutoLoop].pc = "restart"
    /\ restart' = TRUE
    /\ InstTo(AutoLoop, Idle)
    /\ UNCHANGED <<os, latest, exe, packaged, running, policy, notice, status, pre, applyMu, tmp, reply, cut, spent>>

(* handleRestart starts onRestart on a goroutine of its own; the response is *)
(* flushed when the handler returns.                                         *)
HandleRestart ==
    /\ os = "unix" /\ ~reply /\ exe.v # running
    /\ restart' = TRUE /\ reply' = TRUE
    /\ UNCHANGED <<os, latest, exe, packaged, running, policy, notice, status, pre, applyMu, inst, tmp, cut, spent>>

Flush ==
    /\ reply
    /\ reply' = FALSE
    /\ UNCHANGED <<os, latest, exe, packaged, running, policy, notice, status, pre, applyMu, inst, tmp,
                   restart, cut, spent>>

(* The process ends and the executable on disk is started: its goroutines    *)
(* are gone, its files stay. Nothing runs (Dev) if there is none.            *)
NewProcess ==
    /\ running' = exe.v
    /\ status' = Dev /\ pre' = Blocked /\ applyMu' = "nobody"
    /\ inst' = [i \in Installers |-> IF i \in InApp THEN Idle ELSE inst[i]]
    /\ restart' = FALSE /\ reply' = FALSE
    /\ UNCHANGED <<os, latest, exe, packaged, policy, notice, tmp>>

(* runServer: Shutdown is called and ListenAndServe returns at once, without *)
(* waiting for the handlers that Shutdown waits for; then reexecSelf.        *)
Reexec ==
    /\ restart
    /\ NewProcess
    /\ cut' = cut \cup (IF reply THEN {"reply"} ELSE {}) \cup (IF tmp \cap InApp # {} THEN {"file"} ELSE {})
    /\ UNCHANGED spent

Kill ==
    /\ Spend("kill", MaxKills)
    /\ NewProcess
    /\ cut' = cut \cup (IF tmp \cap InApp # {} THEN {"file"} ELSE {})

KillCli ==
    /\ Spend("kill", MaxKills)
    /\ inst[Cli].pc # "idle"
    /\ InstTo(Cli, Idle)
    /\ cut' = cut \cup (IF Cli \in tmp THEN {"file"} ELSE {})
    /\ UNCHANGED <<os, latest, exe, packaged, running, policy, notice, status, pre, applyMu, tmp, restart, reply>>

Install(i) == Resolve(i) \/ Check(i) \/ Download(i) \/ Verify(i) \/ RenameAside(i) \/ Swap(i)
              \/ SwapFails(i)

Next ==
    \/ \E v \in Versions : Publish(v)
    \/ \E on \in BOOLEAN, ceiling \in Granularities : SetSelfUpdatePolicy(on, ceiling)
    \/ InstallPackage \/ RefreshStatus \/ RefreshPrecheck
    \/ (\E a \in Admins : HandleApplyUpdate(a)) \/ AutoApply \/ SelfUpgrade
    \/ \E i \in Installers : Install(i)
    \/ SetLastAutoUpdate \/ AutoRestart \/ HandleRestart \/ Flush \/ Reexec \/ Kill \/ KillCli

Spec == Init /\ [][Next]_yvars

-----------------------------------------------------------------------------
(* Types of the variables; the lock's holder is installing.                  *)
TypeOK ==
    /\ latest \in Versions /\ exe.v \in Versions \cup {Dev} /\ running \in Versions \cup {Dev}
    /\ policy \in [on : BOOLEAN, ceiling : Granularities] /\ notice \in Versions \cup {Dev}
    /\ status \in Versions \cup {Dev} /\ pre \in {"free", "blocked"}
    /\ applyMu \in InApp \cup {"nobody"} /\ tmp \subseteq Installers
    /\ applyMu # "nobody" => inst[applyMu].pc \in {"resolve", "check", "download", "verify", "aside", "swap"}

(* "We never run unverified code": the executable is the release's, whoever  *)
(* installed it and whatever else was installing at the time.                *)
NeverUnverified == exe # None => exe.good

(* autoApply: "a release published between two ticks [...] can never slip    *)
(* past the gate": what the loop installs is within the ceiling it read,     *)
(* measured from the version that runs.                                      *)
AutoWithinCeiling ==
    [][inst[AutoLoop].pc = "swap" /\ inst'[AutoLoop].pc = "record" =>
         Allows(inst[AutoLoop].ceiling, Delta(running, exe'.v))]_yvars

(* "Serialised so two upgrades can't race": no upgrade of the server puts an *)
(* older release over one the server installed.                              *)
InAppNeverGoesBack ==
    [][exe.by = "app" /\ exe'.by = "app" => ~Less(exe'.v, exe.v)]_yvars

(* ErrPackageManaged: an executable that belonged to a package when the      *)
(* upgrade began is not replaced, even while the cached Precheck is stale.   *)
PackageIsRespected ==
    \A i \in Installers : inst[i].pc \in {"download", "verify", "aside", "swap"} => ~inst[i].packaged

(* installRelease's deferred Remove: a temporary file is of an upgrade under *)
(* way, unless a process ended in the middle of one.                         *)
FilesAreOwned ==
    "file" \notin cut => \A i \in tmp : inst[i].pc \in {"verify", "aside", "swap"}

(* Refuted: "serialises apply so two upgrades can't race":                   *)
(* --self-upgrade takes no lock.                                             *)
NeverGoesBack == [][exe'.by # "none" /\ exe.by # "none" => ~Less(exe'.v, exe.v)]_yvars

(* Refuted: handleRestart: "so the response is flushed                       *)
(* before the server stops".                                                 *)
ReplyIsFlushed == "reply" \notin cut

(* Refuted: "atomically replace the running executable":                     *)
(* a process killed between the two renames leaves none.                     *)
ReplaceIsAtomic == exe = None => \E i \in Installers : inst[i].pc = "swap"

(* Refuted: the notice says "you're now on vX.Y.Z".                          *)
NoticeIsTrue == notice # Dev => ~Less(running, notice)

(* Refuted: a packaged executable "is never" replaced.                       *)
PackageIsNeverReplaced == [][packaged => exe' = exe]_yvars
=============================================================================
