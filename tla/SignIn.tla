------------------------------- MODULE SignIn -------------------------------
(* Signing in to one local account: password, second factor (a code of an     *)
(* authenticator app or a passkey), passwordless sign-in, sessions, and the   *)
(* password changes that end them (internal/auth, api/auth_handlers.go,       *)
(* api/passkey_handlers.go, api/session_handlers.go, store/sessions.go).      *)
(*                                                                            *)
(* A request is a process: the calls it makes on the limiter, the in-memory   *)
(* tables and the database are separate steps, and other requests run between *)
(* them.  Passwords are version numbers, a code is the time step that made    *)
(* it, an assertion is the authenticator's signature counter.                 *)
EXTENDS Throttle

CONSTANTS
    Requests,      \* requests that can be in flight at once
    Protected,     \* the account has a second factor
    Scenarios,     \* sets of endpoints; a behaviour is offered one of them
    Budget,        \* LoginLimiter.max (5; 30 for the passkey limiter)
    WindowTicks,   \* the length of a limiter window
    ChallengeTicks,\* the life of an MFA challenge, longer than a ceremony's
    PublicLimit,   \* maxPublicCeremonies
    MaxIds,        \* bound: challenges and sessions issued
    MaxStep,       \* bound: TOTP time steps
    MaxSig,        \* bound: assertions an authenticator signs
    MaxPw,         \* bound: password changes
    MaxRestarts    \* bound: restarts of the server

(* A limiter has a budget and a window, and a challenge lives for a while.    *)
BoundsOK ==
    /\ IsFiniteSet(Requests)
    /\ {Budget, WindowTicks, ChallengeTicks, MaxStep} \subseteq Nat \ {0}
    /\ {MaxIds, MaxSig, MaxPw, MaxRestarts} \subseteq Nat

VARIABLES
    account,     \* the users row: [pw, epoch, last, sign, passwordless]
    sessions,    \* ids of the rows of the sessions table
    issued,      \* every session token signed: id -> [epoch, gen, by]
    challenges,  \* MFA-challenge tokens not expired: id -> ticks left
    limiter,     \* Service.limiter
    passkeys,    \* Service.passkeyLimiter
    spent,       \* Service.challenges: id -> ticks left
    open,        \* Service.ceremonies, the login ones: challenge id -> ticks
    public,      \* Service.publicCeremonies: ceremony id -> ticks left
    step,        \* the TOTP time step of now
    device,      \* assertions the authenticator has signed
    req,         \* where each request stands
    nextId,      \* the next random id
    offered,     \* the endpoints this behaviour's requests arrive at
    gen,         \* history: password changes [begun, done]
    tries,       \* history: attempts each challenge has bought since the start
    restarts     \* restarts so far

vars == <<account, sessions, issued, challenges, limiter, passkeys, spent, open,
          public, step, device, req, nextId, gen, tries, restarts, offered>>
tables == <<limiter, passkeys, spent, open, public>>
history == <<gen, tries, restarts, offered>>

Ids == 1 .. MaxIds
Keys == {"ip", "mfa", "stepup"}      \* rlKey, mfaKey(user), StepUpKey(user, session)
PasskeyKeys == {"ip", "begin"}       \* rlKey, "begin:" + rlKey
Idle == [pc |-> "idle"]

Init ==
    /\ account = [pw |-> 0, epoch |-> 0, last |-> 0, sign |-> 0, passwordless |-> FALSE]
    /\ sessions = {}
    /\ issued = <<>>
    /\ challenges = <<>>
    /\ limiter = [k \in Keys |-> NoWindow]
    /\ passkeys = [k \in PasskeyKeys |-> NoWindow]
    /\ spent = <<>> /\ open = <<>> /\ public = <<>>
    /\ step = 1
    /\ device = 0
    /\ req = [r \in Requests |-> Idle]
    /\ nextId = 1
    /\ gen = [begun |-> 0, done |-> 0]
    /\ tries = [i \in Ids |-> 0]
    /\ restarts = 0
    /\ offered \in Scenarios

Goto(r, to) == req' = [req EXCEPT ![r] = to]
AtPc(r, pc) == req[r].pc = pc

(* The answer sent: the request ends.                                         *)
Answer(r) == Goto(r, Idle)

(* A login that has proved who it is goes on to issueSession with the users   *)
(* row it read: its epoch, and (history) the changes completed by then.       *)
ToIssue(r, epoch, seen, by) ==
    Goto(r, [pc |-> "issue", epoch |-> epoch, gen |-> seen, by |-> by])

-----------------------------------------------------------------------------
(* issueSession and CreateSession: the token carries the epoch of the row     *)
(* read earlier, and the sessions row is what makes it a session.             *)
IssueSession(r) ==
    /\ AtPc(r, "issue")
    /\ nextId <= MaxIds
    /\ issued' = [i \in DOMAIN issued \cup {nextId} |->
                    IF i = nextId THEN [epoch |-> req[r].epoch, gen |-> req[r].gen, by |-> req[r].by]
                                  ELSE issued[i]]
    /\ sessions' = sessions \cup {nextId}
    /\ nextId' = nextId + 1
    /\ Answer(r)
    /\ UNCHANGED <<account, challenges, tables, step, device, history>>

(* Login's first check, and handleLogin before it: the address has budget.    *)
(* exempt is mfaExempt: the localhost exemption.                              *)
LoginAllowed(r, pw, exempt) ==
    /\ AtPc(r, "idle")
    /\ Allow(limiter, "ip", Budget)
    /\ Goto(r, [pc |-> "password", pw |-> pw, exempt |-> exempt])
    /\ UNCHANGED <<account, sessions, issued, challenges, tables, step, device, nextId, history>>

(* The rest of Login: a wrong password spends budget, a right one buys a      *)
(* challenge when the account is protected, and a session otherwise.          *)
LoginWrong(r) ==
    /\ AtPc(r, "password")
    /\ req[r].pw # account.pw
    /\ limiter' = Fail(limiter, "ip", WindowTicks)
    /\ Answer(r)
    /\ UNCHANGED <<account, sessions, issued, challenges, passkeys, spent, open, public,
                   step, device, nextId, history>>

LoginChallenge(r) ==
    /\ AtPc(r, "password")
    /\ req[r].pw = account.pw
    /\ Protected /\ ~req[r].exempt
    /\ nextId <= MaxIds
    /\ challenges' = With(challenges, nextId, ChallengeTicks)
    /\ nextId' = nextId + 1
    /\ Answer(r)
    /\ UNCHANGED <<account, sessions, issued, tables, step, device, history>>

LoginRight(r) ==
    /\ AtPc(r, "password")
    /\ req[r].pw = account.pw
    /\ Protected => req[r].exempt
    /\ limiter' = Reset(limiter, "ip")
    /\ ToIssue(r, account.epoch, gen.done, <<"password", nextId>>)
    /\ UNCHANGED <<account, sessions, issued, challenges, passkeys, spent, open, public,
                   step, device, nextId, history>>

-----------------------------------------------------------------------------
(* VerifyMFA and FinishPasskeyLogin begin alike: both budgets are asked, the  *)
(* token must parse, and the challenge is spent before the answer is read.    *)
SecondFactorAllowed(r, c, proof) ==
    /\ AtPc(r, "idle")
    /\ Allow(limiter, "ip", Budget)
    /\ Allow(limiter, "mfa", Budget)
    /\ c \in DOMAIN challenges
    /\ Goto(r, [pc |-> "spend", c |-> c, proof |-> proof])
    /\ UNCHANGED <<account, sessions, issued, challenges, tables, step, device, nextId, history>>

(* A token that does not parse (expired here) costs the address an attempt.   *)
SecondFactorUnparsed(r, c) ==
    /\ AtPc(r, "idle")
    /\ Allow(limiter, "ip", Budget)
    /\ c < nextId /\ c \notin DOMAIN challenges /\ c \notin DOMAIN issued
    /\ limiter' = Fail(limiter, "ip", WindowTicks)
    /\ UNCHANGED <<account, sessions, issued, challenges, passkeys, spent, open, public,
                   step, device, req, nextId, history>>

SpendChallenge(r) ==
    /\ AtPc(r, "spend")
    /\ LET c == req[r].c IN
       \/ /\ ~Unspent(spent, c)
          /\ limiter' = FailBoth(limiter, "ip", "mfa", WindowTicks)
          /\ Answer(r)
          /\ UNCHANGED <<spent, tries>>
       \/ /\ Unspent(spent, c)
          /\ spent' = IF c \in DOMAIN challenges THEN With(spent, c, challenges[c]) ELSE spent
          /\ tries' = [tries EXCEPT ![c] = @ + 1]
          /\ Goto(r, [req[r] EXCEPT !.pc = IF req[r].proof.kind = "code" THEN "code" ELSE "assertion"])
          /\ UNCHANGED limiter
    /\ UNCHANGED <<account, sessions, issued, challenges, passkeys, open, public, step, device,
                   nextId, gen, restarts, offered>>

(* consumeTOTP, the reading half: the code must come from a step inside the   *)
(* skew window that is newer than the last one this app was believed with.    *)
MatchTOTP(code) == code \in (step - 1) .. (step + 1)

MatchCode(r) ==
    /\ AtPc(r, "code")
    /\ LET code == req[r].proof.value
           ok   == MatchTOTP(code) /\ code > account.last
       IN \/ /\ ~ok
             /\ limiter' = FailBoth(limiter, "ip", "mfa", WindowTicks)
             /\ Answer(r)
          \/ /\ ok
             /\ Goto(r, [pc |-> "burn", code |-> code, epoch |-> account.epoch, gen |-> gen.done])
             /\ UNCHANGED limiter
    /\ UNCHANGED <<account, sessions, issued, challenges, passkeys, spent, open, public,
                   step, device, nextId, history>>

(* BurnFactorCounter: the watermark moves or the login fails.                 *)
CounterMoves(stored, counter) == stored < counter

Watermark(code) == code

BurnCode(r) ==
    /\ AtPc(r, "burn")
    /\ LET code == req[r].code IN
       \/ /\ CounterMoves(account.last, code)
          /\ account' = [account EXCEPT !.last = Watermark(code)]
          /\ limiter' = Reset(Reset(limiter, "ip"), "mfa")
          /\ ToIssue(r, req[r].epoch, req[r].gen, <<"code", code>>)
       \/ /\ ~CounterMoves(account.last, code)
          /\ limiter' = FailBoth(limiter, "ip", "mfa", WindowTicks)
          /\ Answer(r)
          /\ UNCHANGED account
    /\ UNCHANGED <<sessions, issued, challenges, passkeys, spent, open, public, step, device,
                   nextId, history>>

-----------------------------------------------------------------------------
(* BeginPasskeyLogin: one ceremony per challenge, replaced by a second begin. *)
BeginPasskeyLogin(c) ==
    /\ c \in DOMAIN challenges
    /\ open' = With(open, c, 1)
    /\ UNCHANGED <<account, sessions, issued, challenges, limiter, passkeys, spent, public,
                   step, device, req, nextId, history>>

(* FinishPasskeyLogin after the challenge is spent: the ceremony is taken,    *)
(* the assertion verified against the credential read now.  A counter that    *)
(* did not move is CloneWarning.                                              *)
CloneWarning(sig, stored) == sig <= stored

TakeAssertion(r) ==
    /\ AtPc(r, "assertion")
    /\ LET c   == req[r].c
           sig == req[r].proof.value
           ok  == c \in DOMAIN open /\ ~CloneWarning(sig, account.sign)
       IN /\ open' = Without(open, c)
          /\ \/ /\ ~ok
                /\ limiter' = FailBoth(limiter, "ip", "mfa", WindowTicks)
                /\ Answer(r)
             \/ /\ ok
                /\ Goto(r, [pc |-> "credential", sig |-> sig, epoch |-> account.epoch,
                            gen |-> gen.done, by |-> "passkey"])
                /\ UNCHANGED limiter
    /\ UNCHANGED <<account, sessions, issued, challenges, passkeys, spent, public, step, device,
                   nextId, history>>

(* UpdateCredential writes the credential back without comparing counters;    *)
(* then the budgets are cleared and the session issued.                       *)
StoreCredential(r) ==
    /\ AtPc(r, "credential")
    /\ account' = [account EXCEPT !.sign = req[r].sig]
    /\ \/ /\ req[r].by = "passkey"
          /\ limiter' = Reset(Reset(limiter, "ip"), "mfa")
          /\ UNCHANGED passkeys
       \/ /\ req[r].by = "passwordless"
          /\ passkeys' = Reset(passkeys, "ip")
          /\ UNCHANGED limiter
    /\ ToIssue(r, req[r].epoch, req[r].gen, <<req[r].by, req[r].sig>>)
    /\ UNCHANGED <<sessions, issued, challenges, spent, open, public, step, device, nextId, history>>

(* The authenticator answers a prompt: its counter moves before it is sent.   *)
Sign ==
    /\ device < MaxSig
    /\ device' = device + 1
    /\ UNCHANGED <<account, sessions, issued, challenges, tables, step, req, nextId, history>>

-----------------------------------------------------------------------------
(* BeginPasswordlessLogin: asked, then charged, success or not.               *)
PasswordlessAllowed(r) ==
    /\ AtPc(r, "idle")
    /\ Allow(passkeys, "begin", Budget)
    /\ Goto(r, [pc |-> "begin"])
    /\ UNCHANGED <<account, sessions, issued, challenges, tables, step, device, nextId, history>>

BeginPasswordless(r) ==
    /\ AtPc(r, "begin")
    /\ passkeys' = Fail(passkeys, "begin", WindowTicks)
    /\ \/ /\ nextId <= MaxIds
          /\ HasRoom(public, nextId, PublicLimit)
          /\ public' = With(public, nextId, 1)
          /\ nextId' = nextId + 1
       \/ /\ ~HasRoom(public, nextId, PublicLimit)   \* ErrTooBusy
          /\ UNCHANGED <<public, nextId>>
    /\ Answer(r)
    /\ UNCHANGED <<account, sessions, issued, challenges, limiter, spent, open, step, device, history>>

(* FinishPasswordlessLogin: asked, the ceremony taken, the assertion and the  *)
(* account's own switch checked; what fails is charged.                       *)
PasswordlessFinishAllowed(r, id, sig) ==
    /\ AtPc(r, "idle")
    /\ Allow(passkeys, "ip", Budget)
    /\ id < nextId /\ id \notin DOMAIN issued
    /\ Goto(r, [pc |-> "finish", id |-> id, sig |-> sig])
    /\ UNCHANGED <<account, sessions, issued, challenges, tables, step, device, nextId, history>>

FinishPasswordless(r) ==
    /\ AtPc(r, "finish")
    /\ LET id  == req[r].id
           ok  == id \in DOMAIN public /\ ~CloneWarning(req[r].sig, account.sign) /\ account.passwordless
       IN /\ public' = Without(public, id)
          /\ \/ /\ ~ok
                /\ passkeys' = Fail(passkeys, "ip", WindowTicks)
                /\ Answer(r)
             \/ /\ ok
                /\ Goto(r, [pc |-> "credential", sig |-> req[r].sig, epoch |-> account.epoch,
                            gen |-> gen.done, by |-> "passwordless"])
                /\ UNCHANGED passkeys
    /\ UNCHANGED <<account, sessions, issued, challenges, limiter, spent, open, step, device,
                   nextId, history>>

-----------------------------------------------------------------------------
(* RequireSession: the token parses, its epoch is the account's, its row is   *)
(* still there.                                                               *)
Accepts(s) == s \in DOMAIN issued /\ issued[s].epoch = account.epoch /\ s \in sessions

(* VerifyUserPassword, the step-up of a signed-in request: asked, then        *)
(* checked against the row; wrong spends the step-up budget, right clears it. *)
StepUpAllowed(r, pw, then) ==
    /\ AtPc(r, "idle")
    /\ \E s \in sessions : Accepts(s)
    /\ Allow(limiter, "stepup", Budget)
    /\ Goto(r, [pc |-> "stepup", pw |-> pw, then |-> then])
    /\ UNCHANGED <<account, sessions, issued, challenges, tables, step, device, nextId, history>>

StepUp(r) ==
    /\ AtPc(r, "stepup")
    /\ \/ /\ req[r].pw # account.pw
          /\ limiter' = Fail(limiter, "stepup", WindowTicks)
          /\ Answer(r)
       \/ /\ req[r].pw = account.pw
          /\ limiter' = Reset(limiter, "stepup")
          /\ Goto(r, [pc |-> req[r].then, own |-> TRUE])
    /\ UNCHANGED <<account, sessions, issued, challenges, passkeys, spent, open, public,
                   step, device, nextId, history>>

(* handlePasswordlessSetting after the step-up.                               *)
SetPasswordless(r) ==
    /\ AtPc(r, "switch")
    /\ \E on \in BOOLEAN : account' = [account EXCEPT !.passwordless = on]
    /\ Answer(r)
    /\ UNCHANGED <<sessions, issued, challenges, tables, step, device, nextId, history>>

(* An administrator's reset or the offline --reset-password: no step-up.      *)
ResetPassword(r) ==
    /\ AtPc(r, "idle")
    /\ Goto(r, [pc |-> "update", own |-> FALSE])
    /\ UNCHANGED <<account, sessions, issued, challenges, tables, step, device, nextId, history>>

(* SetPassword: UpdatePassword, DeleteUserSessions, BumpSessionEpoch, three   *)
(* statements with no transaction round them.                                 *)
UpdatePassword(r) ==
    /\ AtPc(r, "update")
    /\ account.pw < MaxPw
    /\ account' = [account EXCEPT !.pw = @ + 1]
    /\ gen' = [gen EXCEPT !.begun = @ + 1]
    /\ Goto(r, [req[r] EXCEPT !.pc = "drop"])
    /\ UNCHANGED <<sessions, issued, challenges, tables, step, device, nextId, tries, restarts, offered>>

DeleteUserSessions(r) ==
    /\ AtPc(r, "drop")
    /\ sessions' = {}
    /\ Goto(r, [req[r] EXCEPT !.pc = "bump"])
    /\ UNCHANGED <<account, issued, challenges, tables, step, device, nextId, history>>

BumpSessionEpoch(r) ==
    /\ AtPc(r, "bump")
    /\ account' = [account EXCEPT !.epoch = @ + 1]
    /\ gen' = [gen EXCEPT !.done = @ + 1]
    /\ IF req[r].own THEN Goto(r, [pc |-> "reload"]) ELSE Answer(r)
    /\ UNCHANGED <<sessions, issued, challenges, tables, step, device, nextId, tries, restarts, offered>>

(* ChangeOwnPassword reloads the row for the new epoch and issues a session.  *)
ReloadOwn(r) ==
    /\ AtPc(r, "reload")
    /\ ToIssue(r, account.epoch, gen.done, <<"password", nextId>>)
    /\ UNCHANGED <<account, sessions, issued, challenges, tables, step, device, nextId, history>>

(* handleLogout and handleDeleteSession: the row goes.                        *)
DeleteSession(s) ==
    /\ s \in sessions
    /\ sessions' = sessions \ {s}
    /\ UNCHANGED <<account, issued, challenges, tables, step, device, req, nextId, history>>

(* handleRevokeOtherSessions: the list is read, then its rows deleted.        *)
ListOthers(r, s) ==
    /\ AtPc(r, "idle")
    /\ Accepts(s)
    /\ Goto(r, [pc |-> "revoke", others |-> sessions \ {s}])
    /\ UNCHANGED <<account, sessions, issued, challenges, tables, step, device, nextId, history>>

RevokeOthers(r) ==
    /\ AtPc(r, "revoke")
    /\ sessions' = sessions \ req[r].others
    /\ Answer(r)
    /\ UNCHANGED <<account, issued, challenges, tables, step, device, nextId, history>>

-----------------------------------------------------------------------------
(* Time passes: windows, challenges, spent entries and ceremonies age, and    *)
(* the authenticator app moves on to its next code.                           *)
Tick ==
    /\ step' = IF step < MaxStep THEN step + 1 ELSE step
    /\ limiter' = AgeWindows(limiter)
    /\ passkeys' = AgeWindows(passkeys)
    /\ challenges' = AgeTable(challenges)
    /\ spent' = AgeTable(spent)
    /\ open' = AgeTable(open)
    /\ public' = AgeTable(public)
    /\ UNCHANGED <<account, sessions, issued, device, req, nextId, history>>

(* A restart: the database stays, everything in memory and in flight goes.    *)
Restart ==
    /\ restarts < MaxRestarts
    /\ restarts' = restarts + 1
    /\ limiter' = [k \in Keys |-> NoWindow]
    /\ passkeys' = [k \in PasskeyKeys |-> NoWindow]
    /\ spent' = <<>> /\ open' = <<>> /\ public' = <<>>
    /\ req' = [r \in Requests |-> Idle]
    /\ tries' = [i \in Ids |-> 0]
    /\ UNCHANGED <<account, sessions, issued, challenges, step, device, nextId, gen, offered>>

RequestStep(r) ==
    \/ IssueSession(r)
    \/ LoginWrong(r) \/ LoginChallenge(r) \/ LoginRight(r)
    \/ SpendChallenge(r) \/ MatchCode(r) \/ BurnCode(r)
    \/ TakeAssertion(r) \/ StoreCredential(r)
    \/ BeginPasswordless(r) \/ FinishPasswordless(r)
    \/ StepUp(r) \/ SetPasswordless(r)
    \/ UpdatePassword(r) \/ DeleteUserSessions(r) \/ BumpSessionEpoch(r) \/ ReloadOwn(r)
    \/ RevokeOthers(r)

Arrive(r) ==
    \/ /\ "login" \in offered
       /\ \E pw \in 0 .. MaxPw : LoginAllowed(r, pw, "localhost" \in offered)
    \/ /\ "code" \in offered
       /\ \E c \in DOMAIN challenges, code \in 1 .. MaxStep :
             SecondFactorAllowed(r, c, [kind |-> "code", value |-> code])
    \/ /\ "passkey" \in offered
       /\ \E c \in DOMAIN challenges, sig \in 1 .. device :
             SecondFactorAllowed(r, c, [kind |-> "assertion", value |-> sig])
    \/ \E c \in Ids : "code" \in offered /\ SecondFactorUnparsed(r, c)
    \/ "passwordless" \in offered /\ PasswordlessAllowed(r)
    \/ /\ "passwordless" \in offered
       /\ \E id \in Ids, sig \in 1 .. device : PasswordlessFinishAllowed(r, id, sig)
    \/ \E pw \in 0 .. MaxPw, then \in {"switch", "update"} \cap offered : StepUpAllowed(r, pw, then)
    \/ "update" \in offered /\ ResetPassword(r)
    \/ \E s \in sessions : "sessions" \in offered /\ ListOthers(r, s)

Next ==
    \/ \E r \in Requests : Arrive(r) \/ RequestStep(r)
    \/ \E c \in Ids : "passkey" \in offered /\ BeginPasskeyLogin(c)
    \/ \E s \in Ids : "sessions" \in offered /\ DeleteSession(s)
    \/ offered \cap {"passkey", "passwordless"} # {} /\ Sign
    \/ Tick
    \/ "restart" \in offered /\ Restart

Spec == Init /\ [][Next]_vars

-----------------------------------------------------------------------------
TypeOK ==
    /\ account \in [pw : 0 .. MaxPw, epoch : 0 .. MaxPw, last : 0 .. MaxStep,
                    sign : 0 .. MaxSig, passwordless : BOOLEAN]
    /\ sessions \subseteq DOMAIN issued
    /\ DOMAIN issued \subseteq Ids
    /\ DOMAIN challenges \subseteq Ids
    /\ limiter \in Windows(Keys)
    /\ passkeys \in Windows(PasskeyKeys)
    /\ step \in 1 .. MaxStep
    /\ device \in 0 .. MaxSig
    /\ nextId \in 1 .. MaxIds + 1
    /\ restarts \in 0 .. MaxRestarts

(* A code of an authenticator app signs in once: two requests that present    *)
(* it at the same moment, each with a challenge of its own, and a retry after *)
(* a restart, get one session between them (consumeTOTP, BurnFactorCounter).  *)
CodeSignsInOnce ==
    \A s, t \in DOMAIN issued :
        issued[s].by[1] = "code" /\ issued[s].by = issued[t].by => s = t

(* As long as it has not expired, a challenge has bought at most one attempt  *)
(* at the second factor, whichever of the two factors is tried and however    *)
(* the requests interleave (spend).                                           *)
ChallengeBuysOneAttempt == \A c \in DOMAIN challenges : tries[c] <= 1

(* What challenge.go says without that condition: each one buys exactly one.  *)
ChallengeNeverBuysTwo == \A c \in Ids : tries[c] <= 1

(* Once a password change has finished, no session whose login read the       *)
(* account before it finished is accepted: not one whose row was inserted     *)
(* after DeleteUserSessions ran, and not when two changes overlap.            *)
PasswordChangeEndsOlder ==
    \A s \in DOMAIN issued : Accepts(s) => issued[s].gen = gen.done

(* The budget holds under concurrency up to the requests already let in: a    *)
(* window never counts more than the budget and one failure for each other    *)
(* request in flight (Allow and Fail are separate calls).                     *)
BudgetHolds ==
    /\ \A k \in Keys : limiter[k].count <= Budget + Cardinality(Requests) - 1
    /\ \A k \in PasskeyKeys : passkeys[k].count <= Budget + Cardinality(Requests) - 1

(* However two sign-ins, a restart and password changes interleave, a code    *)
(* signs in once, a live challenge buys one attempt, a finished password      *)
(* change leaves no older session, and the limiter's budget holds up to the   *)
(* requests already let in (consumeTOTP, spend, SetPassword, Allow).          *)
SignInIsSound ==
    TypeOK /\ CodeSignsInOnce /\ ChallengeBuysOneAttempt /\ PasswordChangeEndsOlder /\ BudgetHolds

(* What passwordless.go says of the counter: it moves forward or the login    *)
(* fails.                                                                     *)
CounterMovesForward == [][account'.sign >= account.sign]_vars
=============================================================================
