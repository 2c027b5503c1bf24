------------------------------ MODULE MCAccess ------------------------------
(* Instances of the four modules about accounts for TLC.  A behaviour is of   *)
(* one of them, chosen at the start, and the other three stand still, so the  *)
(* four state spaces add up and do not multiply.                              *)
EXTENDS Naturals, FiniteSets, TLC

CONSTANTS
    Requests, Protected, Budget, WindowTicks, ChallengeTicks, PublicLimit,
    MaxIds, MaxStep, MaxSig, MaxPw, MaxRestarts,
    MaxFactors, MaxSecrets, Pairing,
    Users, Roles, Sections, Hosts, Areas,
    Databases, Builtins, Records, TlsHosts, Codes, MaxStarts, MaxFaults,
    Parts, SignInWays, AccountWays

VARIABLES part
VARIABLES account, sessions, issued, challenges, limiter, passkeys, spent, open, public,
          step, device, req, nextId, gen, tries, restarts, offered
VARIABLES factors, pending, ceremony, freq, nextSecret
VARIABLES users, roles, roleRows, userRoles, disabled, fallback, areq, offer, made, busy
VARIABLES uPc, uLegacy, uFactors, uIndex, uAudit, uRoles, uLocal, uSecrets, uKeys,
          uTodo, uAccount, uLogin, uSession, uCodes, uHad, uBlocked, uStarts, uFaults

-----------------------------------------------------------------------------
S == INSTANCE SignIn WITH Scenarios <- SignInWays
ASSUME SignInBounds == S!BoundsOK
E == INSTANCE Enrolment WITH Requests <- Pairing
ASSUME EnrolBounds == E!BoundsOK

(* Bodies of the account and role endpoints.                                  *)
TwoEdits == {[sections |-> [s \in Sections |-> "read"], hosts |-> {}],
             [sections |-> [s \in Sections |-> "write"], hosts |-> {CHOOSE h \in Hosts : TRUE}]}
ThreeBodies == {[role |-> "admin", readOnly |-> FALSE, sections |-> {}],
                [role |-> "user", readOnly |-> FALSE, sections |-> {}],
                [role |-> "user", readOnly |-> TRUE, sections |-> Sections]}

A == INSTANCE Accounts WITH Edits <- TwoEdits, Bodies <- ThreeBodies, Scenarios <- AccountWays
ASSUME AccountBounds == A!BoundsOK

U == INSTANCE StartUp WITH
       pc <- uPc, legacy <- uLegacy, factors <- uFactors, index <- uIndex,
       audit <- uAudit, roles <- uRoles, local <- uLocal, secrets <- uSecrets,
       keys <- uKeys, todo <- uTodo, account <- uAccount, login <- uLogin,
       session <- uSession, codes <- uCodes, had <- uHad, blocked <- uBlocked,
       starts <- uStarts, faults <- uFaults
ASSUME StartBounds == U!BoundsOK

(* What older versions left: an authenticator in the old column, a pairing    *)
(* not finished beside a passkey, an authenticator in both places, and one    *)
(* that is paired twice.                                                      *)
Row(i, c) == [id |-> i, app |-> TRUE, counter |-> c]
Passkey(i) == [id |-> i, app |-> FALSE, counter |-> 0]
Old(state, counter) == [state |-> state, counter |-> counter]
LeftBehind ==
    {[legacy |-> Old("on", 1), factors |-> {}, index |-> "none"],
     [legacy |-> Old("asked", 0), factors |-> {Passkey(1)}, index |-> "old"],
     [legacy |-> Old("on", 1), factors |-> {Row(1, 2)}, index |-> "none"],
     [legacy |-> Old("none", 0), factors |-> {Row(1, 1), Passkey(2), Row(3, 2), Passkey(4)}, index |-> "none"]}
TwoRoles == <<"viewer", "operator">>

(* The ways to sign in, each with what interferes with it.                    *)
FourWays == {{"login", "code", "restart"}, {"login", "passkey"},
             {"login", "localhost", "update", "sessions"},
             {"login", "localhost", "switch", "passwordless"}}
PasswordlessOnly == {{"login", "localhost", "switch", "passwordless"}}
CodeOnly == {{"login", "code"}}

(* One administrator's request at a time with much offered, and races of two. *)
One == {CHOOSE r \in Requests : TRUE}
Wide == [ops |-> {"setup", "users", "roles", "settings"}, roles |-> Roles, lanes |-> One]
Directory == [ops |-> {"setup", "users", "roles", "ldap"}, roles |-> {1}, lanes |-> One]
UserRace == [ops |-> {"setup", "users"}, roles |-> {}, lanes |-> Requests]
RoleRace == [ops |-> {"setup", "roles", "ldap"}, roles |-> {1}, lanes |-> Requests]
LoginRace == [ops |-> {"setup", "users", "ldap"}, roles |-> {}, lanes |-> Requests]
AllWays == {Wide, Directory, UserRace, RoleRace}
Races == {UserRace, RoleRace, LoginRace}

-----------------------------------------------------------------------------
(* Requests are interchangeable.                                              *)
Symmetry == Permutations(Requests)

svars == <<account, sessions, issued, challenges, limiter, passkeys, spent, open, public,
           step, device, req, nextId, gen, tries, restarts, offered>>
evars == <<factors, pending, ceremony, freq, nextSecret>>
avars == <<users, roles, roleRows, userRoles, disabled, fallback, areq, offer, made, busy>>
uvars == <<uPc, uLegacy, uFactors, uIndex, uAudit, uRoles, uLocal, uSecrets, uKeys, uTodo,
           uAccount, uLogin, uSession, uCodes, uHad, uBlocked, uStarts, uFaults>>
vars == <<part, svars, evars, avars, uvars>>

Init ==
    /\ part \in Parts
    /\ S!Init /\ E!Init /\ A!Init /\ U!Init
    /\ part # "signin" => offered = CHOOSE w \in SignInWays : TRUE
    /\ part # "accounts" => offer = CHOOSE w \in AccountWays : TRUE
    /\ part # "startup" => uFactors = {}

Next ==
    /\ UNCHANGED part
    /\ \/ part = "signin"    /\ S!Next /\ UNCHANGED <<evars, avars, uvars>>
       \/ part = "enrolment" /\ E!Next /\ UNCHANGED <<svars, avars, uvars>>
       \/ part = "accounts"  /\ A!Next /\ UNCHANGED <<svars, evars, uvars>>
       \/ part = "startup"   /\ U!Next /\ UNCHANGED <<svars, evars, avars>>

Spec == Init /\ [][Next]_vars

-----------------------------------------------------------------------------
(* However two sign-ins, a restart and password changes interleave, a code    *)
(* signs in once, a live challenge buys one attempt, a finished password      *)
(* change leaves no older session, and the limiter's budget holds up to the   *)
(* requests already let in (consumeTOTP, spend, SetPassword, Allow).          *)
SignInIsSound == part = "signin" => S!SignInIsSound

(* However two pairings and removals interleave, an enrolment makes one       *)
(* factor, only a proved password adds one to a protected account, the cap    *)
(* holds up to the pairings that had counted already, and a protected account *)
(* is never left bare (PairPendingFactor, DeleteFactor).                      *)
FactorsAreSound ==
    /\ [](part = "enrolment" =>
            E!TypeOK /\ E!OneFactorPerSecret /\ E!LaterFactorsAreProved /\ E!CapHolds)
    /\ [][E!StaysProtected]_evars

(* Concurrent setups make one account.  Unless requests overlapped, an admin  *)
(* remains, a deleted role is assigned to nobody, the directory's fallback    *)
(* exists and stands in for missing roles only, and a directory login         *)
(* promotes nobody (CreateFirstUser, handleUpdateUser, DeleteRole,            *)
(* ldapLogin).                                                                *)
AdminsRemain ==
    /\ [](part = "accounts" =>
            A!TypeOK /\ A!SetupHappensOnce /\ A!AdminRemains
            /\ A!DeletedRoleGrantsNothing /\ A!FallbackStandsIn)
    /\ [][A!KeepsFallback]_avars
    /\ [][~busy' => A!PromotesAsAsked]_avars

(* The gate permits the union of an account's grants, capped; the hosts it    *)
(* serves are visible, the visible ones usable, and the menu and the profile  *)
(* page show what the gate lets through (checkAccess, ReachableHosts,         *)
(* effectiveSections, handleMyAccess).                                        *)
GrantsAgree ==
    part = "accounts" =>
        A!PermitsIsTheUnion /\ A!NamedHostIsVisible /\ A!VisibleIsUsable
        /\ A!MenuMatchesGate /\ A!AccessExplained

(* Wherever a start or a reset is cut short, no later start fails, no factor  *)
(* is lost and no code valid twice, host keys stay readable, a finished reset *)
(* ends the older sessions and a running server's audit log is redacted       *)
(* (migrateTOTPToFactors, enforceOneFactorPerSecret,                          *)
(* EncryptPlaintextHostKeys, applyResetTo, redactWebhookAudit).               *)
StartsAreSafe == part = "startup" => U!StartsAreSafe

(* Comments of the code that TLC refutes (see the README).                    *)
ChallengeNeverBuysTwo == S!ChallengeNeverBuysTwo
CounterMovesForward == [][account'.sign >= account.sign]_svars
AdminAlwaysRemains == A!AdminAlwaysRemains
DeletedRoleNeverGrants == A!DeletedRoleNeverGrants
RoleStaysAsSet == [][A!PromotesAsAsked]_avars
BuiltinsAreWhole == U!BuiltinsAreWhole
=============================================================================
