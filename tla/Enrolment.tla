------------------------------ MODULE Enrolment ------------------------------
(* Pairing and unpairing the second factors of one account: authenticator     *)
(* apps (handleTOTPSetup, handleTOTPEnable), passkeys (the registration       *)
(* ceremony) and removal (handleDeleteFactor), with the auth_factors table    *)
(* and the pending enrolment kept in the users row.                           *)
(*                                                                            *)
(* The requests hold a session.  The password of a step-up is right or the    *)
(* request ends (VerifyUserPassword, in SignIn), so only the right one is a   *)
(* step here.  Between any two calls of a request others may run: a client    *)
(* that stalls its body holds its request between two of them.                *)
EXTENDS Naturals, FiniteSets

CONSTANTS
    Requests,     \* requests in flight at once
    MaxFactors,   \* maxFactorsPerAccount
    MaxSecrets    \* bound: secrets and credentials generated

VARIABLES
    factors,    \* auth_factors: records [secret, kind, alone, proved]
    pending,    \* users.totp_pending and totp_pending_stepup
    ceremony,   \* the registration ceremony of this user (registrationKey)
    freq,       \* where each request stands
    nextSecret  \* the next random secret or credential id

evars == <<factors, pending, ceremony, freq, nextSecret>>

None == [secret |-> 0, stepUp |-> FALSE]
Ready == [pc |-> "idle", secret |-> 0, stepUp |-> FALSE]

Init ==
    /\ factors = {}
    /\ pending = None
    /\ ceremony = None
    /\ freq = [r \in Requests |-> Ready]
    /\ nextSecret = 1

Move(r, pc, secret, stepUp) ==
    freq' = [freq EXCEPT ![r] = [pc |-> pc, secret |-> secret, stepUp |-> stepUp]]
At(r, pc) == freq[r].pc = pc
Done(r) == freq' = [freq EXCEPT ![r] = Ready]

(* scanUserRow: protection is derived from the table, not stored.             *)
MFAEnabled == factors # {}

CountFactors == Cardinality(factors)

Full == CountFactors >= MaxFactors

(* The row an INSERT makes.  alone and proved are history: whether it was the *)
(* account's only factor, and whether the password was proved for it.         *)
Row(secret, kind, proved) ==
    [secret |-> secret, kind |-> kind, alone |-> factors = {}, proved |-> proved]

-----------------------------------------------------------------------------
(* handleTOTPSetup: no password is asked of an account with nothing to        *)
(* protect; the answer is remembered as stepUp.                               *)
TOTPSetup(r) ==
    /\ At(r, "idle")
    /\ Move(r, "enrol", 0, MFAEnabled)
    /\ UNCHANGED <<factors, pending, ceremony, nextSecret>>

(* BeginTOTPEnrollment and SetTOTPPending: the candidate replaces any other.  *)
BeginTOTPEnrollment(r) ==
    /\ At(r, "enrol")
    /\ nextSecret <= MaxSecrets
    /\ pending' = [secret |-> nextSecret, stepUp |-> freq[r].stepUp]
    /\ nextSecret' = nextSecret + 1
    /\ Done(r)
    /\ UNCHANGED <<factors, ceremony>>

(* ConfirmTOTPEnrollment: the candidate is read, and refused when the account *)
(* has gained protection it was not proved against.                           *)
StaleEnrolment(stepUp) == MFAEnabled /\ ~stepUp

ConfirmTOTPEnrollment(r) ==
    /\ At(r, "idle")
    /\ pending # None
    /\ ~StaleEnrolment(pending.stepUp)
    /\ Move(r, "confirm", pending.secret, pending.stepUp)
    /\ UNCHANGED <<factors, pending, ceremony, nextSecret>>

ConfirmCount(r) ==
    /\ At(r, "confirm")
    /\ IF Full THEN Done(r) ELSE Move(r, "pair", freq[r].secret, freq[r].stepUp)
    /\ UNCHANGED <<factors, pending, ceremony, nextSecret>>

(* PairPendingFactor: a compare-and-swap on the pending secret.               *)
ClaimsAny(secret) == TRUE

Claims(secret) == pending.secret = secret

PairPendingFactor(r) ==
    /\ At(r, "pair")
    /\ \/ /\ Claims(freq[r].secret)
          /\ pending' = None
          /\ factors' = factors \cup {Row(freq[r].secret, "totp", freq[r].stepUp)}
       \/ /\ ~Claims(freq[r].secret)
          /\ UNCHANGED <<factors, pending>>
    /\ Done(r)
    /\ UNCHANGED <<ceremony, nextSecret>>

-----------------------------------------------------------------------------
(* handlePasskeyRegisterBegin, then BeginPasskeyRegistration.                 *)
PasskeyRegisterBegin(r) ==
    /\ At(r, "idle")
    /\ Move(r, "register", 0, MFAEnabled)
    /\ UNCHANGED <<factors, pending, ceremony, nextSecret>>

BeginPasskeyRegistration(r) ==
    /\ At(r, "register")
    /\ \/ /\ Full
          /\ UNCHANGED <<ceremony, nextSecret>>
       \/ /\ ~Full
          /\ nextSecret <= MaxSecrets
          /\ ceremony' = [secret |-> nextSecret, stepUp |-> freq[r].stepUp]
          /\ nextSecret' = nextSecret + 1
    /\ Done(r)
    /\ UNCHANGED <<factors, pending>>

(* FinishPasskeyRegistration: take, the early check, then the body.           *)
FinishPasskeyRegistration(r) ==
    /\ At(r, "idle")
    /\ ceremony # None
    /\ ceremony' = None
    /\ IF StaleEnrolment(ceremony.stepUp)
         THEN UNCHANGED freq
         ELSE Move(r, "body", ceremony.secret, ceremony.stepUp)
    /\ UNCHANGED <<factors, pending, nextSecret>>

(* A ceremony outlives its two minutes: take finds nothing.                   *)
CeremonyExpires ==
    /\ ceremony # None
    /\ ceremony' = None
    /\ UNCHANGED <<factors, pending, freq, nextSecret>>

FinishCount(r) ==
    /\ At(r, "body")
    /\ IF Full THEN Done(r) ELSE Move(r, "create", freq[r].secret, freq[r].stepUp)
    /\ UNCHANGED <<factors, pending, ceremony, nextSecret>>

(* CreateFactor: authorised, or the first; any half-finished enrolment goes.  *)
MayCreate(authorised) == authorised \/ factors = {}

CreateFactor(r) ==
    /\ At(r, "create")
    /\ \/ /\ MayCreate(freq[r].stepUp)
          /\ factors' = factors \cup {Row(freq[r].secret, "webauthn", freq[r].stepUp)}
          /\ pending' = None
       \/ /\ ~MayCreate(freq[r].stepUp)     \* ErrNotFirstFactor
          /\ UNCHANGED <<factors, pending>>
    /\ Done(r)
    /\ UNCHANGED <<ceremony, nextSecret>>

-----------------------------------------------------------------------------
(* handleDeleteFactor: the password is proved, then the DELETE decides.       *)
ProveRemoval(r, f) ==
    /\ At(r, "idle")
    /\ Move(r, "remove", f.secret, TRUE)
    /\ UNCHANGED <<factors, pending, ceremony, nextSecret>>

MayDelete == CountFactors > 1

DeleteFactor(r) ==
    /\ At(r, "remove")
    /\ factors' = IF MayDelete THEN {f \in factors : f.secret # freq[r].secret} ELSE factors
    /\ Done(r)
    /\ UNCHANGED <<pending, ceremony, nextSecret>>

-----------------------------------------------------------------------------
Step(r) ==
    \/ TOTPSetup(r) \/ BeginTOTPEnrollment(r)
    \/ ConfirmTOTPEnrollment(r) \/ ConfirmCount(r) \/ PairPendingFactor(r)
    \/ PasskeyRegisterBegin(r) \/ BeginPasskeyRegistration(r)
    \/ FinishPasskeyRegistration(r) \/ FinishCount(r) \/ CreateFactor(r)
    \/ \E f \in factors : ProveRemoval(r, f)
    \/ DeleteFactor(r)

Next == (\E r \in Requests : Step(r)) \/ CeremonyExpires

Spec == Init /\ [][Next]_evars

-----------------------------------------------------------------------------
(* What the theorems assume of the constants.                                 *)
BoundsOK == IsFiniteSet(Requests) /\ MaxFactors \in Nat \ {0} /\ MaxSecrets \in Nat

Requesting == {"idle", "enrol", "confirm", "pair", "register", "body", "create", "remove"}

TypeOK ==
    /\ factors \subseteq [secret : 1 .. MaxSecrets, kind : {"totp", "webauthn"},
                          alone : BOOLEAN, proved : BOOLEAN]
    /\ pending \in [secret : 0 .. MaxSecrets, stepUp : BOOLEAN]
    /\ ceremony \in [secret : 0 .. MaxSecrets, stepUp : BOOLEAN]
    /\ freq \in [Requests -> [pc : Requesting, secret : 0 .. MaxSecrets, stepUp : BOOLEAN]]
    /\ nextSecret \in 1 .. MaxSecrets + 1

(* A factor is added to an account that already has one only when the         *)
(* password was proved for it, however enrolments begun before and after the  *)
(* account gained its first factor interleave with it.                        *)
LaterFactorsAreProved == \A f \in factors : f.alone \/ f.proved

(* One enrolment makes one factor: no secret is paired twice, whatever number *)
(* of confirmations of it run at once.                                        *)
OneFactorPerSecret == \A f, g \in factors : f.secret = g.secret => f = g

(* A protected account stays protected: no interleaving of removals leaves it *)
(* without a factor.                                                          *)
StaysProtected == factors # {} => factors' # {}
ProtectedStaysProtected == [][StaysProtected]_evars

(* The cap is counted before the insert, so it holds up to the pairings that  *)
(* had counted already.                                                       *)
CapHolds == CountFactors <= MaxFactors - 1 + Cardinality(Requests)
=============================================================================
