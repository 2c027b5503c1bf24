------------------------------- MODULE StartUp ------------------------------
(* Starting the server on a database an older version left behind             *)
(* (cmd/dockercmd, store.Open and its migrations), statement by statement,    *)
(* with `dockercmd --reset-password` opening the same database beside it.     *)
(* Either process can be killed, and any statement can fail, at any point.    *)
(*                                                                            *)
(* One account is modelled, with one authenticator app and its passkeys.  A   *)
(* code is the time step that made it, a password is a version number, a      *)
(* host's TLS key is the sequence of keys it has been sealed under.           *)
EXTENDS Naturals, Sequences, FiniteSets, FiniteSetsExt, Folds, SequencesExt

CONSTANTS
    Databases,   \* what an older version may have left: [legacy, factors, index]
    Builtins,    \* the built-in roles, in the order they are seeded
    Records,     \* webhook.create rows of the audit log
    TlsHosts,    \* hosts that have a TLS key
    Codes,       \* time steps, 1 .. n
    MaxStarts,   \* bound: starts of either process
    MaxFaults    \* bound: kills and failed statements

VARIABLES
    pc,        \* the next statement of each process
    legacy,    \* users.totp_*: [state : {"none", "asked", "on"}, counter]
    factors,   \* auth_factors: rows [id, app, counter]; a passkey has no secret
    index,     \* the unique index on secrets: "none", "old" (not partial), "new"
    audit,     \* what each record holds: "url" or "host"
    roles,     \* the rows of Builtins: "absent", "bare" (no sections), "whole"
    local,     \* a row for the local host exists
    secrets,   \* settings: [jwt, enc], 0 when absent
    keys,      \* hosts.tls_key
    todo,      \* what a process still has to go through in its present loop
    account,   \* users: [pw, epoch]
    login,     \* a sign-in that has read the account and not yet its session
    session,   \* the last session: [pw, epoch, row]
    codes,     \* history: how often each code was accepted
    had,       \* history: the second factors the older version left
    blocked,   \* history: a start failed on the rows it found
    starts, faults

vars == <<pc, legacy, factors, index, audit, roles, local, secrets, keys, todo, account, login,
          session, codes, had, blocked, starts, faults>>
stored == <<legacy, factors, index, audit, roles, local, secrets, keys>>
signedIn == <<account, login, session, codes>>
bounds == <<had, starts, faults>>

Procs == {"server", "cli"}
None == [pw |-> 0, epoch |-> 0, row |-> FALSE]
Apps(rows) == {f \in rows : f.app}
Counters(rows) == {f.counter : f \in Apps(rows)}
ToList(S) == SetToSeq(S)

(* What an older version can have left.  Open made the unique index only      *)
(* after it had emptied the old column and collapsed the rows of a secret, so *)
(* a database that has the index has no authenticator there and none twice.   *)
DatabaseOK(db) ==
    /\ db.legacy \in [state : {"none", "asked", "on"}, counter : {0} \cup Codes]
    /\ db.legacy.state # "on" => db.legacy.counter = 0
    /\ IsFiniteSet(db.factors) /\ db.factors \subseteq [id : Nat \ {0}, app : BOOLEAN, counter : {0} \cup Codes]
    /\ \A f, g \in db.factors : f.id = g.id => f = g
    /\ db.index \in {"none", "old", "new"}
    /\ db.index # "none" => db.legacy.state # "on" /\ \A f, g \in Apps(db.factors) : f = g
BoundsOK ==
    /\ \A db \in Databases : DatabaseOK(db)
    /\ IsFiniteSet(Codes) /\ Codes \subseteq Nat \ {0}
    /\ IsFiniteSet(Records) /\ IsFiniteSet(TlsHosts)
    /\ MaxStarts \in Nat /\ MaxFaults \in Nat

Init ==
    /\ \E db \in Databases :
         /\ legacy = db.legacy /\ factors = db.factors /\ index = db.index
         /\ had = [app |-> db.legacy.state = "on" \/ Apps(db.factors) # {},
                   passkeys |-> db.factors \ Apps(db.factors)]
         /\ codes = [t \in Codes |-> IF t \in Counters(db.factors) \cup {db.legacy.counter} THEN 1 ELSE 0]
    /\ pc = [p \in Procs |-> "down"] /\ todo = [p \in Procs |-> <<>>]
    /\ audit = [r \in Records |-> "url"] /\ roles = [b \in Range(Builtins) |-> "absent"]
    /\ local = FALSE /\ secrets = [jwt |-> 0, enc |-> 0] /\ keys = [h \in TlsHosts |-> <<>>]
    /\ account = [pw |-> 0, epoch |-> 0] /\ login = None /\ session = None
    /\ blocked = FALSE /\ starts = 0 /\ faults = 0

-----------------------------------------------------------------------------
(* Open: the schema and the added columns change no row that exists.          *)
Open(p) ==
    /\ pc[p] \in {"down", "done"} /\ starts < MaxStarts
    /\ pc' = [pc EXCEPT ![p] = "move"] /\ starts' = starts + 1
    /\ UNCHANGED <<stored, signedIn, todo, had, blocked, faults>>

Goto(p, next) == pc' = [pc EXCEPT ![p] = next]

(* A statement the rows do not allow: the start is given up.                  *)
Refused(p) ==
    /\ Goto(p, "down") /\ blocked' = TRUE
    /\ UNCHANGED <<stored, signedIn, todo, bounds>>

(* INSERT ... SELECT and the clearing UPDATE of migrateTOTPToFactors, in one  *)
(* transaction.                                                               *)
Moved(rows) ==
    IF legacy.state # "on" THEN rows
    ELSE rows \cup {[id |-> 1 + Max({0} \cup {f.id : f \in rows}), app |-> TRUE, counter |-> legacy.counter]}
Cleared == [state |-> "none", counter |-> 0]

migrateTOTPToFactors(p) ==
    /\ pc[p] = "move"
    /\ IF index # "none" /\ legacy.state = "on" /\ Apps(factors) # {} THEN Refused(p)
       ELSE /\ factors' = Moved(factors) /\ legacy' = Cleared
            /\ Goto(p, "raise")
            /\ UNCHANGED <<index, audit, roles, local, secrets, keys, signedIn, todo, bounds, blocked>>

(* enforceOneFactorPerSecret: every row of one secret gets the highest        *)
(* watermark, all but the oldest go, and the indexes are made.                *)
Raised(rows) ==
    {IF f.app THEN [f EXCEPT !.counter = Max(Counters(rows))] ELSE f : f \in rows}
CollapsedWhole(rows) == {f \in rows : \A g \in rows : f.app = g.app => f.id <= g.id}
Collapsed(rows) ==
    {f \in rows : f.app => \A g \in Apps(rows) : f.id <= g.id}

enforceOneFactorPerSecret(p) ==
    /\ \/ pc[p] = "raise" /\ factors' = Raised(factors) /\ Goto(p, "collapse") /\ UNCHANGED <<index, blocked>>
       \/ pc[p] = "collapse" /\ factors' = Collapsed(factors) /\ Goto(p, "drop") /\ UNCHANGED <<index, blocked>>
       \/ /\ pc[p] = "drop" /\ index' = (IF index = "old" THEN "none" ELSE index)
          /\ Goto(p, "index") /\ UNCHANGED <<factors, blocked>>
       \/ /\ pc[p] = "index" /\ UNCHANGED factors
          /\ IF Cardinality(Apps(factors)) > 1 /\ index # "new"
             THEN Goto(p, "down") /\ blocked' = TRUE /\ UNCHANGED index
             ELSE Goto(p, "audit") /\ index' = "new" /\ UNCHANGED blocked
    /\ UNCHANGED <<legacy, audit, roles, local, secrets, keys, signedIn, todo, bounds>>

(* redactWebhookAudit: the rows that need it are read first, then rewritten   *)
(* one by one.                                                                *)
Exposed == {r \in Records : audit[r] = "url"}
ToRedact == Exposed

redactWebhookAudit(p) ==
    /\ \/ pc[p] = "audit" /\ todo' = [todo EXCEPT ![p] = ToList(ToRedact)] /\ Goto(p, "redact") /\ UNCHANGED audit
       \/ /\ pc[p] = "redact" /\ todo[p] # <<>>
          /\ audit' = [audit EXCEPT ![Head(todo[p])] = "host"]
          /\ todo' = [todo EXCEPT ![p] = Tail(@)] /\ UNCHANGED pc
       \/ /\ pc[p] = "redact" /\ todo[p] = <<>>
          /\ todo' = [todo EXCEPT ![p] = Builtins] /\ Goto(p, "roles") /\ UNCHANGED audit
    /\ UNCHANGED <<legacy, factors, index, roles, local, secrets, keys, signedIn, bounds, blocked>>

(* seedBuiltinRoles: look, insert the row, then its sections in a transaction *)
(* of their own.  The name is UNIQUE: a row another process inserted since    *)
(* the look ends this start, and the next one finds it.                       *)
seedBuiltinRoles(p) ==
    LET b == Head(todo[p]) IN
    /\ \/ /\ pc[p] = "roles" /\ todo[p] = <<>>
          /\ Goto(p, IF p = "server" THEN "local" ELSE "password") /\ UNCHANGED <<roles, todo>>
       \/ /\ pc[p] = "roles" /\ todo[p] # <<>> /\ UNCHANGED roles
          /\ IF roles[b] = "absent" THEN Goto(p, "insert") /\ UNCHANGED todo
             ELSE todo' = [todo EXCEPT ![p] = Tail(@)] /\ UNCHANGED pc
       \/ /\ pc[p] = "insert" /\ UNCHANGED todo
          /\ IF roles[b] # "absent" THEN Goto(p, "down") /\ UNCHANGED roles
             ELSE roles' = [roles EXCEPT ![b] = "bare"] /\ Goto(p, "sections")
       \/ /\ pc[p] = "sections" /\ roles' = [roles EXCEPT ![b] = "whole"]
          /\ todo' = [todo EXCEPT ![p] = Tail(@)] /\ Goto(p, "roles")
    /\ UNCHANGED <<legacy, factors, index, audit, local, secrets, keys, signedIn, bounds, blocked>>

-----------------------------------------------------------------------------
(* The rest of runServer up to the listener.  EnsureLocalHost.                *)
EnsureLocalHost ==
    /\ pc["server"] = "local" /\ local' = TRUE /\ Goto("server", "jwt")
    /\ UNCHANGED <<legacy, factors, index, audit, roles, secrets, keys, signedIn, todo, bounds, blocked>>

(* loadOrCreateSecret: the stored secret, or a new one that is stored; a new  *)
(* one differs from every older one.                                          *)
Loaded(name) == IF secrets[name] # 0 THEN secrets[name] ELSE starts

loadOrCreateSecret ==
    /\ \/ pc["server"] = "jwt" /\ secrets' = [secrets EXCEPT !.jwt = Loaded("jwt")] /\ Goto("server", "enc")
       \/ pc["server"] = "enc" /\ secrets' = [secrets EXCEPT !.enc = Loaded("enc")] /\ Goto("server", "keys")
    /\ UNCHANGED <<legacy, factors, index, audit, roles, local, keys, signedIn, todo, bounds, blocked>>

(* EncryptPlaintextHostKeys: what the key of now does not open is sealed.     *)
Plaintext == {h \in TlsHosts : keys[h] = <<>> \/ Last(keys[h]) # secrets.enc}

EncryptPlaintextHostKeys ==
    /\ \/ /\ pc["server"] = "keys" /\ todo' = [todo EXCEPT !["server"] = ToList(Plaintext)]
          /\ Goto("server", "seal") /\ UNCHANGED keys
       \/ /\ pc["server"] = "seal" /\ todo["server"] # <<>>
          /\ keys' = [keys EXCEPT ![Head(todo["server"])] = Append(@, secrets.enc)]
          /\ todo' = [todo EXCEPT !["server"] = Tail(@)] /\ UNCHANGED pc
       \/ pc["server"] = "seal" /\ todo["server"] = <<>> /\ Goto("server", "up") /\ UNCHANGED <<keys, todo>>
    /\ UNCHANGED <<legacy, factors, index, audit, roles, local, secrets, signedIn, bounds, blocked>>

-----------------------------------------------------------------------------
(* The running server: a code is accepted by a row whose watermark is below   *)
(* it, and burnt there (BurnFactorCounter).                                   *)
BurnFactorCounter(f, t) ==
    /\ pc["server"] = "up" /\ f.app /\ t > f.counter
    /\ factors' = (factors \ {f}) \cup {[f EXCEPT !.counter = t]}
    /\ codes' = [codes EXCEPT ![t] = @ + 1]
    /\ UNCHANGED <<pc, legacy, index, audit, roles, local, secrets, keys, todo, account, login, session, bounds, blocked>>

(* A sign-in reads the account, and inserts its session later.                *)
ReadAccount ==
    /\ pc["server"] = "up" /\ ~login.row
    /\ login' = [pw |-> account.pw, epoch |-> account.epoch, row |-> TRUE]
    /\ UNCHANGED <<pc, stored, todo, account, session, codes, bounds, blocked>>
CreateSession ==
    /\ pc["server"] = "up" /\ login.row
    /\ session' = login /\ login' = None
    /\ UNCHANGED <<pc, stored, todo, account, codes, bounds, blocked>>

Accepted == session.row /\ session.epoch = account.epoch

(* applyResetTo, three statements.                                            *)
BumpSessionEpoch == account.epoch + 1

applyResetTo ==
    /\ \/ /\ pc["cli"] = "password" /\ account' = [account EXCEPT !.pw = @ + 1]
          /\ Goto("cli", "sessions") /\ UNCHANGED session
       \/ /\ pc["cli"] = "sessions" /\ session' = [session EXCEPT !.row = FALSE]
          /\ Goto("cli", "epoch") /\ UNCHANGED account
       \/ /\ pc["cli"] = "epoch" /\ account' = [account EXCEPT !.epoch = BumpSessionEpoch]
          /\ Goto("cli", "done") /\ UNCHANGED session
    /\ UNCHANGED <<stored, todo, login, codes, bounds, blocked>>

-----------------------------------------------------------------------------
(* The process is killed.                                                     *)
Kill(p) ==
    /\ pc[p] \notin {"down", "done"} /\ faults < MaxFaults /\ faults' = faults + 1
    /\ Goto(p, "down") /\ login' = (IF p = "server" THEN None ELSE login)
    /\ UNCHANGED <<stored, todo, account, session, codes, had, blocked, starts>>

(* A statement fails: the start ends, except that a host key that could not   *)
(* be sealed is only logged.                                                  *)
Fails(p) ==
    /\ pc[p] \notin {"down", "done", "up"} /\ faults < MaxFaults /\ faults' = faults + 1
    /\ Goto(p, IF pc[p] \in {"keys", "seal"} THEN "up" ELSE "down")
    /\ UNCHANGED <<stored, signedIn, todo, had, blocked, starts>>

Next ==
    \/ \E p \in Procs :
         \/ Open(p) \/ migrateTOTPToFactors(p) \/ enforceOneFactorPerSecret(p)
         \/ redactWebhookAudit(p) \/ seedBuiltinRoles(p) \/ Kill(p) \/ Fails(p)
    \/ EnsureLocalHost \/ loadOrCreateSecret \/ EncryptPlaintextHostKeys
    \/ \E f \in factors, t \in Codes : BurnFactorCounter(f, t)
    \/ ReadAccount \/ CreateSession \/ applyResetTo

Spec == Init /\ [][Next]_vars

-----------------------------------------------------------------------------
TypeOK ==
    /\ legacy \in [state : {"none", "asked", "on"}, counter : {0} \cup Codes]
    /\ \A f \in factors : f.id \in Nat \ {0} /\ f.app \in BOOLEAN /\ f.counter \in {0} \cup Codes
    /\ index \in {"none", "old", "new"} /\ audit \in [Records -> {"url", "host"}]
    /\ roles \in [Range(Builtins) -> {"absent", "bare", "whole"}]
    /\ local \in BOOLEAN /\ blocked \in BOOLEAN
    /\ secrets \in [jwt : 0 .. starts, enc : 0 .. starts]
    /\ starts \in 0 .. MaxStarts /\ faults \in 0 .. MaxFaults

(* No code of the authenticator is accepted twice, whatever rows and          *)
(* watermarks the older version left and wherever a migration was cut short.  *)
NoCodeTwice == \A t \in Codes : codes[t] <= 1

(* An account that had a second factor has one at every moment of every       *)
(* start; once the server is up the authenticator is one row, all passkeys    *)
(* are there and the old column is empty.                                     *)
FactorsSurvive ==
    /\ had.app => legacy.state = "on" \/ Apps(factors) # {}
    /\ had.passkeys \subseteq factors
    /\ pc["server"] = "up" => legacy.state = "none" /\ Cardinality(Apps(factors)) = (IF had.app THEN 1 ELSE 0)

(* No rows, of the older version or of a start that was cut short, make a     *)
(* later start fail ("would take the whole installation down on start").      *)
NothingBlocksAStart == ~blocked

(* A host key is plain or sealed once, with the key in the settings, so the   *)
(* server can always read it.                                                 *)
KeysReadable == \A h \in TlsHosts : keys[h] \in {<<>>, <<secrets.enc>>}

(* When the reset command is done no session of an older password is          *)
(* accepted, not even one whose sign-in was under way (applyResetTo).         *)
ResetEndsSessions == pc["cli"] = "done" /\ Accepted => session.pw = account.pw

(* A running server shows no webhook URL in its audit log.                    *)
AuditIsRedacted == pc["server"] = "up" => Exposed = {}

(* Wherever a start or a reset is cut short, no later start fails, no factor  *)
(* is lost and no code valid twice, host keys stay readable, a finished reset *)
(* ends the older sessions and a running server's audit log is redacted       *)
(* (migrateTOTPToFactors, enforceOneFactorPerSecret,                          *)
(* EncryptPlaintextHostKeys, applyResetTo, redactWebhookAudit).               *)
StartsAreSafe ==
    /\ TypeOK /\ NoCodeTwice /\ FactorsSurvive /\ NothingBlocksAStart
    /\ KeysReadable /\ ResetEndsSessions /\ AuditIsRedacted

(* seedBuiltinRoles' comment: it "creates the built-in roles if absent".  A   *)
(* running server has them, with their sections, when nobody is seeding them. *)
BuiltinsAreWhole ==
    pc["server"] = "up" /\ pc["cli"] \in {"down", "done"} =>
        \A b \in Range(Builtins) : roles[b] = "whole"
=============================================================================
