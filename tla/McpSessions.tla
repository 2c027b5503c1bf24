---------------------------- MODULE McpSessions ----------------------------
(* The OAuth side of the MCP server (api/oauth_handlers.go, store/oauth.go,   *)
(* store/mcp_sessions.go, mcp/oauth_token.go and verifyToken): clients        *)
(* register, a signed-in user consents, a code is exchanged for tokens, the   *)
(* refresh token rotates, and sessions, clients and the user are removed.     *)
(*                                                                            *)
(* A handler is a process and each statement or transaction it runs is one    *)
(* step.  Tables are sets of rows; an expiry is the ticks a row has left.     *)
(* Secrets are row ids: nobody presents one that was never handed out, and a  *)
(* form is right or wrong as a whole (client, redirect, resource, verifier).  *)
EXTENDS Naturals

CONSTANTS
    Clients,       \* ids registration may hand out
    Requests,      \* requests that can be in flight at once
    CodeTicks,     \* oauthCodeTTL
    AccessTicks,   \* AccessTokenTTL
    RefreshTicks,  \* oauthRefreshTTL
    MaxCodes,      \* bound: codes issued
    MaxSids,       \* bound: sessions opened
    MaxTokens      \* bound: refresh tokens issued

VARIABLES
    clients,    \* rows of oauth_clients
    codes,      \* rows of oauth_codes
    refresh,    \* rows of oauth_refresh_tokens; sid 0 is session_id ''
    sessions,   \* rows of mcp_oauth_sessions
    access,     \* access tokens signed, handed out and not expired
    held,       \* refresh tokens handed out
    user,       \* the users row exists
    req,        \* where each request stands
    sweep,      \* the next statement of DeleteExpiredOAuth
    next,       \* the next ids
    revoked,    \* history: sessions revoked
    granted     \* history: the consent each session comes from: code, client, scope

mvars == <<clients, codes, refresh, sessions, access, held, user, req, sweep, next, revoked, granted>>
tables == <<clients, codes, refresh, sessions>>
rest == <<user, sweep, revoked>>

Sids == 1 .. MaxSids
NoRequest == [pc |-> "idle"]
ReqAt(r, pc) == req[r].pc = pc
ReqTo(r, to) == req' = [req EXCEPT ![r] = to]
AnswerReq(r) == ReqTo(r, NoRequest)

(* A database from before sessions were tracked may hold a refresh token      *)
(* without one (the session_id column's default).                             *)
Legacy == {[id |-> 1, client |-> c, sid |-> 0, ro |-> FALSE, left |-> RefreshTicks] : c \in Clients}

SessionInit ==
    /\ \/ clients = {} /\ refresh = {}
       \/ \E t \in Legacy : clients = {t.client} /\ refresh = {t}
    /\ held = {t.id : t \in refresh}
    /\ codes = {} /\ sessions = {} /\ access = {}
    /\ user = TRUE
    /\ req = [r \in Requests |-> NoRequest]
    /\ sweep = "codes"
    /\ next = [code |-> 1, token |-> 2, sid |-> 1]
    /\ revoked = {}
    /\ granted = [s \in Sids |-> [code |-> 0, client |-> CHOOSE c \in Clients : TRUE, ro |-> FALSE]]

-----------------------------------------------------------------------------
(* handleOAuthRegister: a random id, so a removed client's is not reused.     *)
Register(c) ==
    /\ c \notin clients
    /\ \A x \in codes \cup refresh \cup sessions \cup access : x.client # c
    /\ clients' = clients \cup {c}
    /\ UNCHANGED <<codes, refresh, sessions, access, held, req, next, granted, rest>>

(* handleOAuthAuthorizeDecision up to the user's "allow": the client is        *)
(* looked up; the browser's session token is only parsed, so the users row     *)
(* need not exist any more.                                                   *)
Authorize(r, c, ro) ==
    /\ ReqAt(r, "idle")
    /\ c \in clients
    /\ ReqTo(r, [pc |-> "code", client |-> c, ro |-> ro])
    /\ UNCHANGED <<tables, access, held, next, granted, rest>>

CreateOAuthCode(r) ==
    /\ ReqAt(r, "code")
    /\ next.code <= MaxCodes
    /\ codes' = codes \cup {[id |-> next.code, client |-> req[r].client, ro |-> req[r].ro,
                             left |-> CodeTicks]}
    /\ next' = [next EXCEPT !.code = @ + 1]
    /\ AnswerReq(r)
    /\ UNCHANGED <<clients, refresh, sessions, access, held, granted, rest>>

(* The next session id, were it derived and not random.                       *)
SameSid == 1

(* randToken(16): the id of a new session.                                    *)
NewSid == next.sid

(* ConsumeOAuthCode, the rows it leaves.                                      *)
CodesWithout(k) == codes \ {k}

(* tokenFromCode: the code is spent whatever the form says.                   *)
TokenFromCode(r, k, right) ==
    /\ ReqAt(r, "idle")
    /\ codes' = CodesWithout(k)
    /\ IF right /\ k.left > 0
       THEN /\ next.sid <= MaxSids
            /\ ReqTo(r, [pc |-> "token", client |-> k.client, ro |-> k.ro, sid |-> NewSid])
            /\ next' = [next EXCEPT !.sid = @ + 1]
            /\ granted' = [granted EXCEPT ![NewSid] = [code |-> k.id, client |-> k.client, ro |-> k.ro]]
       ELSE UNCHANGED <<req, next, granted>>
    /\ UNCHANGED <<clients, refresh, sessions, access, held, rest>>

(* issueTokens: the refresh token's row, then the session's, then the answer. *)
CreateRefreshToken(r) ==
    /\ ReqAt(r, "token")
    /\ next.token <= MaxTokens
    /\ refresh' = refresh \cup {[id |-> next.token, client |-> req[r].client, sid |-> req[r].sid,
                                 ro |-> req[r].ro, left |-> RefreshTicks]}
    /\ next' = [next EXCEPT !.token = @ + 1]
    /\ ReqTo(r, [pc |-> "session", client |-> req[r].client, ro |-> req[r].ro, sid |-> req[r].sid,
                 token |-> next.token])
    /\ UNCHANGED <<clients, codes, sessions, access, held, granted, rest>>

SessionRow(sid, client) == [sid |-> sid, client |-> client, left |-> RefreshTicks]
Access(sid, client, ro) == [sid |-> sid, client |-> client, ro |-> ro, left |-> AccessTicks]

CreateMCPOAuthSession(r) ==
    /\ ReqAt(r, "session")
    /\ sessions' = sessions \cup {SessionRow(req[r].sid, req[r].client)}
    /\ access' = access \cup {Access(req[r].sid, req[r].client, req[r].ro)}
    /\ held' = held \cup {req[r].token}
    /\ AnswerReq(r)
    /\ UNCHANGED <<clients, codes, refresh, next, granted, rest>>

(* A statement of issueTokens or of the consent fails, or the server stops:   *)
(* the caller gets no token, and what was written stays.                      *)
Fault(r) ==
    /\ req[r].pc \in {"code", "token", "session"}
    /\ AnswerReq(r)
    /\ UNCHANGED <<tables, access, held, next, granted, rest>>

-----------------------------------------------------------------------------
(* The delete RotateRefreshToken begins with.                                 *)
RefreshWithout(t) == refresh \ {t}

(* rec.Scope, carried from token to token.                                    *)
ScopeOf(t) == t.ro

(* tokenFromRefresh and RotateRefreshToken, one transaction: a presented      *)
(* token is consumed; an expired one or a wrong form buys nothing; otherwise  *)
(* its session is touched, or created when the row is missing or the token    *)
(* names none, and a new pair is issued.                                      *)
RotateRefused(t, right) ==
    /\ t.id \in held
    /\ ~right \/ t.left = 0
    /\ refresh' = RefreshWithout(t)
    /\ UNCHANGED <<clients, codes, sessions, access, held, req, next, granted, rest>>

RotateRefreshToken(t) ==
    LET sid == IF t.sid = 0 THEN NewSid ELSE t.sid
    IN  /\ t.id \in held /\ t.left > 0
        /\ next.token <= MaxTokens
        /\ sid \in Sids
        /\ refresh' = RefreshWithout(t) \cup
                        {[t EXCEPT !.id = next.token, !.sid = sid, !.ro = ScopeOf(t), !.left = RefreshTicks]}
        /\ sessions' = IF \E x \in sessions : x.sid = sid
                       THEN {IF x.sid = sid THEN [x EXCEPT !.left = RefreshTicks] ELSE x : x \in sessions}
                       ELSE sessions \cup {SessionRow(sid, t.client)}
        /\ access' = access \cup {Access(sid, t.client, ScopeOf(t))}
        /\ held' = held \cup {next.token}
        /\ next' = [next EXCEPT !.token = @ + 1, !.sid = IF t.sid = 0 THEN @ + 1 ELSE @]
        /\ granted' = IF t.sid = 0
                      THEN [granted EXCEPT ![sid] = [code |-> 0, client |-> t.client, ro |-> t.ro]]
                      ELSE granted
        /\ UNCHANGED <<clients, codes, req, rest>>

-----------------------------------------------------------------------------
(* verifyToken for a signed token: it is valid, its user exists; then its     *)
(* client exists; then its session does.  late and orphan are history: what   *)
(* had been removed before the request arrived.                               *)
VerifyUser(r, a) ==
    /\ ReqAt(r, "idle")
    /\ user
    /\ ReqTo(r, [pc |-> "client", client |-> a.client, sid |-> a.sid, ro |-> a.ro,
                 late |-> a.sid \in revoked, orphan |-> a.client \notin clients])
    /\ UNCHANGED <<tables, access, held, next, granted, rest>>

(* OAuthClientByID.                                                           *)
ClientExists(c) == c \in clients

VerifyClient(r) ==
    /\ ReqAt(r, "client")
    /\ IF ClientExists(req[r].client) THEN ReqTo(r, [req[r] EXCEPT !.pc = "exists"]) ELSE AnswerReq(r)
    /\ UNCHANGED <<tables, access, held, next, granted, rest>>

(* MCPOAuthSessionExists: the row, whatever its expiry.                       *)
SessionExists(s) == \E x \in sessions : x.sid = s

VerifySession(r) ==
    /\ ReqAt(r, "exists")
    /\ IF SessionExists(req[r].sid)
       THEN ReqTo(r, [req[r] EXCEPT !.pc = "run"]) ELSE AnswerReq(r)
    /\ UNCHANGED <<tables, access, held, next, granted, rest>>

(* The tool call the token was presented for.                                 *)
Run(r) ==
    /\ ReqAt(r, "run")
    /\ AnswerReq(r)
    /\ UNCHANGED <<tables, access, held, next, granted, rest>>

-----------------------------------------------------------------------------
(* A revocation that deletes the session's row alone.                         *)
TokensAfterRevokeKept(s) == refresh

(* deleteMCPOAuthSessionTx: the refresh tokens left by a revocation.          *)
TokensAfterRevoke(s) == {t \in refresh : t.sid # s}

(* RevokeMCPOAuthSession and AdminRevokeMCPOAuthSession.                      *)
Revoke(s) ==
    /\ \E x \in sessions : x.sid = s
    /\ sessions' = {x \in sessions : x.sid # s}
    /\ refresh' = TokensAfterRevoke(s)
    /\ revoked' = revoked \cup {s}
    /\ UNCHANGED <<clients, codes, access, held, user, req, sweep, next, granted>>

(* DeleteOAuthClient, one transaction.                                        *)
DeleteOAuthClient(c) ==
    /\ c \in clients
    /\ clients' = clients \ {c}
    /\ codes' = {x \in codes : x.client # c}
    /\ refresh' = {x \in refresh : x.client # c}
    /\ sessions' = {x \in sessions : x.client # c}
    /\ UNCHANGED <<access, held, user, req, sweep, next, revoked, granted>>

(* The user's account is deleted: no table of this module is touched.         *)
DeleteUser ==
    /\ user' = FALSE
    /\ UNCHANGED <<tables, access, held, req, sweep, next, revoked, granted>>

(* DeleteExpiredOAuth, one statement at a time.                               *)
Fresh(rows) == {x \in rows : x.left > 0}

SweepStatement ==
    /\ \/ sweep = "codes"    /\ codes' = Fresh(codes)       /\ UNCHANGED <<refresh, sessions>>
       \/ sweep = "refresh"  /\ refresh' = Fresh(refresh)   /\ UNCHANGED <<codes, sessions>>
       \/ sweep = "sessions" /\ sessions' = Fresh(sessions) /\ UNCHANGED <<codes, refresh>>
    /\ sweep' = CASE sweep = "codes" -> "refresh" [] sweep = "refresh" -> "sessions" [] OTHER -> "codes"
    /\ UNCHANGED <<clients, access, held, user, req, next, revoked, granted>>

Older(rows) == {[x EXCEPT !.left = IF @ > 0 THEN @ - 1 ELSE 0] : x \in rows}

Tick ==
    /\ codes' = Older(codes)
    /\ refresh' = Older(refresh)
    /\ sessions' = Older(sessions)
    /\ access' = Fresh(Older(access))
    /\ UNCHANGED <<clients, held, user, req, sweep, next, revoked, granted>>

Step(r) ==
    \/ \E c \in Clients, ro \in BOOLEAN : Authorize(r, c, ro)
    \/ CreateOAuthCode(r)
    \/ \E k \in codes, right \in BOOLEAN : TokenFromCode(r, k, right)
    \/ CreateRefreshToken(r)
    \/ CreateMCPOAuthSession(r)
    \/ Fault(r)
    \/ \E a \in access : VerifyUser(r, a)
    \/ VerifyClient(r)
    \/ VerifySession(r)
    \/ Run(r)

SessionNext ==
    \/ \E r \in Requests : Step(r)
    \/ \E c \in Clients : Register(c)
    \/ \E t \in refresh : RotateRefreshToken(t) \/ \E right \in BOOLEAN : RotateRefused(t, right)
    \/ \E s \in Sids : Revoke(s)
    \/ \E c \in Clients : DeleteOAuthClient(c)
    \/ DeleteUser
    \/ SweepStatement
    \/ Tick

SessionSpec == SessionInit /\ [][SessionNext]_mvars

-----------------------------------------------------------------------------
(* The bounds' values make sense: a row is written with time left, and there  *)
(* is an id for the refresh token a database may start with.                  *)
BoundsOK ==
    /\ Clients # {}
    /\ {CodeTicks, AccessTicks, RefreshTicks, MaxTokens} \subseteq Nat \ {0}
    /\ {MaxCodes, MaxSids} \subseteq Nat
ASSUME SessionBounds == BoundsOK

(* A request: idle, consenting, exchanging a code, or presenting a token.     *)
Coding == [pc : {"code"}, client : Clients, ro : BOOLEAN]
Exchanging == [pc : {"token"}, client : Clients, ro : BOOLEAN, sid : Sids]
Issuing == [pc : {"session"}, client : Clients, ro : BOOLEAN, sid : Sids, token : 1 .. MaxTokens]
Verifying == [pc : {"client", "exists", "run"}, client : Clients, sid : Sids, ro : BOOLEAN,
              late : BOOLEAN, orphan : BOOLEAN]
Minting(r) == ReqAt(r, "token") \/ ReqAt(r, "session")

SessionTypeOK ==
    /\ clients \subseteq Clients
    /\ codes \subseteq [id : 1 .. MaxCodes, client : Clients, ro : BOOLEAN, left : 0 .. CodeTicks]
    /\ refresh \subseteq [id : 1 .. MaxTokens, client : Clients, sid : 0 .. MaxSids, ro : BOOLEAN,
                          left : 0 .. RefreshTicks]
    /\ sessions \subseteq [sid : Sids, client : Clients, left : 0 .. RefreshTicks]
    /\ access \subseteq [sid : Sids, client : Clients, ro : BOOLEAN, left : 1 .. AccessTicks]
    /\ held \subseteq 1 .. MaxTokens
    /\ user \in BOOLEAN
    /\ req \in [Requests -> {NoRequest} \cup Coding \cup Exchanging \cup Issuing \cup Verifying]
    /\ sweep \in {"codes", "refresh", "sessions"}
    /\ next \in [code : 1 .. MaxCodes + 1, token : 2 .. MaxTokens + 1, sid : 1 .. MaxSids + 1]
    /\ revoked \subseteq Sids
    /\ granted \in [Sids -> [code : 0 .. MaxCodes, client : Clients, ro : BOOLEAN]]

(* A session that something can still use or renew: its row, its refresh      *)
(* token, or the request that is writing them.                                *)
Alive(s) ==
    \/ \E x \in sessions : x.sid = s
    \/ \E t \in refresh : t.sid = s
    \/ \E r \in Requests : Minting(r) /\ req[r].sid = s

(* A revoked session stays revoked: its row and every refresh token that      *)
(* could recreate the row are gone together (deleteMCPOAuthSessionTx).        *)
RevokedIsDead == \A s \in revoked : ~Alive(s)

(* A request that arrives after its session was revoked runs nothing, however *)
(* long its signed token is still valid (verifyToken).                        *)
RevokedIsRefused == \A r \in Requests : ReqAt(r, "run") => ~req[r].late

(* A request that arrives after its client was removed runs nothing, even     *)
(* when an exchange in flight wrote its session after the removal.            *)
OrphanIsRefused == \A r \in Requests : ReqAt(r, "run") => ~req[r].orphan

(* A session has one refresh token at most, so a copied one works once        *)
(* (RotateRefreshToken).                                                      *)
OneTokenPerSession ==
    \A t1, t2 \in refresh : t1.sid = t2.sid /\ t1.sid # 0 => t1 = t2

(* A code opens one session (ConsumeOAuthCode).                               *)
CodeOpensOne ==
    \A s1, s2 \in Sids : granted[s1].code = granted[s2].code /\ granted[s1].code # 0 => s1 = s2

(* What the user consented to is what every later token of the session may    *)
(* do, through every rotation.                                                *)
ScopeKept == \A a \in access : a.ro = granted[a.sid].ro

(* A revoked session cannot be renewed, and a request later than the          *)
(* revocation of its session or the removal of its client is refused; a code  *)
(* opens one session, a session has one refresh token at most, and rotation   *)
(* keeps the scope (deleteMCPOAuthSessionTx, verifyToken, RotateRefreshToken, *)
(* ConsumeOAuthCode).                                                         *)
SessionsEndForGood ==
    /\ SessionTypeOK /\ RevokedIsDead /\ RevokedIsRefused /\ OrphanIsRefused
    /\ OneTokenPerSession /\ CodeOpensOne /\ ScopeKept

(* Removing a client "immediately severs every credential derived from it"    *)
(* (DeleteOAuthClient's comment).                                             *)
RemovedClientHoldsNothing == \A x \in codes \cup refresh \cup sessions : x.client \in clients

-----------------------------------------------------------------------------
(* The life of a session, as SessionLife tells it.                            *)
LifeOf ==
    [s \in Sids |-> IF Alive(s) THEN "live" ELSE IF s < next.sid THEN "dead" ELSE "unborn"]

Life == INSTANCE SessionLife WITH life <- LifeOf

(* The tables and their handlers implement SessionLife: a session opens once, *)
(* ends once, and nothing brings an ended one back.                           *)
LifeOnce == Life!Init /\ [][Life!Next]_LifeOf
=============================================================================
