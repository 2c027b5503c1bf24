------------------------------ MODULE McpGate ------------------------------
(* API tokens of the MCP server and the gate every tool call passes           *)
(* (api/mcp_token_handlers.go, store/api_tokens.go, store/mcp_policy.go,      *)
(* mcp/server.go, mcp/ratelimit.go and the control tools of tools_parity.go   *)
(* and tools_control.go).  One user owns every token here: the limiter's      *)
(* bucket is per user, so calls under different tokens meet in it.            *)
(*                                                                            *)
(* A call is a process: verifyToken resolves its principal, authorize checks  *)
(* and charges it, a batch is charged for the containers beyond the first,    *)
(* and only then does Docker see it.  Host 0 is the local daemon.             *)
EXTENDS Integers, FiniteSets

CONSTANTS
    Calls,         \* calls that can be in flight at once
    Hosts,         \* ids of remote hosts
    Sections,      \* sections a tool asks for
    Batches,       \* containers a control tool may name
    Scenarios,     \* what a behaviour is offered: [ops, policies, rights, bodies, tools, lanes]
    Burst,         \* controlBurst
    DefaultDays,   \* defaultMCPTokenDays
    DefaultMax,    \* defaultMCPTokenMaxDays
    AbsoluteMax,   \* absoluteMaxTokenDays
    WrapDays,      \* days at which an int64 of nanoseconds overflows
    MaxIds,        \* bound: tokens minted
    MaxTime        \* bound: refill steps counted

(* Requests and rows as they are decoded: numbers of days may be anything.    *)
RightsType == [ro : BOOLEAN, sections : SUBSET Sections, hosts : SUBSET Int]
PolicyType == [default : Int, max : Int, unlimited : BOOLEAN]
BodyType == [ro : BOOLEAN, sections : SUBSET Sections, hosts : SUBSET Int, days : Int, never : BOOLEAN]
ToolType == [section : Sections, write : BOOLEAN, host : Int, n : Nat]

ASSUME LifetimesFit ==
    /\ {DefaultDays, DefaultMax, AbsoluteMax, WrapDays} \subseteq Nat
    /\ 0 < DefaultDays /\ DefaultDays <= DefaultMax /\ DefaultMax <= AbsoluteMax
    /\ AbsoluteMax < WrapDays
ASSUME BoundsFit ==
    /\ IsFiniteSet(Calls) /\ Hosts \subseteq Int
    /\ Burst \in Nat /\ MaxIds \in Nat /\ MaxTime \in Nat
ASSUME OffersFit ==
    \A s \in Scenarios :
        /\ s.rights \subseteq RightsType /\ s.policies \subseteq PolicyType
        /\ s.bodies \subseteq BodyType /\ s.tools \subseteq ToolType /\ s.lanes \subseteq Calls

VARIABLES
    owner,     \* the user's rights: [ro, sections, hosts]; no hosts = every host
    tokens,    \* rows of api_tokens
    policy,    \* the stored MCPTokenPolicy
    bucket,    \* controlLimiter.buckets[user]: [units, tripped]
    call,      \* where each call stands
    offer,     \* the scenario
    spent,     \* history: containers changed
    time,      \* history: units time has refilled
    marks      \* history: refused and marked since a unit was last granted, and
               \* the marks since a change last ran (counted up to 2)

gvars == <<owner, tokens, policy, bucket, call, offer, spent, time, marks>>
Idle == [pc |-> "idle"]
AtPc(c, pc) == call[c].pc = pc
Goto(c, to) == call' = [call EXCEPT ![c] = to]
Answer(c) == Goto(c, Idle)

Init ==
    /\ offer \in Scenarios
    /\ owner \in offer.rights
    /\ tokens = {}
    /\ policy = [default |-> DefaultDays, max |-> DefaultMax, unlimited |-> FALSE]
    /\ bucket = [units |-> Burst, tripped |-> FALSE]
    /\ call = [c \in Calls |-> Idle]
    /\ spent = 0 /\ time = 0
    /\ marks = [refused |-> FALSE, marked |-> FALSE, count |-> 0]

-----------------------------------------------------------------------------
(* normalizeMCPTokenPolicy without the ceiling a forbidden "never" needs.     *)
NormalizeNoCeiling(p) ==
    LET default == IF p.default <= 0 THEN DefaultDays ELSE p.default
        max     == IF p.max < 0 THEN 0 ELSE p.max
    IN  [p EXCEPT !.max = max, !.default = IF max > 0 /\ default > max THEN max ELSE default]

(* normalizeMCPTokenPolicy.                                                   *)
NormalizeMCPTokenPolicy(p) ==
    LET default == IF p.default <= 0 THEN DefaultDays ELSE p.default
        max     == IF p.max > 0 THEN p.max ELSE IF p.unlimited THEN 0 ELSE DefaultMax
    IN  [p EXCEPT !.max = max, !.default = IF max > 0 /\ default > max THEN max ELSE default]

(* handleAdminSetMCPTokenPolicy.                                              *)
SetMCPTokenPolicy(p) ==
    /\ policy' = NormalizeMCPTokenPolicy(p)
    /\ UNCHANGED <<owner, tokens, bucket, call, offer, spent, time, marks>>

(* time.Duration(days) * 24h: int64 arithmetic, counted in days.              *)
Duration(days) == ((days + WrapDays) % (2 * WrapDays)) - WrapDays

(* The lifetime a request gets, in days; 0 is "never".                        *)
Days(b) == IF b.never THEN 0 ELSE IF b.days <= 0 THEN policy.default ELSE b.days

(* ResolveExpiry grants the lifetime (and does not return an error).          *)
Resolves(b) ==
    IF b.never THEN policy.unlimited
    ELSE (policy.max = 0 \/ Days(b) <= policy.max) /\ Days(b) <= AbsoluteMax

(* A scope that filters down to nothing is refused, not minted unrestricted.  *)
Scoped(b) == b.sections # {} => b.sections \cap owner.sections # {}

(* cleanHostIDs, and the refusal of a list without a valid id.                *)
CleanHostIDs(b) == b.hosts \cap Hosts
HostsValid(b) == b.hosts # {} => CleanHostIDs(b) # {}

(* A token as minted, with the request and the policy that gave it (history). *)
Minted(b) ==
    [id |-> Cardinality(tokens) + 1, sections |-> b.sections \cap owner.sections,
     hosts |-> CleanHostIDs(b), ro |-> b.ro \/ owner.ro,
     left |-> IF b.never THEN 0 ELSE Duration(Days(b)), never |-> b.never, revoked |-> FALSE,
     by |-> [body |-> b, policy |-> policy, ro |-> owner.ro, left |-> Duration(Days(b))]]

(* handleCreateMCPToken.                                                      *)
CreateMCPToken(b) ==
    /\ Cardinality(tokens) < MaxIds
    /\ Scoped(b) /\ HostsValid(b) /\ Resolves(b)
    /\ tokens' = tokens \cup {Minted(b)}
    /\ UNCHANGED <<owner, policy, bucket, call, offer, spent, time, marks>>

(* RevokeAPIToken and AdminRevokeAPIToken.                                    *)
RevokeAPIToken(t) ==
    /\ ~t.revoked
    /\ tokens' = (tokens \ {t}) \cup {[t EXCEPT !.revoked = TRUE]}
    /\ UNCHANGED <<owner, policy, bucket, call, offer, spent, time, marks>>

(* An administrator changes the owner's account or roles.                     *)
SetOwner(o) ==
    /\ owner' = o
    /\ UNCHANGED <<tokens, policy, bucket, call, offer, spent, time, marks>>

-----------------------------------------------------------------------------
(* scanAPITokenRow: host_ids is read from the row but not put into the token. *)
ScannedHosts(t) == {}

(* The same with the column decoded, as ListAllAPITokens does it.             *)
DecodedHosts(t) == t.hosts

(* APITokenByHash and Expired: the token is live.                             *)
Live(t) == ~t.revoked /\ (t.never \/ t.left > 0)

(* verifyToken for an opaque token: the principal carries the users row it    *)
(* read and the token's narrowing.  tool is [section, write, host, n].        *)
VerifyToken(c, t, tool) ==
    /\ AtPc(c, "idle")
    /\ Live(t)
    /\ Goto(c, [pc |-> "authorize", token |-> t.id, tool |-> tool, ro |-> t.ro,
                scopes |-> t.sections, hosts |-> ScannedHosts(t), user |-> owner])
    /\ UNCHANGED <<owner, tokens, policy, bucket, offer, spent, time, marks>>

(* principal.narrowed.                                                        *)
Narrowed(p) ==
    /\ p.tool.write => ~p.ro
    /\ p.scopes = {} \/ p.tool.section \in p.scopes
    /\ p.tool.host = 0 \/ p.hosts = {} \/ p.tool.host \in p.hosts

(* CheckAccess, as Accounts has it: the section, its level and the host.      *)
CheckAccess(o, tool) ==
    /\ tool.section \in o.sections
    /\ tool.write => ~o.ro
    /\ tool.host = 0 \/ o.hosts = {} \/ tool.host \in o.hosts

(* controlLimiter.reserve: all n units or none.                               *)
Enough(n) == bucket.units >= n
Reserve(n) == [units |-> bucket.units - n, tripped |-> FALSE]
Grant(n) ==
    /\ bucket' = Reserve(n)
    /\ marks' = [marks EXCEPT !.refused = FALSE, !.marked = FALSE]

(* A refusal, and the one line an episode leaves in the audit log.            *)
Refuse(c) ==
    /\ bucket' = [bucket EXCEPT !.tripped = TRUE]
    /\ marks' = [refused |-> TRUE, marked |-> marks.marked \/ ~bucket.tripped,
                 count |-> IF bucket.tripped \/ marks.count = 2 THEN marks.count ELSE marks.count + 1]
    /\ Answer(c)

(* authorizeCharged: narrowing, the owner's rights, and for a write one unit. *)
Denied(c) ==
    /\ AtPc(c, "authorize")
    /\ ~Narrowed(call[c]) \/ ~CheckAccess(call[c].user, call[c].tool)
    /\ Answer(c)
    /\ UNCHANGED <<owner, tokens, policy, bucket, offer, spent, time, marks>>

Authorized(c) ==
    /\ AtPc(c, "authorize")
    /\ Narrowed(call[c]) /\ CheckAccess(call[c].user, call[c].tool)
    /\ IF ~call[c].tool.write
       THEN Goto(c, [call[c] EXCEPT !.pc = "read"]) /\ UNCHANGED <<bucket, marks>>
       ELSE \/ /\ Enough(1)
               /\ Grant(1)
               /\ Goto(c, [call[c] EXCEPT !.pc = "charge"])
            \/ ~Enough(1) /\ Refuse(c)
    /\ UNCHANGED <<owner, tokens, policy, offer, spent, time>>

(* chargeAdditionalContainers that charges nothing.                           *)
ExtraFree(n) == 0

(* chargeAdditionalContainers: the units beyond authorize's.                  *)
Extra(n) == n - 1

(* A batch no bucket can hold is refused for good.                            *)
NeverFits(n) == n > Burst

(* stackActionTool and stackContainersActionTool: charge, then act.           *)
Charge(c) ==
    LET n == call[c].tool.n
    IN  /\ AtPc(c, "charge")
        /\ \/ /\ Extra(n) <= 0
              /\ Goto(c, [call[c] EXCEPT !.pc = "act"])
              /\ UNCHANGED <<bucket, marks>>
           \/ /\ Extra(n) > 0 /\ NeverFits(n)
              /\ Answer(c)
              /\ UNCHANGED <<bucket, marks>>
           \/ /\ Extra(n) > 0 /\ ~NeverFits(n) /\ Enough(Extra(n))
              /\ Grant(Extra(n))
              /\ Goto(c, [call[c] EXCEPT !.pc = "act"])
           \/ /\ Extra(n) > 0 /\ ~NeverFits(n) /\ ~Enough(Extra(n))
              /\ Refuse(c)
        /\ UNCHANGED <<owner, tokens, policy, offer, spent, time>>

(* Docker does it; a read ends here too.                                      *)
Act(c) ==
    /\ call[c].pc \in {"act", "read"}
    /\ Answer(c)
    /\ spent' = IF AtPc(c, "act") THEN spent + call[c].tool.n ELSE spent
    /\ marks' = IF AtPc(c, "act") THEN [marks EXCEPT !.count = 0] ELSE marks
    /\ UNCHANGED <<owner, tokens, policy, bucket, offer, time>>

(* reserve's refill: up to the burst.                                         *)
Topped(units) == IF units < Burst THEN units + 1 ELSE Burst

(* controlRefill passes.                                                      *)
Refill ==
    /\ time < MaxTime
    /\ time' = time + 1
    /\ bucket' = [bucket EXCEPT !.units = Topped(@)]
    /\ UNCHANGED <<owner, tokens, policy, call, offer, spent, marks>>

(* A day passes: lifetimes run, and the bucket is full again.                 *)
Aged(t) == [t EXCEPT !.left = IF @ > 0 THEN @ - 1 ELSE @]
Day ==
    /\ time + Burst <= MaxTime
    /\ time' = time + Burst
    /\ bucket' = [bucket EXCEPT !.units = Burst]
    /\ tokens' = {Aged(t) : t \in tokens}
    /\ UNCHANGED <<owner, policy, call, offer, spent, marks>>

Next ==
    \/ "policy" \in offer.ops /\ \E p \in offer.policies : SetMCPTokenPolicy(p)
    \/ \E b \in offer.bodies : CreateMCPToken(b)
    \/ "revoke" \in offer.ops /\ \E t \in tokens : RevokeAPIToken(t)
    \/ \E o \in offer.rights : SetOwner(o)
    \/ \E c \in offer.lanes, t \in tokens, tool \in offer.tools : VerifyToken(c, t, tool)
    \/ \E c \in Calls : Denied(c) \/ Authorized(c) \/ Charge(c) \/ Act(c)
    \/ "refill" \in offer.ops /\ Refill
    \/ "day" \in offer.ops /\ Day

Spec == Init /\ [][Next]_gvars

-----------------------------------------------------------------------------
TokenType ==
    [id : 1 .. MaxIds, sections : SUBSET Sections, hosts : SUBSET Hosts, ro : BOOLEAN,
     left : Int, never : BOOLEAN, revoked : BOOLEAN,
     by : [body : BodyType, policy : PolicyType, ro : BOOLEAN, left : Int]]
Underway ==
    [pc : {"authorize", "charge", "act", "read"}, token : 1 .. MaxIds, tool : ToolType, ro : BOOLEAN,
     scopes : SUBSET Sections, hosts : SUBSET Hosts, user : RightsType]

TypeOK ==
    /\ offer \in Scenarios /\ owner \in RightsType /\ policy \in PolicyType
    /\ policy.default > 0 /\ policy.max >= 0
    /\ bucket \in [units : 0 .. Burst, tripped : BOOLEAN]
    /\ marks \in [refused : BOOLEAN, marked : BOOLEAN, count : 0 .. 2]
    /\ call \in [Calls -> {Idle} \cup Underway]
    /\ spent \in Nat /\ time \in 0 .. MaxTime
    /\ tokens \subseteq TokenType
    /\ \A t, u \in tokens : t.id = u.id => t = u

Row(id) == CHOOSE t \in tokens : t.id = id
Passed(c) == call[c].pc \in {"charge", "act", "read"}

(* A call that got through is within its token's sections and level and was   *)
(* within its owner's rights when the token was presented (narrowed,          *)
(* checkAccess).                                                              *)
TokenOnlyNarrows ==
    \A c \in Calls : Passed(c) =>
        LET t == Row(call[c].token)
            tool == call[c].tool
        IN  /\ t.sections # {} => tool.section \in t.sections
            /\ tool.write => ~t.ro
            /\ CheckAccess(call[c].user, tool)

(* A token that names hosts "restricts the token to a subset of Docker hosts" *)
(* (api_tokens.go).                                                           *)
TokenHostsRespected ==
    \A c \in Calls : Passed(c) =>
        LET t == Row(call[c].token)
        IN  call[c].tool.host # 0 /\ t.hosts # {} => call[c].tool.host \in t.hosts

(* A token lives as long as the administrator's policy of its day allows, and *)
(* not a day less than asked for: no overflow, no "never" that was forbidden  *)
(* (ResolveExpiry, normalizeMCPTokenPolicy).                                  *)
LifetimeAsGranted ==
    \A t \in tokens :
        LET asked == t.by.body
            p     == t.by.policy
        IN  /\ asked.never => p.unlimited
            /\ ~asked.never => /\ t.by.left > 0 /\ t.by.left <= AbsoluteMax
                               /\ asked.days > 0 => t.by.left = asked.days
                               /\ ~p.unlimited => p.max > 0
                               /\ p.max > 0 => t.by.left <= p.max

(* A request to narrow is narrowed or refused, and never widened to "all of   *)
(* the owner's sections" (handleCreateMCPToken).                              *)
NarrowingNeverWidens ==
    \A t \in tokens :
        /\ t.by.body.sections # {} => t.sections # {} /\ t.sections \subseteq t.by.body.sections
        /\ t.by.ro => t.ro

(* However many calls and tokens a user has in flight, the containers changed *)
(* never exceed one burst and what time has refilled (reserve,                *)
(* chargeAdditionalContainers).                                               *)
BlastRadius ==
    spent + bucket.units <= Burst + time

(* An episode of refusals has left its line in the audit log (firstTrip).     *)
EpisodeIsMarked == marks.refused => marks.marked

(* A token does no more than it and its owner may, lives as long as was       *)
(* granted and never widens; the containers that calls change stay within the *)
(* user's bucket, and an episode of refusals leaves its mark (narrowed,       *)
(* ResolveExpiry, handleCreateMCPToken, chargeAdditionalContainers).          *)
TokensStayNarrow ==
    /\ TypeOK /\ TokenOnlyNarrows /\ LifetimeAsGranted /\ NarrowingNeverWidens
    /\ BlastRadius /\ EpisodeIsMarked

(* "Exactly one clear mark per time it runs away" (allow's comment): between  *)
(* two changes that ran there is at most one.                                 *)
OneMarkPerRunaway == marks.count <= 1
=============================================================================
