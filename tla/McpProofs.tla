------------------------------ MODULE McpProofs ------------------------------
(***************************************************************************)
(* What the MCP server keeps true for every number of requests, tokens,    *)
(* clients, sections and hosts.  First its gate (McpGate): a token does no *)
(* more than it and its owner may, and a user's calls share one bucket.    *)
(* Then its OAuth sessions (McpSessions): a session that ended is neither  *)
(* renewed nor used, and its tables implement SessionLife.                 *)
(***************************************************************************)
EXTENDS McpGate, McpSessions, Sequences, FiniteSetTheorems, WellFoundedInduction, TLAPS

-----------------------------------------------------------------------------
(* The units a call has been charged and not used yet, as pairs of the call  *)
(* and a number.                                                             *)
Units(x) ==
    IF x.pc = "charge" THEN 1
    ELSE IF x.pc = "act" THEN IF x.tool.n > 1 THEN x.tool.n ELSE 1 ELSE 0
Charged(calls) == {p \in Calls \X (1 .. Burst + 1) : p[2] <= Units(calls[p[1]])}

IdsInOrder == IsFiniteSet(tokens) /\ \A t \in tokens : t.id \in 1 .. Cardinality(tokens)
PolicyHasCeiling == ~policy.unlimited => policy.max > 0
CarriesItsToken(c) ==
    call[c].pc # "idle" => \E t \in tokens : /\ t.id = call[c].token
                                              /\ t.sections = call[c].scopes /\ t.ro = call[c].ro
PassedTheGate(c) == Passed(c) => Narrowed(call[c]) /\ CheckAccess(call[c].user, call[c].tool)
BatchFits(c) == call[c].pc = "act" => call[c].tool.n <= Burst + 1

GateInv ==
    /\ TypeOK /\ IdsInOrder /\ PolicyHasCeiling
    /\ LifetimeAsGranted /\ NarrowingNeverWidens
    /\ \A c \in Calls : CarriesItsToken(c) /\ PassedTheGate(c) /\ BatchFits(c)
    /\ spent + bucket.units + Cardinality(Charged(call)) <= Burst + time
    /\ (bucket.tripped => marks.marked) /\ EpisodeIsMarked

(* A call that is under way has the fields of one.                           *)
LEMMA CallPc ==
    ASSUME TypeOK, NEW c \in Calls, call[c].pc # "idle"
    PROVE  call[c] \in Underway
  BY DEF TypeOK, Idle

LEMMA UnitsAre ==
    ASSUME NEW x \in {Idle} \cup Underway, x.pc = "act" => x.tool.n <= Burst + 1
    PROVE  Units(x) \in 0 .. Burst + 1
<1>1. CASE x = Idle
  BY <1>1, BoundsFit DEF Idle, Units
<1>2. CASE x \in Underway
  <2>1. x.tool.n \in Nat
    BY <1>2 DEF Underway, ToolType
  <2> QED
    BY <2>1, BoundsFit DEF Units
<1> QED
  BY <1>1, <1>2

(* When one call moves, the charged units change by its own.                 *)
LEMMA ChargedMoves ==
    ASSUME GateInv, NEW c \in Calls, NEW to \in {Idle} \cup Underway,
           to.pc = "act" => to.tool.n <= Burst + 1
    PROVE  /\ Cardinality(Charged(call)) \in Nat /\ Units(call[c]) \in Nat /\ Units(to) \in Nat
           /\ Cardinality(Charged([call EXCEPT ![c] = to]))
                = Cardinality(Charged(call)) - Units(call[c]) + Units(to)
<1> DEFINE later == [call EXCEPT ![c] = to]
           A == Charged(call)
           B == Charged(later)
           Slice(k) == {c} \X (1 .. k)
<1>1. Units(call[c]) \in 0 .. Burst + 1 /\ Units(to) \in 0 .. Burst + 1
  <2>1. call[c] \in {Idle} \cup Underway /\ BatchFits(c)
    BY DEF GateInv, TypeOK
  <2> QED
    BY <2>1, UnitsAre DEF BatchFits
<1>2. IsFiniteSet(Calls \X (1 .. Burst + 1))
  <2>1. IsFiniteSet(1 .. Burst + 1)
    BY FS_Interval, BoundsFit
  <2> QED
    BY <2>1, FS_Product, BoundsFit
<1>3. A \subseteq Calls \X (1 .. Burst + 1) /\ B \subseteq Calls \X (1 .. Burst + 1)
  BY DEF Charged
<1>4. IsFiniteSet(A) /\ IsFiniteSet(B) /\ Cardinality(A) \in Nat /\ Cardinality(B) \in Nat
  BY <1>2, <1>3, FS_Subset, FS_CardinalityType
<1>5. ASSUME NEW k \in 0 .. Burst + 1 PROVE IsFiniteSet(Slice(k)) /\ Cardinality(Slice(k)) = k
  <2>1. IsFiniteSet(1 .. k) /\ Cardinality(1 .. k) = k
    BY <1>5, FS_Interval, BoundsFit
  <2>2. IsFiniteSet({c}) /\ Cardinality({c}) = 1
    BY FS_Singleton
  <2>3. IsFiniteSet(Slice(k)) /\ Cardinality(Slice(k)) = 1 * k
    BY <2>1, <2>2, FS_Product
  <2> QED
    BY <2>3
<1>6. A \cap Slice(Units(call[c])) = Slice(Units(call[c]))
  BY <1>1, BoundsFit DEF Charged
<1>7. \A d \in Calls : later[d] = IF d = c THEN to ELSE call[d]
  BY DEF GateInv, TypeOK
<1>8. B = (A \ Slice(Units(call[c]))) \cup Slice(Units(to))
  BY <1>1, <1>7, BoundsFit DEF Charged
<1>9. (A \ Slice(Units(call[c]))) \cap Slice(Units(to)) = {}
  BY <1>1, BoundsFit DEF Charged
<1> HIDE DEF A, B, Slice, later
<1>10. /\ IsFiniteSet(A \ Slice(Units(call[c])))
       /\ Cardinality(A \ Slice(Units(call[c]))) = Cardinality(A) - Cardinality(Slice(Units(call[c])))
  BY <1>4, <1>6, FS_Difference
<1>11. Cardinality(B) = Cardinality(A \ Slice(Units(call[c]))) + Cardinality(Slice(Units(to))) - 0
  <2>1. PICK k : k = Units(to)
    OBVIOUS
  <2>2. IsFiniteSet(Slice(k))
    BY <1>1, <1>5, <2>1
  <2>3. Cardinality((A \ Slice(Units(call[c]))) \cup Slice(k))
          = Cardinality(A \ Slice(Units(call[c]))) + Cardinality(Slice(k))
            - Cardinality((A \ Slice(Units(call[c]))) \cap Slice(k))
    BY <1>10, <2>2, FS_Union
  <2>4. Cardinality((A \ Slice(Units(call[c]))) \cap Slice(k)) = 0
    BY <1>9, <2>1, FS_EmptySet
  <2> QED
    BY <1>8, <2>1, <2>3, <2>4
<1>12. Cardinality(Slice(Units(call[c]))) = Units(call[c]) /\ Cardinality(Slice(Units(to))) = Units(to)
  BY <1>1, <1>5
<1>13. Cardinality(B) = Cardinality(A) - Units(call[c]) + Units(to)
  BY <1>1, <1>4, <1>10, <1>11, <1>12, BoundsFit
<1> QED
  BY <1>1, <1>4, <1>13, BoundsFit DEF A, B, later

LEMMA NoneCharged ==
    ASSUME NEW calls, \A c \in Calls : Units(calls[c]) = 0
    PROVE  Cardinality(Charged(calls)) = 0
<1>1. Charged(calls) = {}
  BY BoundsFit DEF Charged
<1> QED
  BY <1>1, FS_EmptySet

LEMMA GateInit == Init => GateInv
<1> SUFFICES ASSUME Init PROVE GateInv
  OBVIOUS
<1>1. TypeOK
  <2>1. policy \in PolicyType /\ policy.default > 0 /\ policy.max >= 0
    BY LifetimesFit DEF Init, PolicyType
  <2>2. bucket \in [units : 0 .. Burst, tripped : BOOLEAN]
    BY BoundsFit DEF Init
  <2>3. marks \in [refused : BOOLEAN, marked : BOOLEAN, count : 0 .. 2]
    BY DEF Init
  <2>4. owner \in RightsType
    BY OffersFit DEF Init
  <2> QED
    BY <2>1, <2>2, <2>3, <2>4, BoundsFit DEF Init, TypeOK
<1>2. IdsInOrder /\ LifetimeAsGranted /\ NarrowingNeverWidens
  BY FS_EmptySet DEF Init, IdsInOrder, LifetimeAsGranted, NarrowingNeverWidens
<1>3. PolicyHasCeiling
  BY LifetimesFit DEF Init, PolicyHasCeiling
<1>4. \A c \in Calls : call[c].pc = "idle"
  BY DEF Init, Idle
<1>5. \A c \in Calls : CarriesItsToken(c) /\ PassedTheGate(c) /\ BatchFits(c)
  BY <1>4 DEF CarriesItsToken, PassedTheGate, Passed, BatchFits
<1>6. Cardinality(Charged(call)) = 0
  BY <1>4, NoneCharged DEF Units
<1>7. spent + bucket.units + Cardinality(Charged(call)) <= Burst + time
  BY <1>6, BoundsFit DEF Init
<1>8. (bucket.tripped => marks.marked) /\ EpisodeIsMarked
  BY DEF Init, EpisodeIsMarked
<1> QED
  BY <1>1, <1>2, <1>3, <1>5, <1>7, <1>8 DEF GateInv

(* normalizeMCPTokenPolicy leaves a default, and a ceiling where "never" is  *)
(* forbidden.                                                                *)
LEMMA PolicyFits ==
    ASSUME NEW p \in PolicyType
    PROVE  LET q == NormalizeMCPTokenPolicy(p)
           IN  q \in PolicyType /\ q.default > 0 /\ q.max >= 0 /\ (~q.unlimited => q.max > 0)
<1> DEFINE default == IF p.default <= 0 THEN DefaultDays ELSE p.default
           max == IF p.max > 0 THEN p.max ELSE IF p.unlimited THEN 0 ELSE DefaultMax
           days == IF max > 0 /\ default > max THEN max ELSE default
<1>1. default \in Int /\ default > 0 /\ max \in Int /\ max >= 0 /\ (~p.unlimited => max > 0)
  BY LifetimesFit DEF PolicyType
<1>2. days \in Int /\ days > 0
  BY <1>1
<1>3. NormalizeMCPTokenPolicy(p) = [p EXCEPT !.max = max, !.default = days]
  BY DEF NormalizeMCPTokenPolicy
<1> HIDE DEF default, max, days
<1>4. LET q == [p EXCEPT !.max = max, !.default = days]
      IN  q \in PolicyType /\ q.default = days /\ q.max = max /\ q.unlimited = p.unlimited
  BY <1>1, <1>2 DEF PolicyType
<1> QED
  BY <1>1, <1>2, <1>3, <1>4

LEMMA SettingsKeep ==
    ASSUME GateInv, (\E p \in offer.policies : SetMCPTokenPolicy(p)) \/ (\E o \in offer.rights : SetOwner(o))
    PROVE  GateInv'
<1>1. UNCHANGED <<tokens, bucket, call, offer, spent, time, marks>>
  BY DEF SetMCPTokenPolicy, SetOwner
<1>2. owner' \in RightsType
  BY OffersFit DEF SetMCPTokenPolicy, SetOwner, GateInv, TypeOK
<1>3. policy' \in PolicyType /\ policy'.default > 0 /\ policy'.max >= 0 /\ (~policy'.unlimited => policy'.max > 0)
  <2>1. CASE UNCHANGED policy
    BY <2>1 DEF GateInv, TypeOK, PolicyHasCeiling
  <2>2. ASSUME NEW p \in offer.policies, SetMCPTokenPolicy(p)
        PROVE  policy' \in PolicyType /\ policy'.default > 0 /\ policy'.max >= 0 /\ (~policy'.unlimited => policy'.max > 0)
    <3>1. p \in PolicyType
      BY OffersFit DEF GateInv, TypeOK
    <3> QED
      BY <2>2, <3>1, PolicyFits DEF SetMCPTokenPolicy
  <2> QED
    BY <2>1, <2>2 DEF SetOwner
<1>4. TypeOK'
  BY <1>1, <1>2, <1>3 DEF GateInv, TypeOK
<1>5. IdsInOrder' /\ PolicyHasCeiling' /\ LifetimeAsGranted' /\ NarrowingNeverWidens'
  BY <1>1, <1>3 DEF GateInv, IdsInOrder, PolicyHasCeiling, LifetimeAsGranted, NarrowingNeverWidens
<1>6. \A c \in Calls : CarriesItsToken(c)' /\ PassedTheGate(c)' /\ BatchFits(c)'
  BY <1>1 DEF GateInv, CarriesItsToken, PassedTheGate, Passed, BatchFits
<1> QED
  BY <1>1, <1>4, <1>5, <1>6 DEF GateInv, EpisodeIsMarked

(* A step of one call, by where it takes the call and what it does to the    *)
(* bucket.                                                                   *)
LEMMA CallStep ==
    ASSUME GateInv, NEW c \in Calls, NEW to \in {Idle} \cup Underway, Goto(c, to),
           UNCHANGED <<owner, tokens, policy, offer, time>>,
           to.pc # "idle" => \E t \in tokens : t.id = to.token /\ t.sections = to.scopes /\ t.ro = to.ro,
           to.pc \in {"charge", "act", "read"} => Narrowed(to) /\ CheckAccess(to.user, to.tool),
           to.pc = "act" => to.tool.n <= Burst + 1,
           bucket' \in [units : 0 .. Burst, tripped : BOOLEAN],
           marks' \in [refused : BOOLEAN, marked : BOOLEAN, count : 0 .. 2], spent' \in Nat,
           spent' + bucket'.units + Units(to) <= spent + bucket.units + Units(call[c]),
           bucket'.tripped \/ marks'.refused => marks'.marked
    PROVE  GateInv'
<1>1. call' = [call EXCEPT ![c] = to] /\ call \in [Calls -> {Idle} \cup Underway]
  BY DEF Goto, GateInv, TypeOK
<1>2. call' \in [Calls -> {Idle} \cup Underway] /\ \A d \in Calls : call'[d] = IF d = c THEN to ELSE call[d]
  BY <1>1
<1>3. TypeOK'
  BY <1>2 DEF GateInv, TypeOK
<1>4. IdsInOrder' /\ PolicyHasCeiling' /\ LifetimeAsGranted' /\ NarrowingNeverWidens'
  BY DEF GateInv, IdsInOrder, PolicyHasCeiling, LifetimeAsGranted, NarrowingNeverWidens
<1>5. ASSUME NEW d \in Calls PROVE CarriesItsToken(d)' /\ PassedTheGate(d)' /\ BatchFits(d)'
  <2>1. CASE d = c
    BY <1>2, <2>1 DEF CarriesItsToken, PassedTheGate, Passed, BatchFits
  <2>2. CASE d # c
    BY <1>2, <2>2 DEF GateInv, CarriesItsToken, PassedTheGate, Passed, BatchFits
  <2> QED
    BY <2>1, <2>2
<1>6. spent' + bucket'.units + Cardinality(Charged(call')) <= Burst + time'
  <2>1. /\ Cardinality(Charged(call)) \in Nat /\ Units(call[c]) \in Nat /\ Units(to) \in Nat
        /\ Cardinality(Charged(call')) = Cardinality(Charged(call)) - Units(call[c]) + Units(to)
    BY <1>1, ChargedMoves
  <2>2. bucket.units \in Nat /\ bucket'.units \in Nat /\ spent \in Nat /\ time \in Nat /\ time' = time
    BY BoundsFit DEF GateInv, TypeOK
  <2>3. spent + bucket.units + Cardinality(Charged(call)) <= Burst + time
    BY DEF GateInv
  <2> HIDE DEF Charged, Units
  <2> QED
    BY <2>1, <2>2, <2>3, BoundsFit
<1>7. (bucket.tripped => marks.marked)' /\ EpisodeIsMarked'
  BY DEF EpisodeIsMarked
<1> QED
  BY <1>3, <1>4, <1>5, <1>6, <1>7 DEF GateInv

(* A call moves on with what it carries.                                     *)
LEMMA MovedCall ==
    ASSUME NEW x \in Underway, NEW pc \in {"charge", "act", "read"}
    PROVE  LET y == [x EXCEPT !.pc = pc]
           IN  /\ y \in Underway /\ y.pc = pc /\ y.token = x.token /\ y.scopes = x.scopes /\ y.ro = x.ro
               /\ y.tool = x.tool /\ y.user = x.user /\ y.hosts = x.hosts
  BY DEF Underway

LEMMA IdleCall == Idle.pc = "idle" /\ Units(Idle) = 0
  BY DEF Idle, Units

(* What a call carries when it is under way.                                 *)
LEMMA CallIs ==
    ASSUME GateInv, NEW c \in Calls, call[c].pc # "idle"
    PROVE  /\ call[c] \in Underway /\ call[c].tool \in ToolType /\ call[c].tool.n \in Nat
           /\ \E t \in tokens : t.id = call[c].token /\ t.sections = call[c].scopes /\ t.ro = call[c].ro
           /\ Passed(c) => Narrowed(call[c]) /\ CheckAccess(call[c].user, call[c].tool)
           /\ call[c].pc = "act" => call[c].tool.n <= Burst + 1
<1>1. call[c] \in Underway
  BY CallPc DEF GateInv
<1>2. call[c].tool \in ToolType /\ call[c].tool.n \in Nat
  BY <1>1 DEF Underway, ToolType
<1> QED
  BY <1>1, <1>2 DEF GateInv, CarriesItsToken, PassedTheGate, BatchFits

LEMMA VerifyKeeps ==
    ASSUME GateInv, NEW c \in Calls, NEW t \in tokens, NEW tool \in offer.tools, VerifyToken(c, t, tool)
    PROVE  GateInv'
<1> DEFINE to == [pc |-> "authorize", token |-> t.id, tool |-> tool, ro |-> t.ro,
                  scopes |-> t.sections, hosts |-> ScannedHosts(t), user |-> owner]
<1>1. t \in TokenType /\ tool \in ToolType /\ owner \in RightsType
  BY OffersFit DEF GateInv, TypeOK
<1>2. to \in Underway /\ Units(to) = 0 /\ to.pc = "authorize"
  <2>1. t.id \in 1 .. MaxIds /\ t.ro \in BOOLEAN /\ t.sections \in SUBSET Sections
    BY <1>1 DEF TokenType
  <2>2. ScannedHosts(t) \in SUBSET Hosts
    BY DEF ScannedHosts
  <2>3. to \in Underway
    BY <1>1, <2>1, <2>2 DEF Underway
  <2>4. Units(to) = 0 /\ to.pc = "authorize"
    BY DEF Units
  <2> QED
    BY <2>3, <2>4
<1>3. Goto(c, to) /\ UNCHANGED <<owner, tokens, policy, bucket, offer, spent, time, marks>>
  BY DEF VerifyToken
<1>4. to.token = t.id /\ to.scopes = t.sections /\ to.ro = t.ro
  OBVIOUS
<1>5. Units(call[c]) = 0
  BY DEF VerifyToken, AtPc, Units
<1> HIDE DEF to
<1>6. /\ bucket' \in [units : 0 .. Burst, tripped : BOOLEAN] /\ bucket.units \in Int
      /\ marks' \in [refused : BOOLEAN, marked : BOOLEAN, count : 0 .. 2] /\ spent' \in Nat
  BY <1>3, BoundsFit DEF GateInv, TypeOK
<1>7. bucket'.tripped \/ marks'.refused => marks'.marked
  BY <1>3 DEF GateInv, EpisodeIsMarked
<1>8. spent' + bucket'.units + Units(to) <= spent + bucket.units + Units(call[c])
  BY <1>2, <1>3, <1>5, <1>6
<1> QED
  BY <1>2, <1>3, <1>4, <1>6, <1>7, <1>8, CallStep

(* A refusal gives back nothing and leaves its mark.                         *)
LEMMA Refused ==
    ASSUME GateInv, NEW c \in Calls, Refuse(c), UNCHANGED <<owner, tokens, policy, offer, spent, time>>
    PROVE  GateInv'
<1>1. /\ bucket \in [units : 0 .. Burst, tripped : BOOLEAN]
      /\ marks \in [refused : BOOLEAN, marked : BOOLEAN, count : 0 .. 2] /\ spent \in Nat
      /\ bucket.tripped => marks.marked
  BY DEF GateInv, TypeOK
<1>2. bucket' \in [units : 0 .. Burst, tripped : BOOLEAN] /\ bucket'.units = bucket.units
  BY <1>1 DEF Refuse
<1>3. marks' \in [refused : BOOLEAN, marked : BOOLEAN, count : 0 .. 2] /\ marks'.marked
  <2>1. PICK m, k : /\ m = (marks.marked \/ ~bucket.tripped)
                    /\ k = IF bucket.tripped \/ marks.count = 2 THEN marks.count ELSE marks.count + 1
    OBVIOUS
  <2>2. k \in 0 .. 2
    BY <1>1, <2>1
  <2>3. m = TRUE
    BY <1>1, <2>1
  <2>4. marks' = [refused |-> TRUE, marked |-> m, count |-> k]
    BY <2>1 DEF Refuse
  <2> QED
    BY <2>2, <2>3, <2>4
<1>4. Goto(c, Idle)
  BY DEF Refuse, Answer
<1>5. Units(call[c]) \in Nat
  BY ChargedMoves, IdleCall
<1>6. spent' + bucket'.units + Units(Idle) <= spent + bucket.units + Units(call[c])
  BY <1>1, <1>2, <1>5, IdleCall, BoundsFit
<1> QED
  BY <1>1, <1>2, <1>3, <1>4, <1>6, IdleCall, CallStep

(* The call answers and the bucket stays.                                    *)
LEMMA Answered ==
    ASSUME GateInv, NEW c \in Calls, Answer(c), UNCHANGED <<owner, tokens, policy, bucket, offer, spent, time, marks>>
    PROVE  GateInv'
<1>1. /\ bucket \in [units : 0 .. Burst, tripped : BOOLEAN]
      /\ marks \in [refused : BOOLEAN, marked : BOOLEAN, count : 0 .. 2] /\ spent \in Nat
      /\ bucket.tripped \/ marks.refused => marks.marked
  BY DEF GateInv, TypeOK, EpisodeIsMarked
<1>2. Units(call[c]) \in Nat
  BY ChargedMoves, IdleCall
<1>3. spent' + bucket'.units + Units(Idle) <= spent + bucket.units + Units(call[c])
  BY <1>1, <1>2, IdleCall, BoundsFit
<1> QED
  BY <1>1, <1>3, IdleCall, CallStep DEF Answer

(* A call under way goes on to pc, charged k more units.                     *)
LEMMA GoesOn ==
    ASSUME GateInv, NEW c \in Calls, NEW pc \in {"charge", "act", "read"}, NEW k \in Nat,
           call[c].pc # "idle", Goto(c, [call[c] EXCEPT !.pc = pc]),
           UNCHANGED <<owner, tokens, policy, offer, spent, time>>,
           Narrowed(call[c]) /\ CheckAccess(call[c].user, call[c].tool),
           pc = "act" => call[c].tool.n <= Burst + 1,
           \/ k = 0 /\ UNCHANGED <<bucket, marks>>
           \/ Enough(k) /\ Grant(k),
           Units([call[c] EXCEPT !.pc = pc]) <= Units(call[c]) + k
    PROVE  GateInv'
<1>1. PICK to : to = [call[c] EXCEPT !.pc = pc]
  OBVIOUS
<1>2. /\ to \in Underway /\ to.pc = pc /\ to.token = call[c].token /\ to.scopes = call[c].scopes
      /\ to.ro = call[c].ro /\ to.tool = call[c].tool /\ to.user = call[c].user /\ to.hosts = call[c].hosts
  BY <1>1, CallIs, MovedCall
<1>3. /\ bucket \in [units : 0 .. Burst, tripped : BOOLEAN]
      /\ marks \in [refused : BOOLEAN, marked : BOOLEAN, count : 0 .. 2] /\ spent \in Nat
      /\ bucket.tripped \/ marks.refused => marks.marked
  BY DEF GateInv, TypeOK, EpisodeIsMarked
<1>4. /\ bucket' \in [units : 0 .. Burst, tripped : BOOLEAN] /\ bucket'.units = bucket.units - k
      /\ marks' \in [refused : BOOLEAN, marked : BOOLEAN, count : 0 .. 2]
      /\ bucket'.tripped \/ marks'.refused => marks'.marked
  <2>1. CASE k = 0 /\ UNCHANGED <<bucket, marks>>
    BY <1>3, <2>1
  <2>2. CASE Enough(k) /\ Grant(k)
    <3>1. bucket' \in [units : 0 .. Burst, tripped : BOOLEAN] /\ bucket'.units = bucket.units - k /\ ~bucket'.tripped
      BY <1>3, <2>2, BoundsFit DEF Enough, Grant, Reserve
    <3>2. marks' \in [refused : BOOLEAN, marked : BOOLEAN, count : 0 .. 2] /\ ~marks'.refused
      BY <1>3, <2>2 DEF Grant
    <3> QED
      BY <3>1, <3>2
  <2> QED
    BY <2>1, <2>2
<1>5. Narrowed(to) /\ CheckAccess(to.user, to.tool)
  BY <1>2 DEF Narrowed
<1>6. to.pc = "act" => to.tool.n <= Burst + 1
  BY <1>2
<1>7. spent' + bucket'.units + Units(to) <= spent + bucket.units + Units(call[c])
  <2>1. Units(call[c]) \in Nat /\ Units(to) \in Nat
    BY <1>2, <1>6, ChargedMoves
  <2>2. Units(to) <= Units(call[c]) + k
    BY <1>1
  <2> QED
    BY <1>3, <1>4, <2>1, <2>2, BoundsFit
<1>8. \E t \in tokens : t.id = to.token /\ t.sections = to.scopes /\ t.ro = to.ro
  BY <1>2, CallIs
<1> QED
  BY <1>1, <1>2, <1>3, <1>4, <1>5, <1>6, <1>7, <1>8, CallStep

LEMMA DeniedKeeps ==
    ASSUME GateInv, NEW c \in Calls, Denied(c)
    PROVE  GateInv'
  BY Answered DEF Denied

(* authorize moves one unit from the bucket to the call.                     *)
LEMMA AuthorizedKeeps ==
    ASSUME GateInv, NEW c \in Calls, Authorized(c)
    PROVE  GateInv'
<1>1. call[c].pc = "authorize" /\ call[c].pc # "idle" /\ Narrowed(call[c]) /\ CheckAccess(call[c].user, call[c].tool)
  BY DEF Authorized, AtPc
<1>2. UNCHANGED <<owner, tokens, policy, offer, spent, time>>
  BY DEF Authorized
<1>3. Units(call[c]) = 0 /\ call[c] \in Underway
  BY <1>1, CallIs DEF Units
<1>4. Units([call[c] EXCEPT !.pc = "read"]) = 0 /\ Units([call[c] EXCEPT !.pc = "charge"]) = 1
  BY <1>3, MovedCall DEF Units
<1>5. CASE Goto(c, [call[c] EXCEPT !.pc = "read"]) /\ UNCHANGED <<bucket, marks>>
  <2>1. Units([call[c] EXCEPT !.pc = "read"]) <= Units(call[c]) + 0
    BY <1>3, <1>4
  <2> QED
    BY <1>1, <1>2, <1>5, <2>1, GoesOn
<1>6. CASE Enough(1) /\ Grant(1) /\ Goto(c, [call[c] EXCEPT !.pc = "charge"])
  <2>1. Units([call[c] EXCEPT !.pc = "charge"]) <= Units(call[c]) + 1
    BY <1>3, <1>4
  <2> QED
    BY <1>1, <1>2, <1>6, <2>1, GoesOn
<1>7. CASE Refuse(c)
  BY <1>2, <1>7, Refused
<1> QED
  BY <1>5, <1>6, <1>7 DEF Authorized

(* A batch is charged for the containers beyond the first before it acts.    *)
LEMMA ChargeKeeps ==
    ASSUME GateInv, NEW c \in Calls, Charge(c)
    PROVE  GateInv'
<1> DEFINE n == call[c].tool.n
           to == [call[c] EXCEPT !.pc = "act"]
<1>1. call[c].pc = "charge" /\ call[c].pc # "idle"
  BY DEF Charge, AtPc
<1>2. UNCHANGED <<owner, tokens, policy, offer, spent, time>>
  BY DEF Charge
<1>3. call[c] \in Underway /\ n \in Nat /\ Narrowed(call[c]) /\ CheckAccess(call[c].user, call[c].tool)
  BY <1>1, CallIs DEF Passed
<1>4. Units(call[c]) = 1 /\ Units(to) = IF n > 1 THEN n ELSE 1
  <2>1. to.pc = "act" /\ to.tool = call[c].tool
    BY <1>3, MovedCall
  <2> QED
    BY <1>1, <2>1 DEF Units
<1>5. CASE Extra(n) <= 0 /\ Goto(c, to) /\ UNCHANGED <<bucket, marks>>
  <2>1. n <= 1 /\ n <= Burst + 1 /\ Units(to) <= Units(call[c]) + 0
    BY <1>3, <1>4, <1>5, BoundsFit DEF Extra
  <2> QED
    BY <1>1, <1>2, <1>3, <1>5, <2>1, GoesOn
<1>6. CASE Answer(c) /\ UNCHANGED <<bucket, marks>>
  BY <1>2, <1>6, Answered
<1>7. CASE Extra(n) > 0 /\ ~NeverFits(n) /\ Enough(Extra(n)) /\ Grant(Extra(n)) /\ Goto(c, to)
  <2>1. PICK k : k = Extra(n)
    OBVIOUS
  <2>2. k \in Nat /\ n <= Burst + 1 /\ Units(to) <= Units(call[c]) + k
    BY <1>3, <1>4, <1>7, <2>1, BoundsFit DEF Extra, NeverFits
  <2>3. Enough(k) /\ Grant(k) /\ Goto(c, to)
    BY <1>7, <2>1
  <2> QED
    BY <1>1, <1>2, <1>3, <2>2, <2>3, GoesOn
<1>8. CASE Refuse(c)
  BY <1>2, <1>8, Refused
<1> QED
  BY <1>5, <1>6, <1>7, <1>8 DEF Charge

(* Docker does what the call was charged for.                                *)
LEMMA ActKeeps ==
    ASSUME GateInv, NEW c \in Calls, Act(c)
    PROVE  GateInv'
<1>1. call[c].pc \in {"act", "read"} /\ call[c].pc # "idle" /\ Goto(c, Idle)
  BY DEF Act, Answer
<1>2. UNCHANGED <<owner, tokens, policy, bucket, offer, time>>
  BY DEF Act
<1>3. call[c] \in Underway /\ call[c].tool.n \in Nat
  BY <1>1, CallIs
<1>4. /\ bucket \in [units : 0 .. Burst, tripped : BOOLEAN]
      /\ marks \in [refused : BOOLEAN, marked : BOOLEAN, count : 0 .. 2] /\ spent \in Nat
      /\ bucket.tripped \/ marks.refused => marks.marked
  BY DEF GateInv, TypeOK, EpisodeIsMarked
<1>5. /\ marks' \in [refused : BOOLEAN, marked : BOOLEAN, count : 0 .. 2]
      /\ marks'.refused = marks.refused /\ marks'.marked = marks.marked
  <2>1. CASE marks' = marks
    BY <1>4, <2>1
  <2>2. CASE marks' = [marks EXCEPT !.count = 0]
    BY <1>4, <2>2
  <2> QED
    BY <2>1, <2>2 DEF Act
<1>6. spent' \in Nat /\ spent' <= spent + Units(call[c]) /\ Units(call[c]) \in Nat
  <2>1. CASE call[c].pc = "act"
    BY <1>3, <1>4, <2>1 DEF Act, AtPc, Units
  <2>2. CASE call[c].pc = "read"
    BY <1>3, <1>4, <2>2 DEF Act, AtPc, Units
  <2> QED
    BY <1>1, <2>1, <2>2
<1>7. spent' + bucket'.units + Units(Idle) <= spent + bucket.units + Units(call[c])
  BY <1>2, <1>4, <1>6, IdleCall, BoundsFit
<1>8. bucket'.tripped \/ marks'.refused => marks'.marked
  BY <1>2, <1>4, <1>5
<1>9. bucket' \in [units : 0 .. Burst, tripped : BOOLEAN]
  BY <1>2, <1>4
<1> QED
  BY <1>1, <1>2, <1>5, <1>6, <1>7, <1>8, <1>9, IdleCall, CallStep

(* Rows that change nothing that a call or a grant depends on.               *)
LEMMA TokensMapped ==
    ASSUME GateInv, NEW f \in [tokens -> TokenType], tokens' = {f[t] : t \in tokens},
           \A t \in tokens : /\ f[t].id = t.id /\ f[t].sections = t.sections
                              /\ f[t].ro = t.ro /\ f[t].by = t.by,
           UNCHANGED <<owner, policy, call, offer, spent, marks>>,
           bucket' \in [units : 0 .. Burst, tripped : BOOLEAN], bucket'.tripped = bucket.tripped,
           time' \in 0 .. MaxTime, bucket'.units - bucket.units <= time' - time
    PROVE  GateInv'
<1>1. tokens' \subseteq TokenType /\ \A t, u \in tokens' : t.id = u.id => t = u
  <2>1. tokens' \subseteq TokenType
    OBVIOUS
  <2>2. \A t, u \in tokens : t.id = u.id => t = u
    BY DEF GateInv, TypeOK
  <2> QED
    BY <2>1, <2>2
<1>2. TypeOK'
  BY <1>1 DEF GateInv, TypeOK
<1>3. IsFiniteSet(tokens') /\ Cardinality(tokens') = Cardinality(tokens)
  <2>1. f \in Bijection(tokens, tokens')
    <3>1. \A t, u \in tokens : f[t] = f[u] => t = u
      BY DEF GateInv, TypeOK
    <3>2. f \in [tokens -> tokens']
      OBVIOUS
    <3>3. \A u \in tokens' : \E t \in tokens : f[t] = u
      OBVIOUS
    <3> QED
      BY <3>1, <3>2, <3>3 DEF Bijection, Injection, Surjection, IsInjective
  <2>2. IsFiniteSet(tokens)
    BY DEF GateInv, IdsInOrder
  <2> QED
    BY <2>1, <2>2, FS_Bijection DEF ExistsBijection
<1>4. IdsInOrder'
  <2>1. \A u \in tokens' : u.id \in 1 .. Cardinality(tokens)
    BY DEF GateInv, IdsInOrder
  <2> QED
    BY <1>3, <2>1 DEF IdsInOrder
<1>5. PolicyHasCeiling'
  BY DEF GateInv, PolicyHasCeiling
<1>6. LifetimeAsGranted' /\ NarrowingNeverWidens'
  BY DEF GateInv, LifetimeAsGranted, NarrowingNeverWidens
<1>7. ASSUME NEW c \in Calls PROVE CarriesItsToken(c)' /\ PassedTheGate(c)' /\ BatchFits(c)'
  <2>1. CarriesItsToken(c)'
    BY DEF GateInv, CarriesItsToken
  <2> QED
    BY <2>1 DEF GateInv, PassedTheGate, Passed, BatchFits
<1>8. spent' + bucket'.units + Cardinality(Charged(call')) <= Burst + time'
  <2>1. ASSUME NEW c \in Calls PROVE Cardinality(Charged(call)) \in Nat
    BY ChargedMoves, IdleCall
  <2>2. Calls = {} => Cardinality(Charged(call)) = 0
    BY NoneCharged
  <2>3. bucket.units \in Nat /\ bucket'.units \in Nat /\ spent \in Nat /\ time \in Nat /\ time' \in Nat
    BY BoundsFit DEF GateInv, TypeOK
  <2>4. spent + bucket.units + Cardinality(Charged(call)) <= Burst + time
    BY DEF GateInv
  <2> QED
    BY <2>1, <2>2, <2>3, <2>4, BoundsFit
<1>9. (bucket.tripped => marks.marked)' /\ EpisodeIsMarked'
  BY DEF GateInv, EpisodeIsMarked
<1> QED
  BY <1>2, <1>4, <1>5, <1>6, <1>7, <1>8, <1>9 DEF GateInv

LEMMA RevokeKeeps ==
    ASSUME GateInv, NEW t \in tokens, RevokeAPIToken(t)
    PROVE  GateInv'
<1> DEFINE f == [u \in tokens |-> IF u = t THEN [u EXCEPT !.revoked = TRUE] ELSE u]
<1>1. tokens \subseteq TokenType
  BY DEF GateInv, TypeOK
<1>2. ASSUME NEW u \in tokens
      PROVE  /\ f[u] \in TokenType /\ f[u].id = u.id /\ f[u].sections = u.sections
             /\ f[u].ro = u.ro /\ f[u].by = u.by
  BY <1>1 DEF TokenType
<1>3. tokens' = {f[u] : u \in tokens}
  BY DEF RevokeAPIToken
<1>4. f \in [tokens -> TokenType]
  BY <1>2
<1>5. UNCHANGED <<owner, policy, bucket, call, offer, spent, time, marks>>
  BY DEF RevokeAPIToken
<1>6. /\ bucket' \in [units : 0 .. Burst, tripped : BOOLEAN] /\ bucket'.tripped = bucket.tripped
      /\ time' \in 0 .. MaxTime /\ bucket'.units - bucket.units <= time' - time
  BY <1>5, BoundsFit DEF GateInv, TypeOK
<1> HIDE DEF f
<1> QED
  BY <1>2, <1>3, <1>4, <1>5, <1>6, TokensMapped

LEMMA DayKeeps ==
    ASSUME GateInv, Day
    PROVE  GateInv'
<1> DEFINE f == [u \in tokens |-> Aged(u)]
<1>1. tokens \subseteq TokenType
  BY DEF GateInv, TypeOK
<1>2. ASSUME NEW u \in tokens
      PROVE  /\ f[u] \in TokenType /\ f[u].id = u.id /\ f[u].sections = u.sections
             /\ f[u].ro = u.ro /\ f[u].by = u.by
  <2>1. PICK left : left = IF u.left > 0 THEN u.left - 1 ELSE u.left
    OBVIOUS
  <2>2. u \in TokenType /\ left \in Int
    BY <1>1, <2>1 DEF TokenType
  <2>3. f[u] = [u EXCEPT !.left = left]
    BY <2>1 DEF Aged
  <2> QED
    BY <2>2, <2>3 DEF TokenType
<1>3. tokens' = {f[u] : u \in tokens}
  BY DEF Day
<1>4. f \in [tokens -> TokenType]
  BY <1>2
<1>5. UNCHANGED <<owner, policy, call, offer, spent, marks>>
  BY DEF Day
<1>6. /\ bucket' \in [units : 0 .. Burst, tripped : BOOLEAN] /\ bucket'.tripped = bucket.tripped
      /\ time' \in 0 .. MaxTime /\ bucket'.units - bucket.units <= time' - time
  BY BoundsFit DEF Day, GateInv, TypeOK
<1> HIDE DEF f
<1> QED
  BY <1>2, <1>3, <1>4, <1>5, <1>6, TokensMapped

(* Time refills no more than it has passed.                                  *)
LEMMA RefillKeeps ==
    ASSUME GateInv, Refill
    PROVE  GateInv'
<1> DEFINE f == [u \in tokens |-> u]
<1>1. tokens \subseteq TokenType
  BY DEF GateInv, TypeOK
<1>2. f \in [tokens -> TokenType] /\ tokens' = {f[u] : u \in tokens}
  BY <1>1 DEF Refill
<1>3. \A u \in tokens : f[u] = u
  OBVIOUS
<1>4. UNCHANGED <<owner, policy, call, offer, spent, marks>>
  BY DEF Refill
<1>5. /\ bucket' \in [units : 0 .. Burst, tripped : BOOLEAN] /\ bucket'.tripped = bucket.tripped
      /\ time' \in 0 .. MaxTime /\ bucket'.units - bucket.units <= time' - time
  BY BoundsFit DEF Refill, Topped, GateInv, TypeOK
<1> HIDE DEF f
<1> QED
  BY <1>2, <1>3, <1>4, <1>5, TokensMapped

(* time.Duration does not wrap for a lifetime that ResolveExpiry lets pass.  *)
LEMMA DurationExact ==
    ASSUME NEW d \in 1 .. AbsoluteMax
    PROVE  Duration(d) = d
<1>1. d \in Nat /\ WrapDays \in Nat /\ d < WrapDays
  BY LifetimesFit
<1>2. d + WrapDays \in 0 .. (2 * WrapDays) - 1
  BY <1>1
<1>3. (d + WrapDays) % (2 * WrapDays) = d + WrapDays
  BY <1>1, <1>2
<1> QED
  BY <1>1, <1>3 DEF Duration

LEMMA DurationType ==
    ASSUME NEW d \in Int
    PROVE  Duration(d) \in Int
<1>1. WrapDays \in Nat /\ WrapDays > 0
  BY LifetimesFit
<1>2. d + WrapDays \in Int /\ 2 * WrapDays \in Nat /\ 2 * WrapDays > 0
  BY <1>1
<1>3. (d + WrapDays) % (2 * WrapDays) \in Int
  BY <1>2
<1> QED
  BY <1>1, <1>3 DEF Duration

(* A token as minted: its lifetime, its scope, and an id of its own.         *)
LEMMA CreateKeeps ==
    ASSUME GateInv, NEW b \in offer.bodies, CreateMCPToken(b)
    PROVE  GateInv'
<1> DEFINE n == Minted(b)
<1>1. b \in BodyType /\ owner \in RightsType /\ policy \in PolicyType
  BY OffersFit DEF GateInv, TypeOK
<1>2. IsFiniteSet(tokens) /\ Cardinality(tokens) \in Nat /\ Cardinality(tokens) < MaxIds
  BY FS_CardinalityType DEF GateInv, IdsInOrder, CreateMCPToken
<1>3. Days(b) \in Int /\ Duration(Days(b)) \in Int
  <2>1. Days(b) \in Int
    BY <1>1 DEF Days, BodyType, PolicyType
  <2> QED
    BY <2>1, DurationType
<1>4. n \in TokenType
  <2>1. Cardinality(tokens) + 1 \in 1 .. MaxIds
    BY <1>2, BoundsFit
  <2>2. b.sections \cap owner.sections \in SUBSET Sections /\ CleanHostIDs(b) \in SUBSET Hosts
    BY <1>1 DEF BodyType, CleanHostIDs
  <2>3. (b.ro \/ owner.ro) \in BOOLEAN /\ b.never \in BOOLEAN /\ owner.ro \in BOOLEAN
    BY <1>1 DEF BodyType, RightsType
  <2>4. (IF b.never THEN 0 ELSE Duration(Days(b))) \in Int
    BY <1>3
  <2>5. [body |-> b, policy |-> policy, ro |-> owner.ro, left |-> Duration(Days(b))]
          \in [body : BodyType, policy : PolicyType, ro : BOOLEAN, left : Int]
    BY <1>1, <1>3, <2>3
  <2> QED
    BY <2>1, <2>2, <2>3, <2>4, <2>5 DEF Minted, TokenType
<1>5. /\ n.id = Cardinality(tokens) + 1 /\ n.sections = b.sections \cap owner.sections
      /\ n.ro = (b.ro \/ owner.ro) /\ n.by.body = b /\ n.by.policy = policy
      /\ n.by.ro = owner.ro /\ n.by.left = Duration(Days(b))
  BY DEF Minted
<1>6. tokens' = tokens \cup {n} /\ UNCHANGED <<owner, policy, bucket, call, offer, spent, time, marks>>
  BY DEF CreateMCPToken
<1> HIDE DEF n
<1>7. \A t \in tokens : t.id # n.id /\ t.id \in 1 .. Cardinality(tokens)
  BY <1>2, <1>5 DEF GateInv, IdsInOrder
<1>8. TypeOK'
  <2>1. tokens' \subseteq TokenType
    BY <1>4, <1>6 DEF GateInv, TypeOK
  <2>2. \A t, u \in tokens' : t.id = u.id => t = u
    BY <1>6, <1>7 DEF GateInv, TypeOK
  <2> QED
    BY <1>6, <2>1, <2>2 DEF GateInv, TypeOK
<1>9. IdsInOrder'
  <2>1. n \notin tokens
    BY <1>7
  <2>2. IsFiniteSet(tokens') /\ Cardinality(tokens') = Cardinality(tokens) + 1
    BY <1>2, <1>6, <2>1, FS_AddElement
  <2>3. \A t \in tokens' : t.id \in 1 .. Cardinality(tokens) + 1
    BY <1>2, <1>5, <1>6, <1>7
  <2> QED
    BY <2>2, <2>3 DEF IdsInOrder
<1>10. LifetimeAsGranted'
  <2>1. ASSUME ~b.never
        PROVE  /\ Duration(Days(b)) > 0 /\ Duration(Days(b)) <= AbsoluteMax
               /\ b.days > 0 => Duration(Days(b)) = b.days
               /\ policy.max > 0 => Duration(Days(b)) <= policy.max
    <3>1. Days(b) = IF b.days <= 0 THEN policy.default ELSE b.days
      BY <2>1 DEF Days
    <3>2. policy.default \in Int /\ policy.default > 0 /\ policy.max \in Int /\ b.days \in Int
      BY <1>1 DEF GateInv, TypeOK, PolicyType, BodyType
    <3>3. (policy.max = 0 \/ Days(b) <= policy.max) /\ Days(b) <= AbsoluteMax
      BY <2>1 DEF CreateMCPToken, Resolves
    <3>4. Days(b) \in 1 .. AbsoluteMax
      BY <1>3, <3>1, <3>2, <3>3, LifetimesFit
    <3>5. Duration(Days(b)) = Days(b)
      BY <3>4, DurationExact
    <3> QED
      BY <3>1, <3>2, <3>3, <3>4, <3>5
  <2>2. ~policy.unlimited => policy.max > 0
    BY DEF GateInv, PolicyHasCeiling
  <2>3. b.never => policy.unlimited
    BY DEF CreateMCPToken, Resolves
  <2>4. \A t \in tokens : LET asked == t.by.body
                              p     == t.by.policy
                          IN  /\ asked.never => p.unlimited
                              /\ ~asked.never => /\ t.by.left > 0 /\ t.by.left <= AbsoluteMax
                                                 /\ asked.days > 0 => t.by.left = asked.days
                                                 /\ ~p.unlimited => p.max > 0
                                                 /\ p.max > 0 => t.by.left <= p.max
    BY DEF GateInv, LifetimeAsGranted
  <2> QED
    BY <1>5, <1>6, <2>1, <2>2, <2>3, <2>4 DEF LifetimeAsGranted
<1>11. NarrowingNeverWidens'
  <2>1. b.sections # {} => b.sections \cap owner.sections # {}
    BY DEF CreateMCPToken, Scoped
  <2> QED
    BY <1>5, <1>6, <2>1 DEF GateInv, NarrowingNeverWidens
<1>12. ASSUME NEW c \in Calls PROVE CarriesItsToken(c)' /\ PassedTheGate(c)' /\ BatchFits(c)'
  BY <1>6 DEF GateInv, CarriesItsToken, PassedTheGate, Passed, BatchFits
<1>13. PolicyHasCeiling' /\ EpisodeIsMarked'
  BY <1>6 DEF GateInv, PolicyHasCeiling, EpisodeIsMarked
<1> QED
  BY <1>6, <1>8, <1>9, <1>10, <1>11, <1>12, <1>13 DEF GateInv

LEMMA StutterKeeps ==
    ASSUME GateInv, UNCHANGED gvars
    PROVE  GateInv'
<1> USE DEF gvars
<1>1. TypeOK' /\ IdsInOrder' /\ PolicyHasCeiling' /\ LifetimeAsGranted' /\ NarrowingNeverWidens' /\ EpisodeIsMarked'
  BY DEF GateInv, TypeOK, IdsInOrder, PolicyHasCeiling, LifetimeAsGranted, NarrowingNeverWidens,
     EpisodeIsMarked
<1>2. \A c \in Calls : CarriesItsToken(c)' /\ PassedTheGate(c)' /\ BatchFits(c)'
  BY DEF GateInv, CarriesItsToken, PassedTheGate, Passed, BatchFits
<1> QED
  BY <1>1, <1>2 DEF GateInv

(* The inductive invariant of the gate: ids are dense, so that a row is found *)
(* by its id; a policy that forbids "never" has a ceiling; a call carries the *)
(* narrowing of its token; and the bucket, what was spent and the units that  *)
(* calls hold between authorize and Docker are one sum.                       *)
THEOREM GateInvariance == Spec => []GateInv
<1>1. ASSUME GateInv, Next PROVE GateInv'
  <2>1. offer.lanes \subseteq Calls
    BY OffersFit, <1>1 DEF GateInv, TypeOK
  <2> QED
    BY <1>1, <2>1, SettingsKeep, CreateKeeps, RevokeKeeps, VerifyKeeps, DeniedKeeps, AuthorizedKeeps,
       ChargeKeeps, ActKeeps, RefillKeeps, DayKeeps DEF Next
<1> QED
  BY <1>1, GateInit, StutterKeeps, PTL DEF Spec

(* A token does no more than it and its owner may, lives as long as it was    *)
(* granted, never widens, and the containers its calls change stay within the *)
(* user's bucket however the calls interleave (TokensStayNarrow).             *)
THEOREM TokensKeepNarrow == Spec => []TokensStayNarrow
<1>1. ASSUME GateInv PROVE TokensStayNarrow
  <2>1. TypeOK /\ LifetimeAsGranted /\ NarrowingNeverWidens /\ EpisodeIsMarked
    BY <1>1 DEF GateInv
  <2>2. ASSUME NEW c \in Calls, Passed(c)
        PROVE  LET t == Row(call[c].token)
                   tool == call[c].tool
               IN  /\ t.sections # {} => tool.section \in t.sections
                   /\ tool.write => ~t.ro
                   /\ CheckAccess(call[c].user, tool)
    <3>1. call[c].pc # "idle"
      BY <2>2 DEF Passed
    <3>2. PICK t \in tokens : t.id = call[c].token /\ t.sections = call[c].scopes /\ t.ro = call[c].ro
      BY <1>1, <3>1, CallIs
    <3>3. Row(call[c].token) = t
      BY <2>1, <3>2 DEF TypeOK, Row
    <3>4. Narrowed(call[c]) /\ CheckAccess(call[c].user, call[c].tool)
      BY <1>1, <2>2, <3>1, CallIs
    <3> QED
      BY <3>2, <3>3, <3>4 DEF Narrowed
  <2>3. BlastRadius
    <3>1. Cardinality(Charged(call)) \in Nat
      <4>1. ASSUME NEW c \in Calls PROVE Cardinality(Charged(call)) \in Nat
        BY <1>1, ChargedMoves, IdleCall
      <4>2. Calls = {} => Cardinality(Charged(call)) = 0
        BY NoneCharged
      <4> QED
        BY <4>1, <4>2
    <3>2. bucket.units \in Nat /\ spent \in Nat /\ time \in Nat
      BY <2>1, BoundsFit DEF TypeOK
    <3>3. spent + bucket.units + Cardinality(Charged(call)) <= Burst + time
      BY <1>1 DEF GateInv
    <3> QED
      BY <3>1, <3>2, <3>3, BoundsFit DEF BlastRadius
  <2> QED
    BY <2>1, <2>2, <2>3 DEF TokensStayNarrow, TokenOnlyNarrows
<1> QED
  BY <1>1, GateInvariance, PTL

-----------------------------------------------------------------------------
(* Sessions.                                                               *)

ReqTypes == {NoRequest} \cup Coding \cup Exchanging \cup Issuing \cup Verifying
Verifies(r) == req[r].pc \in {"client", "exists", "run"}

(* Every id in use was handed out before.                                  *)
IdsWereIssued ==
    /\ \A k \in codes : k.id < next.code
    /\ \A s \in Sids : granted[s].code < next.code
    /\ \A t \in refresh : t.id < next.token /\ t.sid < next.sid
    /\ \A i \in held : i < next.token
    /\ \A x \in sessions : x.sid < next.sid
    /\ \A a \in access : a.sid < next.sid
    /\ \A s \in revoked : s < next.sid
    /\ \A r \in Requests : Minting(r) \/ Verifies(r) => req[r].sid < next.sid
    /\ \A r \in Requests : ReqAt(r, "session") => req[r].token < next.token

(* A code in the table has opened nothing yet.                             *)
CodesAreUnspent ==
    /\ \A k1, k2 \in codes : k1.id = k2.id => k1 = k2
    /\ \A k \in codes, s \in Sids : granted[s].code # k.id

(* A session that is being opened is known to its own request alone: no    *)
(* row and no access token has its id, its refresh token is the request's, *)
(* and nobody holds that one yet.                                          *)
MintedAlone ==
    /\ \A r1, r2 \in Requests : Minting(r1) /\ Minting(r2) /\ req[r1].sid = req[r2].sid => r1 = r2
    /\ \A r1, r2 \in Requests :
         ReqAt(r1, "session") /\ ReqAt(r2, "session") /\ req[r1].token = req[r2].token => r1 = r2
    /\ \A r \in Requests : Minting(r) =>
         /\ \A x \in sessions : x.sid # req[r].sid
         /\ \A a \in access : a.sid # req[r].sid
         /\ \A q \in Requests : Verifies(q) => req[q].sid # req[r].sid
    /\ \A r \in Requests : ReqAt(r, "token") => \A t \in refresh : t.sid # req[r].sid
    /\ \A r \in Requests : ReqAt(r, "session") =>
         /\ req[r].token \notin held
         /\ \A t \in refresh : t.sid = req[r].sid => t.id = req[r].token

(* Whatever names a session has the client and the scope of its consent.   *)
FromConsent ==
    /\ \A x \in sessions : x.client = granted[x.sid].client
    /\ \A a \in access : a.client = granted[a.sid].client /\ a.ro = granted[a.sid].ro
    /\ \A t \in refresh : t.sid # 0 => t.client = granted[t.sid].client /\ t.ro = granted[t.sid].ro
    /\ \A r \in Requests : Minting(r) =>
         req[r].client = granted[req[r].sid].client /\ req[r].ro = granted[req[r].sid].ro
    /\ \A r \in Requests : Verifies(r) => req[r].client = granted[req[r].sid].client

(* A request whose session was revoked, or whose client was removed,       *)
(* before it arrived is stopped on the way.  A removed client's id may be  *)
(* handed out again, but by then the session is gone for good.             *)
RefusedOnTheWay ==
    \A r \in Requests :
        /\ Verifies(r) /\ req[r].late => req[r].sid \in revoked
        /\ ReqAt(r, "run") => ~req[r].late /\ ~req[r].orphan
        /\ ReqAt(r, "client") /\ req[r].orphan => req[r].client \notin clients \/ ~Alive(req[r].sid)
        /\ ReqAt(r, "exists") /\ req[r].orphan => ~Alive(req[r].sid)

SessionInv ==
           /\ SessionTypeOK /\ IdsWereIssued /\ CodesAreUnspent /\ MintedAlone /\ FromConsent
           /\ OneTokenPerSession /\ CodeOpensOne /\ RevokedIsDead /\ RefusedOnTheWay

-----------------------------------------------------------------------------
(* Types.                                                                   *)

LEMMA GotoReq ==
    ASSUME SessionTypeOK, NEW r \in Requests, NEW to, ReqTo(r, to)
    PROVE  /\ req'[r] = to
           /\ \A q \in Requests : q # r => req'[q] = req[q]
           /\ to \in ReqTypes => req' \in [Requests -> ReqTypes]
  BY DEF SessionTypeOK, ReqTo, ReqTypes

LEMMA InitType == ASSUME BoundsOK, SessionInit PROVE SessionTypeOK
<1>1. refresh \subseteq Legacy /\ clients \subseteq Clients /\ held \subseteq {1}
  BY DEF SessionInit, Legacy
<1>2. Legacy \subseteq [id : 1 .. MaxTokens, client : Clients, sid : 0 .. MaxSids, ro : BOOLEAN,
                        left : 0 .. RefreshTicks]
  <2>1. 1 \in 1 .. MaxTokens /\ 0 \in 0 .. MaxSids /\ RefreshTicks \in 0 .. RefreshTicks
    BY DEF BoundsOK
  <2>2. SUFFICES ASSUME NEW t \in Legacy
                 PROVE  t \in [id : 1 .. MaxTokens, client : Clients, sid : 0 .. MaxSids, ro : BOOLEAN,
                               left : 0 .. RefreshTicks]
    OBVIOUS
  <2>3. PICK c \in Clients : t = [id |-> 1, client |-> c, sid |-> 0, ro |-> FALSE, left |-> RefreshTicks]
    BY DEF Legacy
  <2> QED
    BY <2>1, <2>3
<1>3. granted \in [Sids -> [code : 0 .. MaxCodes, client : Clients, ro : BOOLEAN]]
  <2>1. (CHOOSE c \in Clients : TRUE) \in Clients /\ 0 \in 0 .. MaxCodes
    BY DEF BoundsOK
  <2> QED
    BY <2>1 DEF SessionInit
<1>4. next \in [code : 1 .. MaxCodes + 1, token : 2 .. MaxTokens + 1, sid : 1 .. MaxSids + 1]
  <2>1. 1 \in 1 .. MaxCodes + 1 /\ 2 \in 2 .. MaxTokens + 1 /\ 1 \in 1 .. MaxSids + 1
    BY DEF BoundsOK
  <2> QED
    BY <2>1 DEF SessionInit
<1>5. held \subseteq 1 .. MaxTokens
  BY <1>1 DEF BoundsOK
<1>6. req \in [Requests -> ReqTypes]
  BY DEF SessionInit, ReqTypes
<1>7. codes = {} /\ sessions = {} /\ access = {} /\ user = TRUE /\ sweep = "codes" /\ revoked = {}
  BY DEF SessionInit
<1> QED
  BY <1>1, <1>2, <1>3, <1>4, <1>5, <1>6, <1>7 DEF SessionTypeOK, ReqTypes

LEMMA StepType ==
    ASSUME BoundsOK, SessionTypeOK, NEW r \in Requests, Step(r)
    PROVE  SessionTypeOK'
<1>1. ASSUME NEW c \in Clients, NEW ro \in BOOLEAN, Authorize(r, c, ro) PROVE SessionTypeOK'
  <2>1. [pc |-> "code", client |-> c, ro |-> ro] \in ReqTypes
    BY <1>1 DEF ReqTypes, Coding
  <2> QED
    BY <1>1, <2>1, GotoReq DEF Authorize, tables, rest, SessionTypeOK, ReqTypes
<1>2. CASE CreateOAuthCode(r)
  <2>1. req[r] \in Coding
    BY <1>2 DEF CreateOAuthCode, ReqAt, SessionTypeOK, NoRequest, Coding, Exchanging, Issuing, Verifying
  <2>2. next.code \in 1 .. MaxCodes
    BY <1>2 DEF CreateOAuthCode, BoundsOK, SessionTypeOK
  <2>3. [id |-> next.code, client |-> req[r].client, ro |-> req[r].ro, left |-> CodeTicks]
          \in [id : 1 .. MaxCodes, client : Clients, ro : BOOLEAN, left : 0 .. CodeTicks]
    BY <2>1, <2>2 DEF Coding, BoundsOK
  <2>4. next' \in [code : 1 .. MaxCodes + 1, token : 2 .. MaxTokens + 1, sid : 1 .. MaxSids + 1]
    BY <1>2, <2>2 DEF CreateOAuthCode, SessionTypeOK, BoundsOK
  <2>5. req' \in [Requests -> ReqTypes]
    BY <1>2, GotoReq DEF CreateOAuthCode, AnswerReq, ReqTypes
  <2> QED
    BY <1>2, <2>3, <2>4, <2>5 DEF CreateOAuthCode, rest, SessionTypeOK, ReqTypes
<1>3. ASSUME NEW k \in codes, NEW right \in BOOLEAN, TokenFromCode(r, k, right) PROVE SessionTypeOK'
  <2>1. k \in [id : 1 .. MaxCodes, client : Clients, ro : BOOLEAN, left : 0 .. CodeTicks]
    BY DEF SessionTypeOK
  <2>2. CASE right /\ k.left > 0
    <3>1. NewSid \in Sids
      BY <1>3, <2>2 DEF TokenFromCode, NewSid, Sids, BoundsOK, SessionTypeOK
    <3>2. req' \in [Requests -> ReqTypes]
      <4>1. [pc |-> "token", client |-> k.client, ro |-> k.ro, sid |-> NewSid] \in ReqTypes
        BY <2>1, <3>1 DEF ReqTypes, Exchanging
      <4> QED
        BY <1>3, <2>2, <4>1, GotoReq DEF TokenFromCode
    <3>3. next' \in [code : 1 .. MaxCodes + 1, token : 2 .. MaxTokens + 1, sid : 1 .. MaxSids + 1]
      BY <1>3, <2>2 DEF TokenFromCode, SessionTypeOK, BoundsOK
    <3>4. granted' \in [Sids -> [code : 0 .. MaxCodes, client : Clients, ro : BOOLEAN]]
      BY <1>3, <2>1, <2>2, <3>1 DEF TokenFromCode, SessionTypeOK, BoundsOK
    <3> QED
      BY <1>3, <3>2, <3>3, <3>4 DEF TokenFromCode, CodesWithout, rest, SessionTypeOK, ReqTypes
  <2>3. CASE ~(right /\ k.left > 0)
    BY <1>3, <2>3 DEF TokenFromCode, CodesWithout, rest, SessionTypeOK
  <2> QED
    BY <2>2, <2>3
<1>4. CASE CreateRefreshToken(r)
  <2>1. req[r] \in Exchanging
    BY <1>4 DEF CreateRefreshToken, ReqAt, SessionTypeOK, NoRequest, Coding, Exchanging, Issuing, Verifying
  <2>2. next.token \in 1 .. MaxTokens
    BY <1>4 DEF CreateRefreshToken, BoundsOK, SessionTypeOK
  <2>3. [id |-> next.token, client |-> req[r].client, sid |-> req[r].sid, ro |-> req[r].ro,
         left |-> RefreshTicks]
          \in [id : 1 .. MaxTokens, client : Clients, sid : 0 .. MaxSids, ro : BOOLEAN, left : 0 .. RefreshTicks]
    BY <2>1, <2>2 DEF Exchanging, BoundsOK, Sids
  <2>4. next' \in [code : 1 .. MaxCodes + 1, token : 2 .. MaxTokens + 1, sid : 1 .. MaxSids + 1]
    BY <1>4, <2>2 DEF CreateRefreshToken, SessionTypeOK, BoundsOK
  <2>5. req' \in [Requests -> ReqTypes]
    <3>1. [pc |-> "session", client |-> req[r].client, ro |-> req[r].ro, sid |-> req[r].sid,
           token |-> next.token] \in ReqTypes
      BY <2>1, <2>2 DEF ReqTypes, Exchanging, Issuing
    <3> QED
      BY <1>4, <3>1, GotoReq DEF CreateRefreshToken
  <2> QED
    BY <1>4, <2>3, <2>4, <2>5 DEF CreateRefreshToken, rest, SessionTypeOK, ReqTypes
<1>5. CASE CreateMCPOAuthSession(r)
  <2>1. req[r] \in Issuing
    BY <1>5 DEF CreateMCPOAuthSession, ReqAt, SessionTypeOK, NoRequest, Coding, Exchanging, Issuing, Verifying
  <2>2. SessionRow(req[r].sid, req[r].client) \in [sid : Sids, client : Clients, left : 0 .. RefreshTicks]
    BY <2>1 DEF Issuing, SessionRow, BoundsOK
  <2>3. Access(req[r].sid, req[r].client, req[r].ro)
          \in [sid : Sids, client : Clients, ro : BOOLEAN, left : 1 .. AccessTicks]
    BY <2>1 DEF Issuing, Access, BoundsOK
  <2>4. req[r].token \in 1 .. MaxTokens
    BY <2>1 DEF Issuing
  <2>5. req' \in [Requests -> ReqTypes]
    BY <1>5, GotoReq DEF CreateMCPOAuthSession, AnswerReq, ReqTypes
  <2> QED
    BY <1>5, <2>2, <2>3, <2>4, <2>5 DEF CreateMCPOAuthSession, rest, SessionTypeOK, ReqTypes
<1>6. CASE Fault(r)
  BY <1>6, GotoReq DEF Fault, AnswerReq, tables, rest, SessionTypeOK, ReqTypes
<1>7. ASSUME NEW a \in access, VerifyUser(r, a) PROVE SessionTypeOK'
  <2>1. [pc |-> "client", client |-> a.client, sid |-> a.sid, ro |-> a.ro,
         late |-> a.sid \in revoked, orphan |-> a.client \notin clients] \in ReqTypes
    BY DEF SessionTypeOK, ReqTypes, Verifying
  <2> QED
    BY <1>7, <2>1, GotoReq DEF VerifyUser, tables, rest, SessionTypeOK, ReqTypes
<1>8. CASE VerifyClient(r) \/ VerifySession(r)
  <2>1. req[r] \in Verifying
    BY <1>8 DEF VerifyClient, VerifySession, ReqAt, SessionTypeOK, NoRequest, Coding, Exchanging, Issuing, Verifying
  <2>2. [req[r] EXCEPT !.pc = "exists"] \in ReqTypes /\ [req[r] EXCEPT !.pc = "run"] \in ReqTypes
    BY <2>1 DEF Verifying, ReqTypes
  <2>3. req' \in [Requests -> ReqTypes]
    BY <1>8, <2>2, GotoReq DEF VerifyClient, VerifySession, AnswerReq, ReqTypes
  <2> QED
    BY <1>8, <2>3 DEF VerifyClient, VerifySession, tables, rest, SessionTypeOK, ReqTypes
<1>9. CASE Run(r)
  BY <1>9, GotoReq DEF Run, AnswerReq, tables, rest, SessionTypeOK, ReqTypes
<1> QED
  BY <1>1, <1>2, <1>3, <1>4, <1>5, <1>6, <1>7, <1>8, <1>9 DEF Step

(* A row after time has passed is the same row with less left.              *)
LEMMA OlderRow ==
    ASSUME NEW rows, NEW y \in Older(rows)
    PROVE  \E x \in rows : y = [x EXCEPT !.left = IF @ > 0 THEN @ - 1 ELSE 0]
  BY DEF Older

LEMMA OlderCodes ==
    ASSUME BoundsOK, SessionTypeOK, NEW y \in Older(codes)
    PROVE  /\ y \in [id : 1 .. MaxCodes, client : Clients, ro : BOOLEAN, left : 0 .. CodeTicks]
           /\ \E x \in codes : y = [x EXCEPT !.left = IF @ > 0 THEN @ - 1 ELSE 0]
                               /\ y.id = x.id /\ y.client = x.client
<1>1. PICK x \in codes : y = [x EXCEPT !.left = IF @ > 0 THEN @ - 1 ELSE 0]
  BY OlderRow
<1>2. x \in [id : 1 .. MaxCodes, client : Clients, ro : BOOLEAN, left : 0 .. CodeTicks]
  BY DEF SessionTypeOK
<1> DEFINE l == IF x.left > 0 THEN x.left - 1 ELSE 0
<1>3. l \in 0 .. CodeTicks
  BY <1>2 DEF BoundsOK
<1>4. y = [x EXCEPT !.left = l]
  BY <1>1
<1> HIDE DEF l
<1> QED
  BY <1>1, <1>2, <1>3, <1>4

LEMMA OlderRefresh ==
    ASSUME BoundsOK, SessionTypeOK, NEW y \in Older(refresh)
    PROVE  /\ y \in [id : 1 .. MaxTokens, client : Clients, sid : 0 .. MaxSids, ro : BOOLEAN,
                     left : 0 .. RefreshTicks]
           /\ \E x \in refresh :
                /\ y = [x EXCEPT !.left = IF @ > 0 THEN @ - 1 ELSE 0]
                /\ y.id = x.id /\ y.client = x.client /\ y.sid = x.sid /\ y.ro = x.ro
<1>1. PICK x \in refresh : y = [x EXCEPT !.left = IF @ > 0 THEN @ - 1 ELSE 0]
  BY OlderRow
<1>2. x \in [id : 1 .. MaxTokens, client : Clients, sid : 0 .. MaxSids, ro : BOOLEAN, left : 0 .. RefreshTicks]
  BY DEF SessionTypeOK
<1> DEFINE l == IF x.left > 0 THEN x.left - 1 ELSE 0
<1>3. l \in 0 .. RefreshTicks
  BY <1>2 DEF BoundsOK
<1>4. y = [x EXCEPT !.left = l]
  BY <1>1
<1> HIDE DEF l
<1> QED
  BY <1>1, <1>2, <1>3, <1>4

LEMMA OlderSessions ==
    ASSUME BoundsOK, SessionTypeOK, NEW y \in Older(sessions)
    PROVE  /\ y \in [sid : Sids, client : Clients, left : 0 .. RefreshTicks]
           /\ \E x \in sessions : y.client = x.client /\ y.sid = x.sid
<1>1. PICK x \in sessions : y = [x EXCEPT !.left = IF @ > 0 THEN @ - 1 ELSE 0]
  BY OlderRow
<1>2. x \in [sid : Sids, client : Clients, left : 0 .. RefreshTicks]
  BY DEF SessionTypeOK
<1> DEFINE l == IF x.left > 0 THEN x.left - 1 ELSE 0
<1>3. l \in 0 .. RefreshTicks
  BY <1>2 DEF BoundsOK
<1>4. y = [x EXCEPT !.left = l]
  BY <1>1
<1> HIDE DEF l
<1> QED
  BY <1>1, <1>2, <1>3, <1>4

LEMMA OlderAccess ==
    ASSUME BoundsOK, SessionTypeOK, NEW y \in Fresh(Older(access))
    PROVE  /\ y \in [sid : Sids, client : Clients, ro : BOOLEAN, left : 1 .. AccessTicks]
           /\ \E x \in access : y.client = x.client /\ y.sid = x.sid /\ y.ro = x.ro
<1>1. PICK x \in access : y = [x EXCEPT !.left = IF @ > 0 THEN @ - 1 ELSE 0]
  BY OlderRow DEF Fresh
<1>2. x \in [sid : Sids, client : Clients, ro : BOOLEAN, left : 1 .. AccessTicks]
  BY DEF SessionTypeOK
<1> DEFINE l == IF x.left > 0 THEN x.left - 1 ELSE 0
<1>3. y = [x EXCEPT !.left = l] /\ y.left = l
  BY <1>1, <1>2
<1>4. l \in 1 .. AccessTicks
  <2>1. y.left > 0
    BY DEF Fresh
  <2> QED
    BY <1>2, <1>3, <2>1 DEF BoundsOK
<1> HIDE DEF l
<1> QED
  BY <1>2, <1>3, <1>4

(* A rotation: the new pair's session and what it writes.                   *)
SidOf(t) == IF t.sid = 0 THEN NewSid ELSE t.sid
Rotated(t) == [t EXCEPT !.id = next.token, !.sid = SidOf(t), !.ro = ScopeOf(t), !.left = RefreshTicks]

LEMMA RotatedRecord ==
    ASSUME NEW A, NEW B, NEW C, NEW D, NEW E,
           NEW t \in [id : A, client : B, sid : C, ro : D, left : E],
           NEW i \in A, NEW s \in C, NEW l \in E
    PROVE  LET u == [t EXCEPT !.id = i, !.sid = s, !.ro = t.ro, !.left = l]
           IN  /\ u \in [id : A, client : B, sid : C, ro : D, left : E]
               /\ u.id = i /\ u.client = t.client /\ u.sid = s /\ u.ro = t.ro
  OBVIOUS

LEMMA NextRecord ==
    ASSUME NEW A, NEW B, NEW C, NEW n \in [code : A, token : B, sid : C], NEW i \in B, NEW j \in C
    PROVE  LET m == [n EXCEPT !.token = i, !.sid = j]
           IN  /\ m \in [code : A, token : B, sid : C]
               /\ m.code = n.code /\ m.token = i /\ m.sid = j
  OBVIOUS

LEMMA RotatedRow ==
    ASSUME BoundsOK, SessionTypeOK, NEW t \in refresh, RotateRefreshToken(t)
    PROVE  /\ t \in [id : 1 .. MaxTokens, client : Clients, sid : 0 .. MaxSids, ro : BOOLEAN,
                     left : 0 .. RefreshTicks]
           /\ SidOf(t) \in Sids /\ next.token \in 1 .. MaxTokens
           /\ Rotated(t) \in [id : 1 .. MaxTokens, client : Clients, sid : 0 .. MaxSids, ro : BOOLEAN,
                              left : 0 .. RefreshTicks]
           /\ Rotated(t).id = next.token /\ Rotated(t).client = t.client
           /\ Rotated(t).sid = SidOf(t) /\ Rotated(t).ro = t.ro
           /\ next' \in [code : 1 .. MaxCodes + 1, token : 2 .. MaxTokens + 1, sid : 1 .. MaxSids + 1]
           /\ next'.code = next.code /\ next'.token = next.token + 1
           /\ next'.sid = IF t.sid = 0 THEN next.sid + 1 ELSE next.sid
           /\ refresh' = (refresh \ {t}) \cup {Rotated(t)}
           /\ held' = held \cup {next.token}
           /\ access' = access \cup {[sid |-> SidOf(t), client |-> t.client, ro |-> t.ro, left |-> AccessTicks]}
           /\ \A y \in sessions' :
                \/ y.sid = SidOf(t) /\ y = [sid |-> SidOf(t), client |-> t.client, left |-> RefreshTicks]
                \/ \E x \in sessions : y.sid = x.sid /\ y.client = x.client
                     /\ y \in [sid : Sids, client : Clients, left : 0 .. RefreshTicks]
           /\ \E y \in sessions' : y.sid = SidOf(t)
           /\ \A x \in sessions : \E y \in sessions' : y.sid = x.sid
<1>1. t \in [id : 1 .. MaxTokens, client : Clients, sid : 0 .. MaxSids, ro : BOOLEAN, left : 0 .. RefreshTicks]
  BY DEF SessionTypeOK
<1>2. SidOf(t) \in Sids /\ next.token \in 1 .. MaxTokens
  BY DEF RotateRefreshToken, SidOf, SessionTypeOK, BoundsOK
<1>3. /\ Rotated(t) \in [id : 1 .. MaxTokens, client : Clients, sid : 0 .. MaxSids, ro : BOOLEAN,
                         left : 0 .. RefreshTicks]
      /\ Rotated(t).id = next.token /\ Rotated(t).client = t.client
      /\ Rotated(t).sid = SidOf(t) /\ Rotated(t).ro = t.ro
  <2>1. SidOf(t) \in 0 .. MaxSids /\ RefreshTicks \in 0 .. RefreshTicks
    BY <1>2 DEF BoundsOK, Sids
  <2> QED
    BY <1>1, <1>2, <2>1, RotatedRecord DEF Rotated, ScopeOf
<1>9. /\ next' \in [code : 1 .. MaxCodes + 1, token : 2 .. MaxTokens + 1, sid : 1 .. MaxSids + 1]
      /\ next'.code = next.code /\ next'.token = next.token + 1
      /\ next'.sid = IF t.sid = 0 THEN next.sid + 1 ELSE next.sid
  <2> DEFINE n == IF t.sid = 0 THEN next.sid + 1 ELSE next.sid
  <2>1. n \in 1 .. MaxSids + 1 /\ next.token + 1 \in 2 .. MaxTokens + 1
    <3>1. next.sid \in 1 .. MaxSids + 1 /\ next.token \in 1 .. MaxTokens /\ MaxSids \in Nat /\ MaxTokens \in Nat
      BY <1>2 DEF BoundsOK, SessionTypeOK
    <3>2. t.sid = 0 => next.sid \in 1 .. MaxSids
      BY <1>2 DEF SidOf, NewSid, Sids
    <3> QED
      BY <3>1, <3>2
  <2>2. next' = [next EXCEPT !.token = next.token + 1, !.sid = n]
    BY DEF RotateRefreshToken
  <2>3. next \in [code : 1 .. MaxCodes + 1, token : 2 .. MaxTokens + 1, sid : 1 .. MaxSids + 1]
    BY DEF SessionTypeOK
  <2>4. /\ next' \in [code : 1 .. MaxCodes + 1, token : 2 .. MaxTokens + 1, sid : 1 .. MaxSids + 1]
        /\ next'.code = next.code /\ next'.token = next.token + 1 /\ next'.sid = n
    <3> HIDE DEF n
    <3> QED
      BY <2>1, <2>2, <2>3, NextRecord
  <2> QED
    BY <2>4
<1>4. refresh' = (refresh \ {t}) \cup {Rotated(t)} /\ held' = held \cup {next.token}
  BY DEF RotateRefreshToken, RefreshWithout, Rotated, SidOf
<1>5. access' = access \cup {[sid |-> SidOf(t), client |-> t.client, ro |-> t.ro, left |-> AccessTicks]}
  BY DEF RotateRefreshToken, Access, ScopeOf, SidOf
<1>6. sessions' = IF \E x \in sessions : x.sid = SidOf(t)
                  THEN {IF x.sid = SidOf(t) THEN [x EXCEPT !.left = RefreshTicks] ELSE x : x \in sessions}
                  ELSE sessions \cup {SessionRow(SidOf(t), t.client)}
  BY DEF RotateRefreshToken, SidOf
<1>7. \A x \in sessions : x \in [sid : Sids, client : Clients, left : 0 .. RefreshTicks]
                          /\ [x EXCEPT !.left = RefreshTicks] \in [sid : Sids, client : Clients, left : 0 .. RefreshTicks]
                          /\ [x EXCEPT !.left = RefreshTicks].sid = x.sid
                          /\ [x EXCEPT !.left = RefreshTicks].client = x.client
  BY DEF SessionTypeOK, BoundsOK
<1>8. /\ \A y \in sessions' :
           \/ y.sid = SidOf(t) /\ y = [sid |-> SidOf(t), client |-> t.client, left |-> RefreshTicks]
           \/ \E x \in sessions : y.sid = x.sid /\ y.client = x.client
                /\ y \in [sid : Sids, client : Clients, left : 0 .. RefreshTicks]
      /\ \E y \in sessions' : y.sid = SidOf(t)
      /\ \A x \in sessions : \E y \in sessions' : y.sid = x.sid
  <2>1. CASE \E x \in sessions : x.sid = SidOf(t)
    <3>1. \A y \in sessions' : \E x \in sessions :
             y = (IF x.sid = SidOf(t) THEN [x EXCEPT !.left = RefreshTicks] ELSE x)
      BY <1>6, <2>1
    <3>2. \A x \in sessions : (IF x.sid = SidOf(t) THEN [x EXCEPT !.left = RefreshTicks] ELSE x) \in sessions'
      BY <1>6, <2>1
    <3>3. \A x \in sessions : \E y \in sessions' : y.sid = x.sid
      BY <1>7, <3>2
    <3> QED
      BY <1>7, <2>1, <3>1, <3>3
  <2>2. CASE ~\E x \in sessions : x.sid = SidOf(t)
    <3>1. sessions' = sessions \cup {[sid |-> SidOf(t), client |-> t.client, left |-> RefreshTicks]}
      BY <1>6, <2>2 DEF SessionRow
    <3>2. [sid |-> SidOf(t), client |-> t.client, left |-> RefreshTicks].sid = SidOf(t)
      OBVIOUS
    <3>3. \A x \in sessions : \E y \in sessions' : y.sid = x.sid
      BY <3>1
    <3>4. \E y \in sessions' : y.sid = SidOf(t)
      BY <3>1, <3>2
    <3>5. \A y \in sessions' : y \in sessions \/ y = [sid |-> SidOf(t), client |-> t.client, left |-> RefreshTicks]
      BY <3>1
    <3> QED
      BY <1>7, <3>2, <3>3, <3>4, <3>5
  <2> QED
    BY <2>1, <2>2
<1> QED
  BY <1>1, <1>2, <1>3, <1>4, <1>5, <1>8, <1>9

LEMMA TablesType ==
    ASSUME BoundsOK, SessionTypeOK,
           \/ \E c \in Clients : Register(c) \/ DeleteOAuthClient(c)
           \/ \E t \in refresh, right \in BOOLEAN : RotateRefused(t, right)
           \/ \E s \in Sids : Revoke(s)
           \/ DeleteUser \/ SweepStatement
    PROVE  SessionTypeOK'
<1>1. CASE \E c \in Clients : Register(c) \/ DeleteOAuthClient(c)
  BY <1>1 DEF Register, DeleteOAuthClient, rest, SessionTypeOK
<1>2. CASE \E t \in refresh, right \in BOOLEAN : RotateRefused(t, right)
  BY <1>2 DEF RotateRefused, RefreshWithout, rest, SessionTypeOK
<1>3. CASE \E s \in Sids : Revoke(s)
  BY <1>3 DEF Revoke, TokensAfterRevoke, SessionTypeOK
<1>4. CASE DeleteUser
  BY <1>4 DEF DeleteUser, tables, SessionTypeOK
<1>5. CASE SweepStatement
  <2>1. codes' \subseteq codes /\ refresh' \subseteq refresh /\ sessions' \subseteq sessions
    BY <1>5 DEF SweepStatement, Fresh
  <2>2. sweep' \in {"codes", "refresh", "sessions"}
    BY <1>5 DEF SweepStatement
  <2> QED
    BY <1>5, <2>1, <2>2 DEF SweepStatement, SessionTypeOK
<1> QED
  BY <1>1, <1>2, <1>3, <1>4, <1>5

LEMMA TickType == ASSUME BoundsOK, SessionTypeOK, Tick PROVE SessionTypeOK'
  BY OlderCodes, OlderRefresh, OlderSessions, OlderAccess DEF Tick, SessionTypeOK

LEMMA RotateType ==
    ASSUME BoundsOK, SessionTypeOK, NEW t \in refresh, RotateRefreshToken(t)
    PROVE  SessionTypeOK'
<1>1. refresh' \subseteq [id : 1 .. MaxTokens, client : Clients, sid : 0 .. MaxSids, ro : BOOLEAN,
                          left : 0 .. RefreshTicks]
  BY RotatedRow DEF SessionTypeOK
<1>2. sessions' \subseteq [sid : Sids, client : Clients, left : 0 .. RefreshTicks]
  <2>1. [sid |-> SidOf(t), client |-> t.client, left |-> RefreshTicks]
          \in [sid : Sids, client : Clients, left : 0 .. RefreshTicks]
    BY RotatedRow DEF BoundsOK
  <2> QED
    BY <2>1, RotatedRow
<1>3. access' \subseteq [sid : Sids, client : Clients, ro : BOOLEAN, left : 1 .. AccessTicks]
  <2>1. [sid |-> SidOf(t), client |-> t.client, ro |-> t.ro, left |-> AccessTicks]
          \in [sid : Sids, client : Clients, ro : BOOLEAN, left : 1 .. AccessTicks]
    BY RotatedRow DEF BoundsOK
  <2> QED
    BY <2>1, RotatedRow DEF SessionTypeOK
<1>4. next' \in [code : 1 .. MaxCodes + 1, token : 2 .. MaxTokens + 1, sid : 1 .. MaxSids + 1]
  BY RotatedRow
<1>5. granted' \in [Sids -> [code : 0 .. MaxCodes, client : Clients, ro : BOOLEAN]]
  <2>1. [code |-> 0, client |-> t.client, ro |-> t.ro] \in [code : 0 .. MaxCodes, client : Clients, ro : BOOLEAN]
    BY RotatedRow DEF BoundsOK
  <2> QED
    BY <2>1 DEF RotateRefreshToken, SessionTypeOK
<1>6. held' \subseteq 1 .. MaxTokens
  BY RotatedRow DEF SessionTypeOK
<1> QED
  BY <1>1, <1>2, <1>3, <1>4, <1>5, <1>6 DEF RotateRefreshToken, rest, SessionTypeOK

LEMMA NextType == ASSUME BoundsOK, SessionTypeOK, [SessionNext]_mvars PROVE SessionTypeOK'
<1>1. CASE UNCHANGED mvars
  BY <1>1 DEF mvars, SessionTypeOK
<1>2. CASE SessionNext
  BY <1>2, StepType, TablesType, TickType, RotateType DEF SessionNext
<1> QED
  BY <1>1, <1>2

-----------------------------------------------------------------------------
(* The invariant.  First the steps that only remove or touch rows.          *)

LEMMA Shrinking ==
    ASSUME SessionInv, SessionTypeOK', UNCHANGED <<req, next, granted, held>>,
           \A y \in codes' : \E x \in codes : y.id = x.id,
           \A y1, y2 \in codes' : y1.id = y2.id => y1 = y2,
           \A y \in refresh' : \E x \in refresh :
              y.id = x.id /\ y.client = x.client /\ y.sid = x.sid /\ y.ro = x.ro,
           OneTokenPerSession',
           \A y \in sessions' : \E x \in sessions : y.client = x.client /\ y.sid = x.sid,
           \A y \in access' : \E x \in access : y.client = x.client /\ y.sid = x.sid /\ y.ro = x.ro,
           revoked \subseteq revoked',
           \A s \in revoked' : s < next.sid /\ (s \in revoked \/ ~Alive(s)'),
           \A c \in clients' : c \in clients \/ \A x \in refresh' \cup sessions' : x.client # c
    PROVE  SessionInv' /\ \A s : Alive(s)' => Alive(s)
<1>1. \A s : Alive(s)' => Alive(s)
  BY DEF Alive, Minting, ReqAt
<1>2. IdsWereIssued'
  BY DEF SessionInv, IdsWereIssued, Minting, Verifies, ReqAt
<1>3. CodesAreUnspent'
  BY DEF SessionInv, CodesAreUnspent
<1>4. MintedAlone'
  BY DEF SessionInv, MintedAlone, Minting, Verifies, ReqAt
<1>5. FromConsent'
  BY DEF SessionInv, FromConsent, Minting, Verifies, ReqAt
<1>6. CodeOpensOne'
  BY DEF SessionInv, CodeOpensOne
<1>7. RevokedIsDead'
  BY <1>1 DEF SessionInv, RevokedIsDead
<1>8. RefusedOnTheWay'
  <2> SUFFICES ASSUME NEW r \in Requests
               PROVE  /\ Verifies(r) /\ req[r].late => req[r].sid \in revoked'
                      /\ ReqAt(r, "run") => ~req[r].late /\ ~req[r].orphan
                      /\ ReqAt(r, "client") /\ req[r].orphan => req[r].client \notin clients' \/ ~Alive(req[r].sid)'
                      /\ ReqAt(r, "exists") /\ req[r].orphan => ~Alive(req[r].sid)'
    BY DEF RefusedOnTheWay, Verifies, ReqAt
  <2>1. ASSUME ReqAt(r, "client"), req[r].orphan, req[r].client \in clients' PROVE ~Alive(req[r].sid)'
    <3>1. CASE req[r].client \in clients
      BY <1>1, <2>1, <3>1 DEF SessionInv, RefusedOnTheWay
    <3>2. CASE req[r].client \notin clients
      <4>1. \A x \in refresh' \cup sessions' : x.client # req[r].client
        BY <2>1, <3>2
      <4>2. Verifies(r) /\ req[r].client = granted[req[r].sid].client
        BY <2>1 DEF SessionInv, FromConsent, Verifies, ReqAt
      <4>3. req[r].sid # 0
        BY <4>2 DEF SessionInv, SessionTypeOK, Verifies, Sids, NoRequest, Coding, Exchanging, Issuing, Verifying
      <4>4. \A x \in sessions' : x.sid # req[r].sid
        BY <4>1, <4>2 DEF SessionInv, FromConsent
      <4>5. \A t \in refresh' : t.sid # req[r].sid
        BY <4>1, <4>2, <4>3 DEF SessionInv, FromConsent
      <4>6. \A q \in Requests : Minting(q) => req[q].sid # req[r].sid
        BY <4>2 DEF SessionInv, MintedAlone
      <4> QED
        BY <4>4, <4>5, <4>6 DEF Alive, Minting, ReqAt
    <3> QED
      BY <3>1, <3>2
  <2> QED
    BY <1>1, <2>1 DEF SessionInv, RefusedOnTheWay
<1> QED
  BY <1>1, <1>2, <1>3, <1>4, <1>5, <1>6, <1>7, <1>8 DEF SessionInv

LEMMA TablesInv ==
    ASSUME BoundsOK, SessionInv, SessionTypeOK',
           \/ \E c \in Clients : Register(c) \/ DeleteOAuthClient(c)
           \/ \E t \in refresh, right \in BOOLEAN : RotateRefused(t, right)
           \/ DeleteUser \/ SweepStatement \/ UNCHANGED mvars
    PROVE  SessionInv' /\ UNCHANGED next /\ \A s : Alive(s)' => Alive(s)
<1>1. /\ UNCHANGED <<req, next, granted, held, revoked, access>>
      /\ codes' \subseteq codes /\ refresh' \subseteq refresh /\ sessions' \subseteq sessions
  BY DEF Register, DeleteOAuthClient, RotateRefused, RefreshWithout, DeleteUser, SweepStatement, Fresh,
         tables, rest, mvars
<1>2. \A c \in clients' : c \in clients \/ \A x \in refresh' \cup sessions' : x.client # c
  BY DEF Register, DeleteOAuthClient, RotateRefused, DeleteUser, SweepStatement, tables, mvars
<1>3. OneTokenPerSession' /\ (\A y1, y2 \in codes' : y1.id = y2.id => y1 = y2)
  BY <1>1 DEF SessionInv, OneTokenPerSession, CodesAreUnspent
<1>4. \A s \in revoked' : s < next.sid /\ (s \in revoked \/ ~Alive(s)')
  BY <1>1 DEF SessionInv, IdsWereIssued
<1> QED
  BY <1>1, <1>2, <1>3, <1>4, Shrinking

LEMMA RevokeInv ==
    ASSUME BoundsOK, SessionInv, SessionTypeOK', NEW s \in Sids, Revoke(s)
    PROVE  SessionInv' /\ UNCHANGED next /\ \A u : Alive(u)' => Alive(u)
<1>1. /\ UNCHANGED <<req, next, granted, held, access, codes, clients>>
      /\ sessions' \subseteq sessions /\ refresh' \subseteq refresh /\ revoked' = revoked \cup {s}
      /\ \A x \in sessions' : x.sid # s
      /\ \A t \in refresh' : t.sid # s
  BY DEF Revoke, TokensAfterRevoke
<1>2. PICK x \in sessions : x.sid = s
  BY DEF Revoke
<1>3. ~Alive(s)'
  BY <1>1, <1>2 DEF Alive, SessionInv, MintedAlone, Minting, ReqAt
<1>4. s < next.sid
  BY <1>2 DEF SessionInv, IdsWereIssued
<1>5. OneTokenPerSession' /\ (\A y1, y2 \in codes' : y1.id = y2.id => y1 = y2)
  BY <1>1 DEF SessionInv, OneTokenPerSession, CodesAreUnspent
<1>6. \A u \in revoked' : u < next.sid /\ (u \in revoked \/ ~Alive(u)')
  BY <1>1, <1>3, <1>4 DEF SessionInv, IdsWereIssued
<1> QED
  BY <1>1, <1>5, <1>6, Shrinking

LEMMA TickInv ==
    ASSUME BoundsOK, SessionInv, SessionTypeOK', Tick
    PROVE  SessionInv' /\ UNCHANGED next /\ \A s : Alive(s)' => Alive(s)
<1>1. SessionTypeOK
  BY DEF SessionInv
<1>2. UNCHANGED <<req, next, granted, held, revoked, clients>>
  BY DEF Tick
<1>3. /\ codes' = Older(codes) /\ refresh' = Older(refresh) /\ sessions' = Older(sessions)
      /\ access' = Fresh(Older(access))
  BY DEF Tick
<1>4. \A y1, y2 \in codes' : y1.id = y2.id => y1 = y2
  BY <1>1, <1>3, OlderCodes DEF SessionInv, CodesAreUnspent
<1>5. OneTokenPerSession'
  BY <1>1, <1>3, OlderRefresh DEF SessionInv, OneTokenPerSession
<1>6. \A s \in revoked' : s < next.sid /\ (s \in revoked \/ ~Alive(s)')
  BY <1>2 DEF SessionInv, IdsWereIssued
<1>7. /\ \A y \in codes' : \E x \in codes : y.id = x.id
      /\ \A y \in refresh' : \E x \in refresh :
           y.id = x.id /\ y.client = x.client /\ y.sid = x.sid /\ y.ro = x.ro
      /\ \A y \in sessions' : \E x \in sessions : y.client = x.client /\ y.sid = x.sid
      /\ \A y \in access' : \E x \in access : y.client = x.client /\ y.sid = x.sid /\ y.ro = x.ro
  BY <1>1, <1>3, OlderCodes, OlderRefresh, OlderSessions, OlderAccess
<1> QED
  BY <1>2, <1>4, <1>5, <1>6, <1>7, Shrinking

(* Then the steps that only move one request, to where it mints nothing.    *)
LEMMA Moving ==
    ASSUME SessionInv, SessionTypeOK', UNCHANGED <<tables, access, held, next, granted, rest>>,
           NEW r \in Requests,
           \A q \in Requests : q # r => req'[q] = req[q],
           req'[r].pc \notin {"token", "session"},
           Verifies(r)' =>
             /\ req'[r].sid < next.sid /\ req'[r].client = granted[req'[r].sid].client
             /\ \A q \in Requests : Minting(q) => req[q].sid # req'[r].sid
             /\ req'[r].late => req'[r].sid \in revoked
             /\ req'[r].pc = "run" => ~req'[r].late /\ ~req'[r].orphan
             /\ req'[r].pc = "client" /\ req'[r].orphan => req'[r].client \notin clients \/ ~Alive(req'[r].sid)
             /\ req'[r].pc = "exists" /\ req'[r].orphan => ~Alive(req'[r].sid)
    PROVE  SessionInv' /\ \A s : Alive(s)' => Alive(s)
<1> USE DEF tables, rest
<1>1. \A q \in Requests : Minting(q)' => q # r /\ Minting(q) /\ req'[q] = req[q]
  BY DEF Minting, ReqAt
<1>2. \A q \in Requests : q # r => req'[q] = req[q] /\ (Verifies(q)' <=> Verifies(q))
  BY DEF Verifies
<1>3. \A s : Alive(s)' => Alive(s)
  BY <1>1 DEF Alive
<1>4. IdsWereIssued'
  BY <1>1, <1>2 DEF SessionInv, IdsWereIssued, ReqAt
<1>5. CodesAreUnspent' /\ CodeOpensOne' /\ OneTokenPerSession'
  BY DEF SessionInv, CodesAreUnspent, CodeOpensOne, OneTokenPerSession
<1>6. MintedAlone'
  BY <1>1, <1>2 DEF SessionInv, MintedAlone, ReqAt
<1>7. FromConsent'
  BY <1>1, <1>2 DEF SessionInv, FromConsent
<1>8. RevokedIsDead'
  BY <1>3 DEF SessionInv, RevokedIsDead
<1>9. RefusedOnTheWay'
  <2> SUFFICES ASSUME NEW q \in Requests
               PROVE  /\ Verifies(q)' /\ req'[q].late => req'[q].sid \in revoked
                      /\ req'[q].pc = "run" => ~req'[q].late /\ ~req'[q].orphan
                      /\ req'[q].pc = "client" /\ req'[q].orphan => req'[q].client \notin clients \/ ~Alive(req[q].sid)'
                      /\ req'[q].pc = "exists" /\ req'[q].orphan => ~Alive(req[q].sid)'
    BY DEF RefusedOnTheWay, ReqAt
  <2>1. CASE q = r
    BY <1>3, <2>1 DEF Verifies
  <2>2. CASE q # r
    BY <1>2, <1>3, <2>2 DEF SessionInv, RefusedOnTheWay, ReqAt
  <2> QED
    BY <2>1, <2>2
<1> QED
  BY <1>3, <1>4, <1>5, <1>6, <1>7, <1>8, <1>9 DEF SessionInv

LEMMA VerifyingRequest ==
    ASSUME SessionTypeOK, NEW r \in Requests, Verifies(r)
    PROVE  /\ req[r] \in Verifying
           /\ \A pc : /\ [req[r] EXCEPT !.pc = pc].pc = pc
                      /\ [req[r] EXCEPT !.pc = pc].sid = req[r].sid
                      /\ [req[r] EXCEPT !.pc = pc].client = req[r].client
                      /\ [req[r] EXCEPT !.pc = pc].late = req[r].late
                      /\ [req[r] EXCEPT !.pc = pc].orphan = req[r].orphan
<1>1. req[r] \in Verifying
  BY DEF SessionTypeOK, Verifies, NoRequest, Coding, Exchanging, Issuing, Verifying
<1> QED
  BY <1>1 DEF Verifying

LEMMA RequestFields ==
    ASSUME NEW c, NEW s, NEW ro, NEW l, NEW o
    PROVE  LET q == [pc |-> "client", client |-> c, sid |-> s, ro |-> ro, late |-> l, orphan |-> o]
           IN  q.pc = "client" /\ q.client = c /\ q.sid = s /\ q.late = l /\ q.orphan = o
  OBVIOUS

LEMMA MovesInv ==
    ASSUME BoundsOK, SessionInv, SessionTypeOK', NEW r \in Requests,
           \/ \E c \in Clients, ro \in BOOLEAN : Authorize(r, c, ro)
           \/ Fault(r) \/ Run(r) \/ VerifyClient(r) \/ VerifySession(r)
           \/ \E a \in access : VerifyUser(r, a)
    PROVE  SessionInv' /\ UNCHANGED next /\ \A s : Alive(s)' => Alive(s)
<1>1. SessionTypeOK
  BY DEF SessionInv
<1>2. UNCHANGED <<tables, access, held, next, granted, rest>>
  BY DEF Authorize, Fault, Run, VerifyClient, VerifySession, VerifyUser
<1>3. ASSUME NEW c \in Clients, NEW ro \in BOOLEAN, Authorize(r, c, ro)
      PROVE  SessionInv' /\ \A s : Alive(s)' => Alive(s)
  BY <1>1, <1>2, <1>3, GotoReq, Moving DEF Authorize, Verifies
<1>4. ASSUME AnswerReq(r) PROVE SessionInv' /\ \A s : Alive(s)' => Alive(s)
  BY <1>1, <1>2, <1>4, GotoReq, Moving DEF AnswerReq, NoRequest, Verifies
<1>5. ASSUME NEW a \in access, VerifyUser(r, a)
      PROVE  SessionInv' /\ \A s : Alive(s)' => Alive(s)
  <2>1. req'[r] = [pc |-> "client", client |-> a.client, sid |-> a.sid, ro |-> a.ro,
                   late |-> a.sid \in revoked, orphan |-> a.client \notin clients]
    BY <1>1, <1>5, GotoReq DEF VerifyUser
  <2>4. \A q \in Requests : q # r => req'[q] = req[q]
    BY <1>1, <1>5, GotoReq DEF VerifyUser
  <2>2. a.sid < next.sid /\ a.client = granted[a.sid].client
    BY DEF SessionInv, IdsWereIssued, FromConsent
  <2>3. \A q \in Requests : Minting(q) => req[q].sid # a.sid
    BY DEF SessionInv, MintedAlone
  <2> QED
    <3>1. /\ req'[r].pc = "client" /\ req'[r].client = a.client /\ req'[r].sid = a.sid
          /\ req'[r].late => a.sid \in revoked
          /\ req'[r].orphan => a.client \notin clients
      <4> DEFINE l == a.sid \in revoked
                 o == a.client \notin clients
      <4>1. req'[r] = [pc |-> "client", client |-> a.client, sid |-> a.sid, ro |-> a.ro, late |-> l, orphan |-> o]
        BY <2>1
      <4>2. /\ req'[r].pc = "client" /\ req'[r].client = a.client /\ req'[r].sid = a.sid
            /\ req'[r].late = l /\ req'[r].orphan = o
        <5> HIDE DEF l, o
        <5> QED
          BY <4>1, RequestFields
      <4> QED
        BY <4>2
    <3>2. /\ req'[r].sid < next.sid /\ req'[r].client = granted[req'[r].sid].client
          /\ \A q \in Requests : Minting(q) => req[q].sid # req'[r].sid
          /\ req'[r].late => req'[r].sid \in revoked
          /\ req'[r].orphan => req'[r].client \notin clients
      BY <2>2, <2>3, <3>1
    <3>3. req'[r].pc = "client"
      BY <3>1
    <3> QED
      BY <1>2, <2>4, <3>2, <3>3, Moving
<1>6. ASSUME VerifyClient(r), req[r].client \in clients
      PROVE  SessionInv' /\ \A s : Alive(s)' => Alive(s)
  <2>1. Verifies(r) /\ ReqAt(r, "client")
    BY <1>6 DEF VerifyClient, Verifies, ReqAt
  <2>2. /\ req'[r].pc = "exists" /\ req'[r].sid = req[r].sid /\ req'[r].client = req[r].client
        /\ req'[r].late = req[r].late /\ req'[r].orphan = req[r].orphan
        /\ \A q \in Requests : q # r => req'[q] = req[q]
    <3>1. ReqTo(r, [req[r] EXCEPT !.pc = "exists"])
      BY <1>6 DEF VerifyClient, ClientExists
    <3>2. req'[r] = [req[r] EXCEPT !.pc = "exists"] /\ \A q \in Requests : q # r => req'[q] = req[q]
      BY <1>1, <3>1, GotoReq
    <3> QED
      BY <1>1, <2>1, <3>2, VerifyingRequest
  <2>3. /\ req[r].sid < next.sid /\ req[r].client = granted[req[r].sid].client
        /\ \A q \in Requests : Minting(q) => req[q].sid # req[r].sid
        /\ req[r].late => req[r].sid \in revoked
        /\ req[r].orphan => ~Alive(req[r].sid)
    BY <1>6, <2>1 DEF SessionInv, IdsWereIssued, FromConsent, MintedAlone, RefusedOnTheWay
  <2> QED
    BY <1>2, <2>2, <2>3, Moving
<1>7. ASSUME VerifySession(r), SessionExists(req[r].sid)
      PROVE  SessionInv' /\ \A s : Alive(s)' => Alive(s)
  <2>1. Verifies(r) /\ ReqAt(r, "exists")
    BY <1>7 DEF VerifySession, Verifies, ReqAt
  <2>2. /\ req'[r].pc = "run" /\ req'[r].sid = req[r].sid /\ req'[r].client = req[r].client
        /\ req'[r].late = req[r].late /\ req'[r].orphan = req[r].orphan
        /\ \A q \in Requests : q # r => req'[q] = req[q]
    <3>1. ReqTo(r, [req[r] EXCEPT !.pc = "run"])
      BY <1>7 DEF VerifySession
    <3>2. req'[r] = [req[r] EXCEPT !.pc = "run"] /\ \A q \in Requests : q # r => req'[q] = req[q]
      BY <1>1, <3>1, GotoReq
    <3> QED
      BY <1>1, <2>1, <3>2, VerifyingRequest
  <2>3. /\ req[r].sid < next.sid /\ req[r].client = granted[req[r].sid].client
        /\ \A q \in Requests : Minting(q) => req[q].sid # req[r].sid
        /\ req[r].late => req[r].sid \in revoked
        /\ req[r].orphan => ~Alive(req[r].sid)
    BY <2>1 DEF SessionInv, IdsWereIssued, FromConsent, MintedAlone, RefusedOnTheWay
  <2>4. Alive(req[r].sid)
    BY <1>7 DEF SessionExists, Alive
  <2>5. ~req[r].late /\ ~req[r].orphan
    BY <2>3, <2>4 DEF SessionInv, RevokedIsDead
  <2> QED
    BY <1>2, <2>2, <2>3, <2>5, Moving
<1>8. UNCHANGED next
  BY <1>2
<1> QED
  BY <1>3, <1>4, <1>5, <1>6, <1>7, <1>8 DEF Fault, Run, VerifyClient, VerifySession, ClientExists

-----------------------------------------------------------------------------
(* The steps that write rows.                                               *)

LEMMA CreateOAuthCodeInv ==
    ASSUME BoundsOK, SessionInv, SessionTypeOK', NEW r \in Requests, CreateOAuthCode(r)
    PROVE  SessionInv' /\ next'.sid = next.sid /\ \A s : Alive(s)' => Alive(s)
<1>1. SessionTypeOK /\ ReqAt(r, "code")
  BY DEF SessionInv, CreateOAuthCode
<1>2. /\ UNCHANGED <<clients, refresh, sessions, access, held, granted, rest>>
      /\ codes' = codes \cup {[id |-> next.code, client |-> req[r].client, ro |-> req[r].ro, left |-> CodeTicks]}
  BY DEF CreateOAuthCode
<1>3. req'[r] = NoRequest /\ \A q \in Requests : q # r => req'[q] = req[q]
  BY <1>1, GotoReq DEF CreateOAuthCode, AnswerReq
<1>4. next'.code = next.code + 1 /\ next'.token = next.token /\ next'.sid = next.sid /\ next.code \in Nat
  BY <1>1 DEF CreateOAuthCode, SessionTypeOK, BoundsOK
<1>5. \A q \in Requests : /\ Minting(q)' <=> Minting(q)
                          /\ Verifies(q)' <=> Verifies(q)
                          /\ Minting(q) \/ Verifies(q) => req'[q] = req[q]
  BY <1>1, <1>3 DEF Minting, Verifies, ReqAt, NoRequest
<1>6. \A s : Alive(s)' <=> Alive(s)
  BY <1>2, <1>5 DEF Alive
<1>7. IdsWereIssued'
  <2>1. \A s \in Sids : granted[s].code \in Nat
    BY <1>1 DEF SessionTypeOK
  <2>2. \A k \in codes : k.id \in Nat
    BY <1>1 DEF SessionTypeOK
  <2> QED
    BY <1>2, <1>3, <1>4, <1>5, <2>1, <2>2 DEF SessionInv, IdsWereIssued, ReqAt, NoRequest, rest
<1>8. CodesAreUnspent'
  <2>1. \A k \in codes : k.id \in Nat /\ k.id < next.code
    BY <1>1 DEF SessionTypeOK, SessionInv, IdsWereIssued
  <2>2. \A s \in Sids : granted[s].code \in Nat /\ granted[s].code < next.code
    BY <1>1 DEF SessionTypeOK, SessionInv, IdsWereIssued
  <2> QED
    BY <1>2, <1>4, <2>1, <2>2 DEF SessionInv, CodesAreUnspent
<1>9. MintedAlone'
  BY <1>2, <1>3, <1>5 DEF SessionInv, MintedAlone, ReqAt, NoRequest
<1>10. FromConsent'
  BY <1>2, <1>5 DEF SessionInv, FromConsent
<1>11. OneTokenPerSession' /\ CodeOpensOne'
  BY <1>2 DEF SessionInv, OneTokenPerSession, CodeOpensOne
<1>12. RevokedIsDead'
  BY <1>2, <1>6 DEF SessionInv, RevokedIsDead, rest
<1>13. RefusedOnTheWay'
  <2>1. \A q \in Requests : q # r => req'[q] = req[q] /\ (Alive(req[q].sid)' <=> Alive(req[q].sid))
    BY <1>3, <1>6
  <2> QED
    BY <1>2, <1>3, <1>5, <2>1 DEF SessionInv, RefusedOnTheWay, ReqAt, NoRequest, Verifies, rest
<1> QED
  BY <1>4, <1>6, <1>7, <1>8, <1>9, <1>10, <1>11, <1>12, <1>13 DEF SessionInv

(* What opening a session adds: the id next.sid, which nothing has yet.     *)
LEMMA NewSidUnused ==
    ASSUME BoundsOK, SessionInv
    PROVE  /\ next.sid \in Nat \ {0} /\ ~Alive(next.sid) /\ next.sid \notin revoked
           /\ \A x \in sessions : x.sid # next.sid
           /\ \A a \in access : a.sid # next.sid
           /\ \A t \in refresh : t.sid # next.sid
           /\ \A r \in Requests : Minting(r) \/ Verifies(r) => req[r].sid # next.sid
<1>1. next.sid \in Nat \ {0}
  BY DEF SessionInv, SessionTypeOK, BoundsOK
<1>2. \A i \in Nat : ~(i < i)
  OBVIOUS
<1>3. /\ \A x \in sessions : x.sid # next.sid
      /\ \A a \in access : a.sid # next.sid
      /\ \A t \in refresh : t.sid # next.sid
      /\ \A r \in Requests : Minting(r) \/ Verifies(r) => req[r].sid # next.sid
      /\ next.sid \notin revoked
  BY <1>1, <1>2 DEF SessionInv, IdsWereIssued
<1> QED
  BY <1>1, <1>3 DEF Alive

LEMMA SidTypes ==
    ASSUME BoundsOK, SessionTypeOK
    PROVE  /\ \A x \in sessions : x.sid \in Sids
           /\ \A a \in access : a.sid \in Sids
           /\ \A t \in refresh : t.sid \in Nat /\ (t.sid # 0 => t.sid \in Sids)
           /\ \A q \in Requests : Minting(q) \/ Verifies(q) => req[q].sid \in Sids
           /\ \A q \in Requests : ReqAt(q, "session") => req[q].token \in Nat
           /\ next.token \in Nat /\ next.sid \in Nat /\ next.code \in Nat
           /\ 0 \notin Sids /\ Sids \subseteq Nat
<1>1. (\A x \in sessions : x.sid \in Sids) /\ (\A a \in access : a.sid \in Sids)
  BY DEF SessionTypeOK
<1>2. \A t \in refresh : t.sid \in Nat /\ (t.sid # 0 => t.sid \in Sids)
  <2>1. \A t \in refresh : t.sid \in 0 .. MaxSids
    BY DEF SessionTypeOK
  <2>2. \A i \in 0 .. MaxSids : i \in Nat /\ (i # 0 => i \in Sids)
    BY DEF BoundsOK, Sids
  <2> QED
    BY <2>1, <2>2
<1>3. \A q \in Requests : Minting(q) \/ Verifies(q) => req[q].sid \in Sids
  BY DEF SessionTypeOK, Minting, Verifies, ReqAt, NoRequest, Coding, Exchanging, Issuing, Verifying
<1>4. \A q \in Requests : ReqAt(q, "session") => req[q].token \in Nat
  BY DEF SessionTypeOK, ReqAt, NoRequest, Coding, Exchanging, Issuing, Verifying
<1>5. next.token \in Nat /\ next.sid \in Nat /\ next.code \in Nat
  BY DEF SessionTypeOK
<1>6. 0 \notin Sids /\ Sids \subseteq Nat
  BY DEF Sids
<1> QED
  BY <1>1, <1>2, <1>3, <1>4, <1>5, <1>6

LEMMA TokenFromCodeInv ==
    ASSUME BoundsOK, SessionInv, SessionTypeOK', NEW r \in Requests, NEW k \in codes, NEW right \in BOOLEAN,
           TokenFromCode(r, k, right), right /\ k.left > 0, NEW n, n = next.sid
    PROVE  /\ SessionInv' /\ next'.sid = n + 1 /\ n \in Sids
           /\ Alive(n)'
           /\ \A s : s # n => (Alive(s)' <=> Alive(s))
<1>1. SessionTypeOK /\ ReqAt(r, "idle")
  BY DEF SessionInv, TokenFromCode
<1>2. /\ UNCHANGED <<clients, refresh, sessions, access, held, rest>>
      /\ codes' = codes \ {k}
      /\ granted' = [granted EXCEPT ![n] = [code |-> k.id, client |-> k.client, ro |-> k.ro]]
  BY DEF TokenFromCode, CodesWithout, NewSid
<1>3. /\ req'[r] = [pc |-> "token", client |-> k.client, ro |-> k.ro, sid |-> n]
      /\ \A q \in Requests : q # r => req'[q] = req[q]
  BY <1>1, GotoReq DEF TokenFromCode, NewSid
<1>4. /\ next'.code = next.code /\ next'.token = next.token /\ next'.sid = n + 1
      /\ n \in Sids /\ n \in Nat
  <2>1. next' = [next EXCEPT !.sid = next.sid + 1] /\ next.sid <= MaxSids
    BY DEF TokenFromCode
  <2>2. next \in [code : 1 .. MaxCodes + 1, token : 2 .. MaxTokens + 1, sid : 1 .. MaxSids + 1]
    BY <1>1 DEF SessionTypeOK
  <2>3. next.sid \in 1 .. MaxSids /\ next.sid \in Nat
    BY <2>1, <2>2 DEF BoundsOK
  <2> QED
    BY <2>1, <2>2, <2>3 DEF Sids
<1>5. /\ granted'[n].code = k.id /\ granted'[n].client = k.client /\ granted'[n].ro = k.ro
      /\ \A s \in Sids : s # n => granted'[s] = granted[s]
  BY <1>1, <1>2, <1>4 DEF SessionTypeOK
<1>6. /\ Minting(r)' /\ ~Verifies(r)' /\ req'[r].sid = n /\ ~ReqAt(r, "session")'
      /\ ~Minting(r) /\ ~Verifies(r) /\ ReqAt(r, "token")'
      /\ req'[r].client = k.client /\ req'[r].ro = k.ro
  BY <1>1, <1>3 DEF Minting, Verifies, ReqAt
<1>7. \A q \in Requests : q # r => /\ req'[q] = req[q]
                                   /\ Minting(q)' <=> Minting(q)
                                   /\ Verifies(q)' <=> Verifies(q)
  BY <1>3 DEF Minting, Verifies, ReqAt
<1>8. /\ \A x \in sessions : x.sid # n
      /\ \A a \in access : a.sid # n
      /\ \A t \in refresh : t.sid # n
      /\ \A q \in Requests : Minting(q) \/ Verifies(q) => req[q].sid # n
      /\ n \notin revoked
  BY NewSidUnused
<1>9. Alive(n)' /\ \A s : s # n => (Alive(s)' <=> Alive(s))
  <2>1. \A q \in Requests : \A s : s # n => (Minting(q)' /\ req'[q].sid = s <=> Minting(q) /\ req[q].sid = s)
    BY <1>6, <1>7
  <2>2. \A s : s # n => ((\E q \in Requests : Minting(q)' /\ req'[q].sid = s)
                           <=> (\E q \in Requests : Minting(q) /\ req[q].sid = s))
    BY <2>1
  <2>3. \E q \in Requests : Minting(q)' /\ req'[q].sid = n
    BY <1>6
  <2>4. Alive(n)'
    BY <2>3 DEF Alive
  <2> QED
    BY <1>2, <2>2, <2>4 DEF Alive
<1>10. (\A x \in sessions : x.sid \in Sids) /\ (\A a \in access : a.sid \in Sids)
  BY <1>1, SidTypes
<1>11. \A t \in refresh : t.sid # 0 => t.sid \in Sids
  BY <1>1, SidTypes
<1>12. \A q \in Requests : Minting(q) \/ Verifies(q) => req[q].sid \in Sids
  BY <1>1, SidTypes
<1>13. IdsWereIssued'
  <2>1. \A i \in Sids \cup {0} : i < n => i < n + 1
    BY <1>4 DEF Sids
  <2>2. n < n + 1
    BY <1>4
  <2>3. \A t \in refresh : t.sid < n + 1
    BY <1>11, <2>1 DEF SessionInv, IdsWereIssued
  <2>4. /\ \A x \in sessions : x.sid < n + 1
        /\ \A a \in access : a.sid < n + 1
        /\ \A q \in Requests : Minting(q) \/ Verifies(q) => req[q].sid < n + 1
    BY <1>10, <1>12, <2>1 DEF SessionInv, IdsWereIssued
  <2>5. \A s \in revoked : s < n + 1
    BY <1>1, <2>1 DEF SessionInv, SessionTypeOK, IdsWereIssued
  <2>6. \A s \in Sids : granted'[s].code < next.code
    BY <1>5 DEF SessionInv, IdsWereIssued
  <2>7. \A q \in Requests : Minting(q)' \/ Verifies(q)' => req'[q].sid < n + 1
    BY <1>6, <1>7, <2>2, <2>4
  <2>8. \A q \in Requests : ReqAt(q, "session")' => req'[q].token < next.token
    BY <1>6, <1>7 DEF SessionInv, IdsWereIssued, ReqAt
  <2> QED
    BY <1>2, <1>4, <2>3, <2>4, <2>5, <2>6, <2>7, <2>8 DEF SessionInv, IdsWereIssued, rest
<1>14. CodesAreUnspent'
  BY <1>2, <1>5 DEF SessionInv, CodesAreUnspent
<1>15. CodeOpensOne'
  BY <1>5 DEF SessionInv, CodeOpensOne, CodesAreUnspent
<1>16. MintedAlone'
  <2>1. \A r1, r2 \in Requests : Minting(r1)' /\ Minting(r2)' /\ req'[r1].sid = req'[r2].sid => r1 = r2
    BY <1>6, <1>7, <1>8 DEF SessionInv, MintedAlone
  <2>2. \A r1, r2 \in Requests :
          ReqAt(r1, "session")' /\ ReqAt(r2, "session")' /\ req'[r1].token = req'[r2].token => r1 = r2
    BY <1>6, <1>7 DEF SessionInv, MintedAlone, ReqAt
  <2>3. \A q \in Requests : Minting(q)' =>
         /\ \A x \in sessions : x.sid # req'[q].sid
         /\ \A a \in access : a.sid # req'[q].sid
         /\ \A p \in Requests : Verifies(p)' => req'[p].sid # req'[q].sid
    BY <1>6, <1>7, <1>8 DEF SessionInv, MintedAlone
  <2>4. \A q \in Requests : ReqAt(q, "token")' => \A t \in refresh : t.sid # req'[q].sid
    BY <1>6, <1>7, <1>8 DEF SessionInv, MintedAlone, ReqAt
  <2>5. \A q \in Requests : ReqAt(q, "session")' =>
         /\ req'[q].token \notin held
         /\ \A t \in refresh : t.sid = req'[q].sid => t.id = req'[q].token
    BY <1>6, <1>7 DEF SessionInv, MintedAlone, ReqAt
  <2> QED
    BY <1>2, <2>1, <2>2, <2>3, <2>4, <2>5 DEF MintedAlone
<1>17. FromConsent'
  <2>1. /\ \A x \in sessions : x.client = granted'[x.sid].client
        /\ \A a \in access : a.client = granted'[a.sid].client /\ a.ro = granted'[a.sid].ro
    BY <1>5, <1>8, <1>10 DEF SessionInv, FromConsent
  <2>2. \A t \in refresh : t.sid # 0 => t.client = granted'[t.sid].client /\ t.ro = granted'[t.sid].ro
    BY <1>5, <1>8, <1>11 DEF SessionInv, FromConsent
  <2>3. \A q \in Requests : Minting(q)' =>
         req'[q].client = granted'[req'[q].sid].client /\ req'[q].ro = granted'[req'[q].sid].ro
    BY <1>5, <1>6, <1>7, <1>8, <1>12 DEF SessionInv, FromConsent
  <2>4. \A q \in Requests : Verifies(q)' => req'[q].client = granted'[req'[q].sid].client
    BY <1>5, <1>6, <1>7, <1>8, <1>12 DEF SessionInv, FromConsent
  <2> QED
    BY <1>2, <2>1, <2>2, <2>3, <2>4 DEF FromConsent
<1>18. OneTokenPerSession'
  BY <1>2 DEF SessionInv, OneTokenPerSession
<1>19. RevokedIsDead'
  BY <1>2, <1>8, <1>9 DEF SessionInv, RevokedIsDead, rest
<1>20. RefusedOnTheWay'
  <2>1. \A q \in Requests : Verifies(q)' =>
           q # r /\ Verifies(q) /\ req'[q] = req[q] /\ (Alive(req[q].sid)' <=> Alive(req[q].sid))
    <3> SUFFICES ASSUME NEW q \in Requests, Verifies(q)'
                 PROVE  q # r /\ Verifies(q) /\ req'[q] = req[q] /\ (Alive(req[q].sid)' <=> Alive(req[q].sid))
      OBVIOUS
    <3>1. q # r /\ Verifies(q) /\ req'[q] = req[q] /\ req[q].sid # n
      BY <1>6, <1>7, <1>8
    <3> DEFINE u == req[q].sid
    <3>2. u # n /\ req'[q].sid = u
      BY <3>1
    <3>3. Alive(req[q].sid)' <=> \/ \E x \in sessions' : x.sid = u
                                 \/ \E t \in refresh' : t.sid = u
                                 \/ \E p \in Requests : Minting(p)' /\ req'[p].sid = u
      BY <3>2 DEF Alive
    <3>4. Alive(u) <=> \/ \E x \in sessions : x.sid = u
                       \/ \E t \in refresh : t.sid = u
                       \/ \E p \in Requests : Minting(p) /\ req[p].sid = u
      BY DEF Alive
    <3>5. (\E p \in Requests : Minting(p)' /\ req'[p].sid = u) <=> (\E p \in Requests : Minting(p) /\ req[p].sid = u)
      BY <1>6, <1>7, <3>2
    <3> QED
      BY <1>2, <3>1, <3>3, <3>4, <3>5
  <2> QED
    BY <1>2, <2>1 DEF SessionInv, RefusedOnTheWay, ReqAt, Verifies, rest
<1> QED
  BY <1>4, <1>9, <1>13, <1>14, <1>15, <1>16, <1>17, <1>18, <1>19, <1>20 DEF SessionInv

LEMMA CodeRefusedInv ==
    ASSUME BoundsOK, SessionInv, SessionTypeOK', NEW r \in Requests, NEW k \in codes, NEW right \in BOOLEAN,
           TokenFromCode(r, k, right), ~(right /\ k.left > 0)
    PROVE  SessionInv' /\ UNCHANGED next /\ \A s : Alive(s)' => Alive(s)
<1>1. /\ UNCHANGED <<clients, refresh, sessions, access, held, rest, req, next, granted>>
      /\ codes' \subseteq codes
  BY DEF TokenFromCode, CodesWithout
<1>2. OneTokenPerSession' /\ (\A y1, y2 \in codes' : y1.id = y2.id => y1 = y2)
  BY <1>1 DEF SessionInv, OneTokenPerSession, CodesAreUnspent
<1>3. \A s \in revoked' : s < next.sid /\ (s \in revoked \/ ~Alive(s)')
  BY <1>1 DEF SessionInv, IdsWereIssued, rest
<1> QED
  BY <1>1, <1>2, <1>3, Shrinking DEF rest

LEMMA CreateRefreshTokenInv ==
    ASSUME BoundsOK, SessionInv, SessionTypeOK', NEW r \in Requests, CreateRefreshToken(r)
    PROVE  SessionInv' /\ next'.sid = next.sid /\ \A s : Alive(s)' => Alive(s)
<1> DEFINE new == [id |-> next.token, client |-> req[r].client, sid |-> req[r].sid, ro |-> req[r].ro,
                   left |-> RefreshTicks]
<1>1. SessionTypeOK /\ ReqAt(r, "token") /\ Minting(r) /\ ~Verifies(r)
  BY DEF SessionInv, CreateRefreshToken, Minting, Verifies, ReqAt
<1>2. UNCHANGED <<clients, codes, sessions, access, held, granted, rest>> /\ refresh' = refresh \cup {new}
  BY DEF CreateRefreshToken
<1>3. /\ next'.code = next.code /\ next'.token = next.token + 1 /\ next'.sid = next.sid
      /\ next.token \in Nat
  BY <1>1 DEF CreateRefreshToken, SessionTypeOK
<1>4. /\ req'[r].pc = "session" /\ req'[r].client = req[r].client /\ req'[r].ro = req[r].ro
      /\ req'[r].sid = req[r].sid /\ req'[r].token = next.token
      /\ \A q \in Requests : q # r => req'[q] = req[q]
  BY <1>1, GotoReq DEF CreateRefreshToken
<1>5. /\ Minting(r)' /\ ~Verifies(r)' /\ ReqAt(r, "session")' /\ ~ReqAt(r, "token")'
      /\ \A q \in Requests : /\ Minting(q)' <=> Minting(q)
                             /\ Verifies(q)' <=> Verifies(q)
                             /\ req'[q].sid = req[q].sid /\ req'[q].client = req[q].client
                             /\ req'[q].ro = req[q].ro
  BY <1>1, <1>4 DEF Minting, Verifies, ReqAt
<1>6. /\ new.id = next.token /\ new.client = req[r].client /\ new.sid = req[r].sid /\ new.ro = req[r].ro
      /\ \A t \in refresh' : t \in refresh \/ t = new
  BY <1>2
<1> HIDE DEF new
<1>7. \A s : Alive(s)' => Alive(s)
  BY <1>1, <1>2, <1>5, <1>6 DEF Alive
<1>8. req[r].sid < next.sid /\ req[r].sid # 0
  BY <1>1, SidTypes DEF SessionInv, IdsWereIssued
<1>9. IdsWereIssued'
  <2>1. \A t \in refresh : t.id \in Nat /\ t.id < next.token
    BY <1>1 DEF SessionInv, SessionTypeOK, IdsWereIssued
  <2>2. \A i \in held : i \in Nat /\ i < next.token
    BY <1>1 DEF SessionInv, SessionTypeOK, IdsWereIssued
  <2>3. \A i \in Nat : i < next.token => i < next.token + 1
    BY <1>3
  <2>4. \A t \in refresh' : t.id < next'.token /\ t.sid < next'.sid
    BY <1>3, <1>6, <1>8, <2>1, <2>3 DEF SessionInv, IdsWereIssued
  <2>5. \A q \in Requests : ReqAt(q, "session")' => req'[q].token < next'.token
    BY <1>1, <1>3, <1>4, <2>3, SidTypes DEF SessionInv, IdsWereIssued, ReqAt
  <2>6. \A i \in held : i < next'.token
    BY <1>3, <2>2, <2>3
  <2> QED
    BY <1>2, <1>3, <1>5, <2>4, <2>5, <2>6 DEF SessionInv, IdsWereIssued, rest
<1>10. CodesAreUnspent' /\ CodeOpensOne'
  BY <1>2 DEF SessionInv, CodesAreUnspent, CodeOpensOne
<1>11. MintedAlone'
  <2>1. \A r1, r2 \in Requests : Minting(r1)' /\ Minting(r2)' /\ req'[r1].sid = req'[r2].sid => r1 = r2
    BY <1>5 DEF SessionInv, MintedAlone
  <2>2. \A r1, r2 \in Requests :
          ReqAt(r1, "session")' /\ ReqAt(r2, "session")' /\ req'[r1].token = req'[r2].token => r1 = r2
    <3>1. \A q \in Requests : q # r /\ ReqAt(q, "session")' => ReqAt(q, "session") /\ req'[q] = req[q] /\ req[q].token # next.token
      BY <1>1, <1>3, <1>4, SidTypes DEF SessionInv, IdsWereIssued, ReqAt
    <3> QED
      BY <1>4, <3>1 DEF SessionInv, MintedAlone
  <2>3. \A q \in Requests : Minting(q)' =>
         /\ \A x \in sessions : x.sid # req'[q].sid
         /\ \A a \in access : a.sid # req'[q].sid
         /\ \A p \in Requests : Verifies(p)' => req'[p].sid # req'[q].sid
    BY <1>5 DEF SessionInv, MintedAlone
  <2>4. \A q \in Requests : q # r /\ Minting(q) => req[q].sid # req[r].sid
    BY <1>1 DEF SessionInv, MintedAlone
  <2>5. \A q \in Requests : ReqAt(q, "token")' => \A t \in refresh' : t.sid # req'[q].sid
    <3>1. \A q \in Requests : ReqAt(q, "token")' => q # r /\ ReqAt(q, "token") /\ Minting(q) /\ req'[q] = req[q]
      BY <1>4, <1>5 DEF ReqAt, Minting
    <3> QED
      BY <1>6, <2>4, <3>1 DEF SessionInv, MintedAlone
  <2>6. \A q \in Requests : ReqAt(q, "session")' =>
         /\ req'[q].token \notin held
         /\ \A t \in refresh' : t.sid = req'[q].sid => t.id = req'[q].token
    <3>1. ASSUME NEW q \in Requests, ReqAt(q, "session")', q # r
          PROVE  /\ req'[q].token \notin held
                 /\ \A t \in refresh' : t.sid = req'[q].sid => t.id = req'[q].token
      <4>1. ReqAt(q, "session") /\ Minting(q) /\ req'[q] = req[q]
        BY <1>4, <3>1 DEF ReqAt, Minting
      <4> QED
        BY <1>6, <2>4, <3>1, <4>1 DEF SessionInv, MintedAlone
    <3>2. next.token \notin held
      BY <1>3 DEF SessionInv, IdsWereIssued
    <3>3. \A t \in refresh : t.sid # req[r].sid
      BY <1>1 DEF SessionInv, MintedAlone
    <3> QED
      BY <1>4, <1>6, <3>1, <3>2, <3>3
  <2> QED
    BY <1>2, <2>1, <2>2, <2>3, <2>5, <2>6 DEF MintedAlone
<1>12. FromConsent'
  <2>1. req[r].client = granted[req[r].sid].client /\ req[r].ro = granted[req[r].sid].ro
    BY <1>1 DEF SessionInv, FromConsent
  <2> QED
    BY <1>2, <1>5, <1>6, <2>1 DEF SessionInv, FromConsent
<1>13. OneTokenPerSession'
  <2>1. \A t \in refresh : t.sid # req[r].sid
    BY <1>1 DEF SessionInv, MintedAlone
  <2> QED
    BY <1>6, <2>1 DEF SessionInv, OneTokenPerSession
<1>14. RevokedIsDead'
  BY <1>2, <1>7 DEF SessionInv, RevokedIsDead, rest
<1>15. RefusedOnTheWay'
  <2>1. \A q \in Requests : Verifies(q)' =>
           q # r /\ Verifies(q) /\ req'[q] = req[q] /\ (Alive(req[q].sid)' => Alive(req[q].sid))
    <3> SUFFICES ASSUME NEW q \in Requests, Verifies(q)'
                 PROVE  q # r /\ Verifies(q) /\ req'[q] = req[q] /\ (Alive(req[q].sid)' => Alive(req[q].sid))
      OBVIOUS
    <3>1. q # r /\ Verifies(q) /\ req'[q] = req[q] /\ req'[q].sid = req[q].sid
      BY <1>4, <1>5
    <3>2. ASSUME NEW s, s = req'[q].sid PROVE Alive(req[q].sid)' <=> Alive(s)'
      BY <3>2
    <3> QED
      BY <1>7, <3>1, <3>2
  <2> QED
    BY <1>2, <2>1 DEF SessionInv, RefusedOnTheWay, ReqAt, Verifies, rest
<1> QED
  BY <1>3, <1>7, <1>9, <1>10, <1>11, <1>12, <1>13, <1>14, <1>15 DEF SessionInv

LEMMA CreateSessionInv ==
    ASSUME BoundsOK, SessionInv, SessionTypeOK', NEW r \in Requests, CreateMCPOAuthSession(r)
    PROVE  SessionInv' /\ next' = next /\ \A s : Alive(s)' => Alive(s)
<1> DEFINE row == SessionRow(req[r].sid, req[r].client)
           acc == Access(req[r].sid, req[r].client, req[r].ro)
<1>1. SessionTypeOK /\ ReqAt(r, "session") /\ Minting(r) /\ ~Verifies(r)
  BY DEF SessionInv, CreateMCPOAuthSession, Minting, Verifies, ReqAt
<1>2. /\ UNCHANGED <<clients, codes, refresh, next, granted, rest>>
      /\ held' = held \cup {req[r].token}
      /\ sessions' = sessions \cup {row} /\ access' = access \cup {acc}
  BY DEF CreateMCPOAuthSession
<1>3. req'[r] = NoRequest /\ \A q \in Requests : q # r => req'[q] = req[q]
  BY <1>1, GotoReq DEF CreateMCPOAuthSession, AnswerReq
<1>4. /\ row.sid = req[r].sid /\ row.client = req[r].client
      /\ acc.sid = req[r].sid /\ acc.client = req[r].client /\ acc.ro = req[r].ro
      /\ \A x \in sessions' : x \in sessions \/ x = row
      /\ \A a \in access' : a \in access \/ a = acc
  BY <1>2 DEF SessionRow, Access
<1> HIDE DEF row, acc
<1>5. /\ ~Minting(r)' /\ ~Verifies(r)' /\ ~ReqAt(r, "session")' /\ ~ReqAt(r, "token")'
      /\ \A q \in Requests : q # r => /\ Minting(q)' <=> Minting(q)
                                      /\ Verifies(q)' <=> Verifies(q)
                                      /\ req'[q] = req[q]
  BY <1>3 DEF Minting, Verifies, ReqAt, NoRequest
<1>6. /\ req[r].sid < next.sid
      /\ req[r].token < next.token
      /\ req[r].client = granted[req[r].sid].client /\ req[r].ro = granted[req[r].sid].ro
      /\ \A q \in Requests : q # r /\ Minting(q) => req[q].sid # req[r].sid
      /\ \A q \in Requests : q # r /\ ReqAt(q, "session") => req[q].token # req[r].token
  BY <1>1 DEF SessionInv, IdsWereIssued, FromConsent, MintedAlone
<1>7. \A s : Alive(s)' => Alive(s)
  BY <1>1, <1>2, <1>4, <1>5 DEF Alive
<1>8. IdsWereIssued'
  <2>1. \A q \in Requests : Minting(q)' \/ Verifies(q)' => req'[q].sid < next.sid
    BY <1>5 DEF SessionInv, IdsWereIssued
  <2>2. \A q \in Requests : ReqAt(q, "session")' => req'[q].token < next.token
    BY <1>5 DEF SessionInv, IdsWereIssued, ReqAt
  <2>3. /\ \A x \in sessions' : x.sid < next.sid
        /\ \A a \in access' : a.sid < next.sid
        /\ \A i \in held' : i < next.token
    BY <1>2, <1>4, <1>6 DEF SessionInv, IdsWereIssued
  <2> QED
    BY <1>2, <2>1, <2>2, <2>3 DEF SessionInv, IdsWereIssued, rest
<1>9. CodesAreUnspent' /\ CodeOpensOne' /\ OneTokenPerSession'
  BY <1>2 DEF SessionInv, CodesAreUnspent, CodeOpensOne, OneTokenPerSession
<1>10. MintedAlone'
  <2>1. \A q \in Requests : ReqAt(q, "session")' => q # r /\ ReqAt(q, "session") /\ req'[q] = req[q]
    BY <1>5 DEF ReqAt
  <2>2. \A q \in Requests : ReqAt(q, "token")' => q # r /\ ReqAt(q, "token") /\ req'[q] = req[q]
    BY <1>5 DEF ReqAt
  <2>3. \A q \in Requests : Minting(q)' => q # r /\ Minting(q) /\ req'[q] = req[q]
    BY <1>5
  <2>4. \A q \in Requests : Minting(q)' =>
         /\ \A x \in sessions' : x.sid # req'[q].sid
         /\ \A a \in access' : a.sid # req'[q].sid
         /\ \A p \in Requests : Verifies(p)' => req'[p].sid # req'[q].sid
    BY <1>4, <1>5, <1>6, <2>3 DEF SessionInv, MintedAlone
  <2>5. /\ \A q \in Requests : ReqAt(q, "token")' => \A t \in refresh' : t.sid # req'[q].sid
        /\ \A q \in Requests : ReqAt(q, "session")' =>
             /\ req'[q].token \notin held'
             /\ \A t \in refresh' : t.sid = req'[q].sid => t.id = req'[q].token
    BY <1>2, <1>6, <2>1, <2>2 DEF SessionInv, MintedAlone
  <2>6. \A r1, r2 \in Requests : Minting(r1)' /\ Minting(r2)' /\ req'[r1].sid = req'[r2].sid => r1 = r2
    BY <2>3 DEF SessionInv, MintedAlone
  <2>7. \A r1, r2 \in Requests :
          ReqAt(r1, "session")' /\ ReqAt(r2, "session")' /\ req'[r1].token = req'[r2].token => r1 = r2
    BY <2>1 DEF SessionInv, MintedAlone
  <2> QED
    BY <2>4, <2>5, <2>6, <2>7 DEF MintedAlone
<1>11. FromConsent'
  <2>1. /\ \A x \in sessions' : x.client = granted[x.sid].client
        /\ \A a \in access' : a.client = granted[a.sid].client /\ a.ro = granted[a.sid].ro
    BY <1>4, <1>6 DEF SessionInv, FromConsent
  <2>2. \A q \in Requests : /\ Minting(q)' => q # r /\ Minting(q) /\ req'[q] = req[q]
                            /\ Verifies(q)' => q # r /\ Verifies(q) /\ req'[q] = req[q]
    BY <1>5
  <2> QED
    BY <1>2, <2>1, <2>2 DEF SessionInv, FromConsent
<1>12. RevokedIsDead'
  BY <1>2, <1>7 DEF SessionInv, RevokedIsDead, rest
<1>13. RefusedOnTheWay'
  <2>1. \A q \in Requests : Verifies(q)' =>
           q # r /\ Verifies(q) /\ req'[q] = req[q] /\ (Alive(req[q].sid)' => Alive(req[q].sid))
    <3> SUFFICES ASSUME NEW q \in Requests, Verifies(q)'
                 PROVE  q # r /\ Verifies(q) /\ req'[q] = req[q] /\ (Alive(req[q].sid)' => Alive(req[q].sid))
      OBVIOUS
    <3>1. q # r /\ Verifies(q) /\ req'[q] = req[q]
      BY <1>5
    <3>2. ASSUME NEW s, s = req'[q].sid PROVE Alive(req[q].sid)' <=> Alive(s)'
      BY <3>2
    <3> QED
      BY <1>7, <3>1, <3>2
  <2> QED
    BY <1>2, <2>1 DEF SessionInv, RefusedOnTheWay, ReqAt, Verifies, rest
<1> QED
  BY <1>2, <1>7, <1>8, <1>9, <1>10, <1>11, <1>12, <1>13 DEF SessionInv

(* A rotation of a token that names its session.  No request is opening the *)
(* session, since nobody holds such a request's token yet.                  *)
LEMMA RotateInv ==
    ASSUME BoundsOK, SessionInv, SessionTypeOK', NEW t \in refresh, RotateRefreshToken(t), NEW n, n = SidOf(t)
    PROVE  /\ SessionInv' /\ n \in Sids /\ Alive(n)'
           /\ next'.sid = (IF t.sid = 0 THEN next.sid + 1 ELSE next.sid)
           /\ t.sid = 0 => n = next.sid /\ ~Alive(n)
           /\ t.sid # 0 => Alive(n)
           /\ \A s : s # n /\ s # 0 => (Alive(s)' <=> Alive(s))
<1> DEFINE new == Rotated(t)
           acc == [sid |-> n, client |-> t.client, ro |-> t.ro, left |-> AccessTicks]
<1>1. SessionTypeOK /\ t.id \in held
  BY DEF SessionInv, RotateRefreshToken
<1>2. /\ n \in Sids /\ n # 0 /\ n \in Nat
      /\ t.sid = 0 => n = next.sid
      /\ t.sid # 0 => n = t.sid
  BY <1>1, RotatedRow, SidTypes DEF SidOf, NewSid
<1>3. /\ UNCHANGED <<clients, codes, req, rest>>
      /\ held' = held \cup {next.token}
      /\ \A y \in refresh' : (y \in refresh /\ y # t) \/ y = new
      /\ new \in refresh'
      /\ \A y \in refresh : y # t => y \in refresh'
      /\ \A y \in access' : y \in access \/ y = acc
  <2>1. UNCHANGED <<clients, codes, req, rest>>
    BY DEF RotateRefreshToken
  <2>2. /\ refresh' = (refresh \ {t}) \cup {new} /\ access' = access \cup {acc}
        /\ held' = held \cup {next.token}
    BY <1>1, RotatedRow
  <2> HIDE DEF new, acc
  <2> QED
    BY <2>1, <2>2
<1>4. /\ new.id = next.token /\ new.client = t.client /\ new.sid = n /\ new.ro = t.ro
      /\ acc.sid = n /\ acc.client = t.client /\ acc.ro = t.ro
      /\ next'.code = next.code /\ next'.token = next.token + 1
      /\ next'.sid = IF t.sid = 0 THEN next.sid + 1 ELSE next.sid
  BY <1>1, RotatedRow
<1>5. /\ \A y \in sessions' : \/ y.sid = n /\ y.client = t.client
                              \/ \E x \in sessions : y.sid = x.sid /\ y.client = x.client
      /\ \E y \in sessions' : y.sid = n
      /\ \A x \in sessions : \E y \in sessions' : y.sid = x.sid
  BY <1>1, RotatedRow
<1> HIDE DEF new, acc
<1>6. /\ granted'[n].client = t.client /\ granted'[n].ro = t.ro
      /\ \A s \in Sids : s # n => granted'[s] = granted[s]
      /\ t.sid # 0 => granted' = granted
      /\ t.sid = 0 => granted'[n].code = 0
  <2>1. CASE t.sid = 0
    <3>1. granted' = [granted EXCEPT ![n] = [code |-> 0, client |-> t.client, ro |-> t.ro]]
      BY <1>2, <2>1 DEF RotateRefreshToken, NewSid
    <3> QED
      BY <1>1, <1>2, <2>1, <3>1 DEF SessionTypeOK
  <2>2. CASE t.sid # 0
    <3>1. granted' = granted
      BY <2>2 DEF RotateRefreshToken
    <3> QED
      BY <1>2, <2>2, <3>1 DEF SessionInv, FromConsent
  <2> QED
    BY <2>1, <2>2
<1>7. /\ \A q \in Requests : Minting(q) => req[q].sid # n
      /\ n \notin revoked
      /\ t.sid # 0 => Alive(n)
      /\ t.sid = 0 => ~Alive(n)
      /\ \A y \in refresh : y.sid = n => y = t
      /\ t.sid = 0 => \A q \in Requests : Verifies(q) => req[q].sid # n
      /\ t.sid = 0 => \A x \in sessions : x.sid # n
      /\ t.sid = 0 => \A a \in access : a.sid # n
  <2>1. CASE t.sid = 0
    BY <1>2, <2>1, NewSidUnused DEF Alive
  <2>2. CASE t.sid # 0
    <3>1. Alive(n)
      BY <1>2, <2>2 DEF Alive
    <3>2. \A q \in Requests : Minting(q) => req[q].sid # n
      BY <1>1, <1>2, <2>2 DEF SessionInv, MintedAlone, Minting
    <3>3. n \notin revoked
      BY <3>1 DEF SessionInv, RevokedIsDead
    <3>4. \A y \in refresh : y.sid = n => y = t
      BY <1>2, <2>2 DEF SessionInv, OneTokenPerSession
    <3> QED
      BY <2>2, <3>1, <3>2, <3>3, <3>4
  <2> QED
    BY <2>1, <2>2
<1>8. Alive(n)' /\ \A s : s # n /\ s # 0 => (Alive(s)' <=> Alive(s))
  <2>1. \A q \in Requests : (Minting(q)' <=> Minting(q)) /\ req'[q].sid = req[q].sid
    BY <1>3 DEF Minting, ReqAt
  <2>2. \A s : s # n /\ s # 0 => ((\E y \in refresh' : y.sid = s) <=> (\E y \in refresh : y.sid = s))
    BY <1>2, <1>3, <1>4
  <2>3. \A s : s # n => ((\E y \in sessions' : y.sid = s) <=> (\E y \in sessions : y.sid = s))
    BY <1>5
  <2>4. Alive(n)'
    BY <1>5 DEF Alive
  <2> QED
    BY <2>1, <2>2, <2>3, <2>4 DEF Alive
<1>9. IdsWereIssued'
  <2>1. /\ next.token \in Nat /\ next.sid \in Nat
        /\ \A y \in refresh : y.id \in Nat /\ y.sid \in Nat
        /\ \A i \in held : i \in Nat
        /\ \A s \in revoked : s \in Nat
        /\ \A x \in sessions : x.sid \in Nat
        /\ \A a \in access : a.sid \in Nat
        /\ \A q \in Requests : Minting(q) \/ Verifies(q) => req[q].sid \in Nat
        /\ \A q \in Requests : ReqAt(q, "session") => req[q].token \in Nat
    <3>1. \A y \in refresh : y.id \in Nat
      BY <1>1 DEF SessionTypeOK
    <3>2. \A i \in held : i \in Nat
      BY <1>1 DEF SessionTypeOK
    <3>3. \A s \in revoked : s \in Nat
      BY <1>1, SidTypes DEF SessionTypeOK
    <3> QED
      BY <1>1, <3>1, <3>2, <3>3, SidTypes
  <2>2. \A i \in Nat : i < next.token => i < next'.token
    BY <1>4, <2>1
  <2>3. \A i \in Nat : i < next.sid => i < next'.sid
    BY <1>4, <2>1
  <2>4. n < next'.sid /\ next.token < next'.token
    <3>1. t.sid # 0 => t.sid < next.sid
      BY DEF SessionInv, IdsWereIssued
    <3> QED
      BY <1>2, <1>4, <2>1, <3>1
  <2>5. \A s \in Sids : granted'[s].code < next'.code
    <3>1. 0 < next.code
      BY <1>1 DEF SessionTypeOK
    <3> QED
      BY <1>4, <1>6, <3>1 DEF SessionInv, IdsWereIssued
  <2>6. \A y \in refresh' : y.id < next'.token /\ y.sid < next'.sid
    BY <1>3, <1>4, <2>1, <2>2, <2>3, <2>4 DEF SessionInv, IdsWereIssued
  <2>7. (\A x \in sessions' : x.sid < next'.sid) /\ (\A a \in access' : a.sid < next'.sid)
    BY <1>3, <1>4, <1>5, <2>1, <2>3, <2>4 DEF SessionInv, IdsWereIssued
  <2>8. (\A i \in held' : i < next'.token) /\ (\A s \in revoked : s < next'.sid)
    BY <1>3, <2>1, <2>2, <2>3, <2>4 DEF SessionInv, IdsWereIssued
  <2>9. /\ \A q \in Requests : Minting(q) \/ Verifies(q) => req[q].sid < next'.sid
        /\ \A q \in Requests : ReqAt(q, "session") => req[q].token < next'.token
    BY <2>1, <2>2, <2>3 DEF SessionInv, IdsWereIssued
  <2> QED
    BY <1>3, <1>4, <2>5, <2>6, <2>7, <2>8, <2>9 DEF SessionInv, IdsWereIssued, rest, Minting, Verifies, ReqAt
<1>10. CodesAreUnspent' /\ CodeOpensOne'
  <2>1. \A k \in codes : k.id # 0
    BY <1>1 DEF SessionTypeOK
  <2> QED
    BY <1>3, <1>6, <2>1 DEF SessionInv, CodesAreUnspent, CodeOpensOne
<1>11. MintedAlone'
  <2>1. \A q \in Requests : ReqAt(q, "session") => req[q].token # next.token
    BY <1>1, SidTypes DEF SessionInv, IdsWereIssued
  <2>2. \A q \in Requests : Minting(q) =>
          /\ \A x \in sessions' : x.sid # req[q].sid
          /\ \A a \in access' : a.sid # req[q].sid
    BY <1>3, <1>4, <1>5, <1>7 DEF SessionInv, MintedAlone
  <2>3. \A q \in Requests : ReqAt(q, "token") => \A y \in refresh' : y.sid # req[q].sid
    BY <1>3, <1>4, <1>7 DEF SessionInv, MintedAlone, Minting
  <2>4. \A q \in Requests : ReqAt(q, "session") =>
          /\ req[q].token \notin held'
          /\ \A y \in refresh' : y.sid = req[q].sid => y.id = req[q].token
    BY <1>3, <1>4, <1>7, <2>1 DEF SessionInv, MintedAlone, Minting
  <2> QED
    BY <1>3, <2>2, <2>3, <2>4 DEF SessionInv, MintedAlone, Minting, Verifies, ReqAt
<1>12. FromConsent'
  <2>1. (\A x \in sessions : x.sid \in Sids) /\ (\A a \in access : a.sid \in Sids)
    BY <1>1, SidTypes
  <2>2. /\ \A y \in refresh : y.sid # 0 => y.sid \in Sids
        /\ \A q \in Requests : Minting(q) \/ Verifies(q) => req[q].sid \in Sids
    BY <1>1, SidTypes
  <2>3. \A x \in sessions' : x.client = granted'[x.sid].client
    BY <1>5, <1>6, <1>7, <2>1 DEF SessionInv, FromConsent
  <2>4. \A a \in access' : a.client = granted'[a.sid].client /\ a.ro = granted'[a.sid].ro
    BY <1>3, <1>4, <1>6, <1>7, <2>1 DEF SessionInv, FromConsent
  <2>5. \A y \in refresh' : y.sid # 0 => y.client = granted'[y.sid].client /\ y.ro = granted'[y.sid].ro
    BY <1>3, <1>4, <1>6, <1>7, <2>2 DEF SessionInv, FromConsent
  <2>6. \A q \in Requests : Minting(q) =>
          req[q].client = granted'[req[q].sid].client /\ req[q].ro = granted'[req[q].sid].ro
    BY <1>6, <1>7, <2>2 DEF SessionInv, FromConsent
  <2>7. \A q \in Requests : Verifies(q) => req[q].client = granted'[req[q].sid].client
    BY <1>6, <1>7, <2>2 DEF SessionInv, FromConsent
  <2> QED
    BY <1>3, <2>3, <2>4, <2>5, <2>6, <2>7 DEF FromConsent, Minting, Verifies, ReqAt
<1>13. OneTokenPerSession'
  BY <1>3, <1>4, <1>7 DEF SessionInv, OneTokenPerSession
<1>14. RevokedIsDead'
  <2>1. \A s \in revoked : s # 0
    BY <1>1, SidTypes DEF SessionTypeOK
  <2> QED
    BY <1>3, <1>7, <1>8, <2>1 DEF SessionInv, RevokedIsDead, rest
<1>15. RefusedOnTheWay'
  <2>1. \A s : s # 0 /\ (t.sid = 0 => s # n) => (Alive(s)' => Alive(s))
    BY <1>7, <1>8
  <2>2. \A q \in Requests : Verifies(q) => (Alive(req[q].sid)' => Alive(req[q].sid))
    <3> SUFFICES ASSUME NEW q \in Requests, Verifies(q)
                 PROVE  Alive(req[q].sid)' => Alive(req[q].sid)
      OBVIOUS
    <3>1. ASSUME NEW s, s = req'[q].sid PROVE Alive(req[q].sid)' <=> Alive(s)'
      BY <3>1
    <3>2. req[q].sid # 0 /\ req'[q].sid = req[q].sid /\ (t.sid = 0 => req[q].sid # n)
      BY <1>1, <1>3, <1>7, SidTypes
    <3> QED
      BY <2>1, <3>1, <3>2
  <2> QED
    BY <1>3, <2>2 DEF SessionInv, RefusedOnTheWay, ReqAt, Verifies, rest
<1> QED
  BY <1>2, <1>4, <1>7, <1>8, <1>9, <1>10, <1>11, <1>12, <1>13, <1>14, <1>15 DEF SessionInv

-----------------------------------------------------------------------------
(* The results.                                                             *)

(* A step keeps the invariant, and either ends sessions at most or opens    *)
(* the next one.                                                            *)
LEMMA SessionNextInv ==
    ASSUME BoundsOK, SessionInv, [SessionNext]_mvars
    PROVE  /\ SessionInv'
           /\ \/ next'.sid = next.sid /\ \A s \in Sids : Alive(s)' => Alive(s)
              \/ \E n \in Sids : /\ n = next.sid /\ next'.sid = n + 1
                                 /\ Alive(n)' /\ ~Alive(n)
                                 /\ \A s \in Sids : s # n => (Alive(s)' <=> Alive(s))
<1>1. SessionTypeOK'
  BY NextType DEF SessionInv
<1>2. CASE \/ \E c \in Clients : Register(c) \/ DeleteOAuthClient(c)
           \/ \E t \in refresh, right \in BOOLEAN : RotateRefused(t, right)
           \/ DeleteUser \/ SweepStatement \/ UNCHANGED mvars
  BY <1>1, <1>2, TablesInv
<1>3. CASE (\E s \in Sids : Revoke(s)) \/ Tick
  BY <1>1, <1>3, RevokeInv, TickInv
<1>4. ASSUME NEW t \in refresh, RotateRefreshToken(t)
      PROVE  /\ SessionInv'
             /\ \/ next'.sid = next.sid /\ \A s \in Sids : Alive(s)' => Alive(s)
                \/ \E n \in Sids : /\ n = next.sid /\ next'.sid = n + 1
                                   /\ Alive(n)' /\ ~Alive(n)
                                   /\ \A s \in Sids : s # n => (Alive(s)' <=> Alive(s))
  <2>1. PICK n : n = SidOf(t)
    OBVIOUS
  <2>2. /\ SessionInv' /\ n \in Sids /\ Alive(n)'
        /\ next'.sid = (IF t.sid = 0 THEN next.sid + 1 ELSE next.sid)
        /\ t.sid = 0 => n = next.sid /\ ~Alive(n)
        /\ t.sid # 0 => Alive(n)
        /\ \A s : s # n /\ s # 0 => (Alive(s)' <=> Alive(s))
    BY <1>1, <1>4, <2>1, RotateInv
  <2>3. \A s \in Sids : s # 0
    BY DEF Sids
  <2>4. CASE t.sid = 0
    BY <2>2, <2>3, <2>4
  <2>5. CASE t.sid # 0
    BY <2>2, <2>3, <2>5
  <2> QED
    BY <2>4, <2>5
<1>5. ASSUME NEW r \in Requests, Step(r)
      PROVE  /\ SessionInv'
             /\ \/ next'.sid = next.sid /\ \A s \in Sids : Alive(s)' => Alive(s)
                \/ \E n \in Sids : /\ n = next.sid /\ next'.sid = n + 1
                                   /\ Alive(n)' /\ ~Alive(n)
                                   /\ \A s \in Sids : s # n => (Alive(s)' <=> Alive(s))
  <2>1. CASE \/ \E c \in Clients, ro \in BOOLEAN : Authorize(r, c, ro)
             \/ Fault(r) \/ Run(r) \/ VerifyClient(r) \/ VerifySession(r)
             \/ \E a \in access : VerifyUser(r, a)
    BY <1>1, <2>1, MovesInv
  <2>2. CASE CreateOAuthCode(r) \/ CreateRefreshToken(r) \/ CreateMCPOAuthSession(r)
    BY <1>1, <2>2, CreateOAuthCodeInv, CreateRefreshTokenInv, CreateSessionInv
  <2>3. ASSUME NEW k \in codes, NEW right \in BOOLEAN, TokenFromCode(r, k, right)
        PROVE  /\ SessionInv'
               /\ \/ next'.sid = next.sid /\ \A s \in Sids : Alive(s)' => Alive(s)
                  \/ \E n \in Sids : /\ n = next.sid /\ next'.sid = n + 1
                                     /\ Alive(n)' /\ ~Alive(n)
                                     /\ \A s \in Sids : s # n => (Alive(s)' <=> Alive(s))
    <3>1. CASE right /\ k.left > 0
      <4>1. PICK n : n = next.sid
        OBVIOUS
      <4>2. /\ SessionInv' /\ next'.sid = n + 1 /\ n \in Sids /\ Alive(n)'
            /\ \A s : s # n => (Alive(s)' <=> Alive(s))
        BY <1>1, <2>3, <3>1, <4>1, TokenFromCodeInv
      <4>3. ~Alive(n)
        BY <4>1, NewSidUnused
      <4> QED
        BY <4>1, <4>2, <4>3
    <3>2. CASE ~(right /\ k.left > 0)
      BY <1>1, <2>3, <3>2, CodeRefusedInv
    <3> QED
      BY <3>1, <3>2
  <2> QED
    BY <1>5, <2>1, <2>2, <2>3 DEF Step
<1> QED
  BY <1>2, <1>3, <1>4, <1>5 DEF SessionNext

LEMMA SessionInitInv == ASSUME BoundsOK, SessionInit PROVE SessionInv
<1>1. SessionTypeOK
  BY InitType
<1>2. /\ codes = {} /\ sessions = {} /\ access = {} /\ revoked = {}
      /\ next.code = 1 /\ next.token = 2 /\ next.sid = 1
      /\ \A s \in Sids : granted[s].code = 0
      /\ \A r \in Requests : req[r] = NoRequest
  BY DEF SessionInit
<1>3. \A r \in Requests : /\ ~Minting(r) /\ ~Verifies(r)
                          /\ ~ReqAt(r, "token") /\ ~ReqAt(r, "session")
                          /\ ~ReqAt(r, "client") /\ ~ReqAt(r, "exists") /\ ~ReqAt(r, "run")
  BY <1>2 DEF Minting, Verifies, ReqAt, NoRequest
<1>4. /\ \A t \in refresh : t.id = 1 /\ t.sid = 0
      /\ \A i \in held : i = 1
  <2>1. \A t \in Legacy : t.id = 1 /\ t.sid = 0
    BY DEF Legacy
  <2>2. refresh \subseteq Legacy /\ held = {t.id : t \in refresh}
    BY DEF SessionInit
  <2> QED
    BY <2>1, <2>2
<1>5. IdsWereIssued
  BY <1>2, <1>3, <1>4 DEF IdsWereIssued
<1>6. CodesAreUnspent /\ CodeOpensOne /\ OneTokenPerSession /\ RevokedIsDead
  BY <1>2, <1>4 DEF CodesAreUnspent, CodeOpensOne, OneTokenPerSession, RevokedIsDead
<1>7. MintedAlone /\ FromConsent /\ RefusedOnTheWay
  BY <1>2, <1>3, <1>4 DEF MintedAlone, FromConsent, RefusedOnTheWay
<1> QED
  BY <1>1, <1>5, <1>6, <1>7 DEF SessionInv

(* The inductive invariant of the OAuth server's tables and of the requests *)
(* between two of their statements.                                         *)
THEOREM SessionInvariance == SessionSpec => []SessionInv
<1>1. SessionInit => SessionInv
  BY SessionBounds, SessionInitInv
<1>2. SessionInv /\ [SessionNext]_mvars => SessionInv'
  BY SessionBounds, SessionNextInv
<1> QED
  BY <1>1, <1>2, PTL DEF SessionSpec

LEMMA InvIsEnough == SessionInv => SessionsEndForGood
<1> SUFFICES ASSUME SessionInv PROVE SessionsEndForGood
  OBVIOUS
<1>1. RevokedIsRefused /\ OrphanIsRefused
  BY DEF SessionInv, RefusedOnTheWay, RevokedIsRefused, OrphanIsRefused
<1>2. ScopeKept
  BY DEF SessionInv, FromConsent, ScopeKept
<1> QED
  BY <1>1, <1>2 DEF SessionInv, SessionsEndForGood

(* deleteMCPOAuthSessionTx, verifyToken, RotateRefreshToken and             *)
(* ConsumeOAuthCode, however their statements interleave: a revoked session *)
(* cannot be renewed, late requests are refused, a code opens one session,  *)
(* a session has one refresh token at most, and rotation keeps the scope.   *)
THEOREM SessionsEnd == SessionSpec => []SessionsEndForGood
  BY SessionInvariance, InvIsEnough, PTL

LEMMA LifeStep == ASSUME BoundsOK, SessionInv, [SessionNext]_mvars PROVE [Life!Next]_LifeOf
<1>1. next.sid \in Nat /\ \A s \in Sids : s \in Nat
  BY SidTypes DEF SessionInv
<1>2. \A s \in Sids : Alive(s) => s < next.sid
  BY DEF SessionInv, Alive, IdsWereIssued
<1>3. CASE next'.sid = next.sid /\ \A s \in Sids : Alive(s)' => Alive(s)
  <2> DEFINE S == {s \in Sids : Alive(s) /\ ~Alive(s)'}
  <2>1. \A s \in S : LifeOf[s] = "live"
    BY DEF LifeOf
  <2>2. LifeOf' = [s \in Sids |-> IF s \in S THEN "dead" ELSE LifeOf[s]]
    BY <1>2, <1>3 DEF LifeOf
  <2>3. S \in SUBSET Sids
    OBVIOUS
  <2> QED
    BY <2>1, <2>2, <2>3 DEF Life!Next, Life!End
<1>4. ASSUME NEW n \in Sids, n = next.sid, next'.sid = n + 1, Alive(n)', ~Alive(n),
             \A s \in Sids : s # n => (Alive(s)' <=> Alive(s))
      PROVE  Life!Next
  <2>1. LifeOf[n] = "unborn"
    BY <1>1, <1>4 DEF LifeOf
  <2>2. \A s \in Sids : s # n => (s < next'.sid <=> s < next.sid)
    BY <1>1, <1>4
  <2>3. LifeOf' = [LifeOf EXCEPT ![n] = "live"]
    BY <1>4, <2>2 DEF LifeOf
  <2> QED
    BY <2>1, <2>3 DEF Life!Next, Life!Open
<1> QED
  BY <1>3, <1>4, SessionNextInv

LEMMA LifeStart == ASSUME BoundsOK, SessionInit PROVE Life!Init
<1>1. \A s \in Sids : ~Alive(s) /\ ~(s < next.sid)
  <2>1. SessionInv /\ next.sid = 1 /\ \A s \in Sids : s \in Nat /\ s >= 1
    BY SessionInitInv DEF SessionInit, Sids
  <2> QED
    BY <2>1 DEF SessionInv, Alive, IdsWereIssued, Minting
<1> QED
  BY <1>1 DEF Life!Init, Life!Unborn, LifeOf

(* The three tables and the requests between their statements implement     *)
(* SessionLife: every step of a handler opens one session, ends some or     *)
(* changes none, and no step brings an ended session back.                  *)
THEOREM LivesOnce == SessionSpec => LifeOnce
<1>1. SessionInit => Life!Init
  BY SessionBounds, LifeStart
<1>2. SessionInv /\ [SessionNext]_mvars => [Life!Next]_LifeOf
  BY SessionBounds, LifeStep
<1> QED
  BY <1>1, <1>2, SessionInvariance, PTL DEF SessionSpec, LifeOnce
=============================================================================
