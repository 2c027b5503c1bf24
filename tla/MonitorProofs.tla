---------------------------- MODULE MonitorProofs ----------------------------
(***************************************************************************)
(* Proofs about the parts of internal/monitor that LogFollowers and the    *)
(* run rules hold, for any values of their constants.                      *)
(*                                                                         *)
(*   - the log followers: EntryIsAlive and OrphansAreLate are inductive    *)
(*     together with the types and the fact that only live followers are   *)
(*     cancelled;                                                          *)
(*   - the maintenance windows: what DayStart computes, that an occurrence *)
(*     stays near its day, and that the rows are schedules the handlers    *)
(*     accepted;                                                           *)
(*   - the edge-triggered rules: which starts are still remembered, and    *)
(*     what a stored cooldown says about the last delivery.                *)
(***************************************************************************)
EXTENDS LogFollowers, MCRules, FiniteSetTheorems, WellFoundedInduction, TLAPS

USE DEF Passes, Goroutines

CancelledAreLive == \A f \in cancelled : Live(f)

Inv == TypeOK /\ EntryIsAlive /\ OrphansAreLate /\ CancelledAreLive

LEMMA NoPassType ==
    ASSUME NEW pc \in {"idle", "walk", "stopped"}
    PROVE  NoPass(pc) \in Passes
  BY BoundsAssumption DEF NoPass, Versions

LEMMA InitInv == Init => Inv
<1> SUFFICES ASSUME Init PROVE Inv
  OBVIOUS
<1>1. TypeOK
  <2>1. pass \in Passes
    BY NoPassType DEF Init
  <2>2. version \in [Keys -> Versions] /\ changes \in 0..MaxChanges /\ faults \in 0..MaxFaults
    BY BoundsAssumption DEF Init, Versions
  <2>3. /\ logCancels \in [Keys -> Followers \cup {NoFollower}]
        /\ follower \in [Followers -> Goroutines \cup {Free}]
    BY DEF Init
  <2> QED
    BY <2>1, <2>2, <2>3 DEF Init, TypeOK
<1>2. EntryIsAlive /\ OrphansAreLate /\ CancelledAreLive
  BY DEF Init, EntryIsAlive, OrphansAreLate, CancelledAreLive, Live, Free
<1> QED
  BY <1>1, <1>2 DEF Inv

(* The table and the followers decide everything but the types.             *)
LEMMA SameTable ==
    ASSUME Inv, TypeOK', UNCHANGED table
    PROVE  Inv'
  BY DEF Inv, EntryIsAlive, OrphansAreLate, CancelledAreLive, Live, table

LEMMA FailsBounds ==
    ASSUME TypeOK, Fails
    PROVE  changes' \in 0..MaxChanges /\ faults' \in 0..MaxFaults
  BY BoundsAssumption DEF TypeOK, Fails, bounds

(* ensureFollower either finds an entry or starts a follower and enters it. *)
LEMMA EnsureKeeps ==
    ASSUME Inv, NEW k \in Keys, ensureFollower(k)
    PROVE  Inv'
<1> USE DEF Inv
<1>0. /\ pass' \in Passes
      /\ UNCHANGED <<enabled, running, version, ctxDone, changes, faults>>
  BY DEF TypeOK, ensureFollower, rules, bounds
<1>1. CASE UNCHANGED table
  <2>1. TypeOK'
    BY <1>0, <1>1 DEF TypeOK, table
  <2> QED
    BY <1>1, <2>1, SameTable
<1>2. ASSUME NEW f \in Followers, logCancels[k] = NoFollower, ~Live(f),
             follower' = [follower EXCEPT ![f] =
                            [key |-> k, ver |-> pass.ver[k], st |-> "streaming"]],
             logCancels' = [logCancels EXCEPT ![k] = f],
             UNCHANGED <<cancelled, late>>
      PROVE  Inv'
  <2> DEFINE new == [key |-> k, ver |-> pass.ver[k], st |-> "streaming"]
  <2>1. new \in Goroutines
    BY DEF TypeOK
  <2>2. follower'[f] = new /\ \A g \in Followers \ {f} : follower'[g] = follower[g]
    BY <1>2 DEF TypeOK
  <2>3. logCancels'[k] = f /\ \A j \in Keys \ {k} : logCancels'[j] = logCancels[j]
    BY <1>2 DEF TypeOK
  <2>4. TypeOK'
    <3>1. follower' \in [Followers -> Goroutines \cup {Free}]
      BY <1>2, <2>1 DEF TypeOK
    <3>2. logCancels' \in [Keys -> Followers \cup {NoFollower}]
      BY <1>2 DEF TypeOK
    <3> QED
      BY <1>0, <1>2, <3>1, <3>2 DEF TypeOK
  <2>5. EntryIsAlive'
    BY <2>2, <2>3, <1>2 DEF EntryIsAlive, Live, TypeOK
  <2>6. OrphansAreLate'
    <3> SUFFICES ASSUME NEW g \in Followers, Live(g)', g \notin cancelled'
                 PROVE  (logCancels[follower[g].key] = g \/ follower[g].key \in late)'
      BY DEF OrphansAreLate
    <3>1. CASE g = f
      BY <3>1, <2>2, <2>3
    <3>2. CASE g # f
      <4>1. follower'[g] = follower[g] /\ Live(g) /\ g \notin cancelled
        BY <3>2, <2>2, <1>2 DEF Live
      <4>2. logCancels[follower[g].key] = g \/ follower[g].key \in late
        BY <4>1 DEF OrphansAreLate
      <4>3. follower[g].key \in Keys
        BY <4>1 DEF TypeOK, Live, Free
      <4>4. CASE follower[g].key = k
        BY <4>1, <4>2, <4>4, <1>2, FollowersAssumption
      <4>5. CASE follower[g].key # k
        BY <4>1, <4>2, <4>3, <4>5, <2>3, <1>2
      <4> QED
        BY <4>4, <4>5
    <3> QED
      BY <3>1, <3>2
  <2>7. CancelledAreLive'
    BY <2>2, <1>2 DEF CancelledAreLive, Live, TypeOK
  <2> QED
    BY <2>4, <2>5, <2>6, <2>7
<1> QED
  BY <1>1, <1>2 DEF ensureFollower

(* Cancelling keys of the table leaves no follower without entry uncalled.  *)
LEMMA CancelKeeps ==
    ASSUME Inv, NEW S \in SUBSET Keys, CancelKeys(S), TypeOK'
    PROVE  Inv'
<1> USE DEF Inv
<1>1. /\ follower' = follower /\ late' = late
      /\ \A j \in Keys : logCancels'[j] = IF j \in S THEN NoFollower ELSE logCancels[j]
  BY DEF CancelKeys
<1>2. \A f \in Followers : f \notin cancelled' =>
          f \notin cancelled /\ \A j \in S : logCancels[j] # f
  BY FollowersAssumption DEF CancelKeys
<1>3. EntryIsAlive'
  BY <1>1 DEF EntryIsAlive
<1>4. OrphansAreLate'
  <2> SUFFICES ASSUME NEW g \in Followers, Live(g)', g \notin cancelled'
               PROVE  (logCancels[follower[g].key] = g \/ follower[g].key \in late)'
    BY DEF OrphansAreLate
  <2>1. Live(g) /\ follower[g].key \in Keys
    BY <1>1 DEF Live, TypeOK, Free
  <2>2. logCancels[follower[g].key] = g \/ follower[g].key \in late
    BY <2>1, <1>2 DEF OrphansAreLate
  <2> QED
    BY <2>1, <2>2, <1>1, <1>2
<1>5. CancelledAreLive'
  <2>1. \A f \in cancelled' : f \in cancelled \/ \E j \in S : logCancels[j] = f /\ f # NoFollower
    BY DEF CancelKeys
  <2> QED
    BY <2>1, <1>1 DEF CancelledAreLive, EntryIsAlive, Live
<1> QED
  BY <1>3, <1>4, <1>5

LEMMA CancelTypes ==
    ASSUME TypeOK, NEW S \in SUBSET Keys, CancelKeys(S)
    PROVE  /\ cancelled' \subseteq Followers
           /\ logCancels' \in [Keys -> Followers \cup {NoFollower}]
           /\ follower' = follower /\ late' = late
<1>1. \A j \in Keys : logCancels[j] \in Followers \cup {NoFollower}
  BY DEF TypeOK
<1>2. \A f \in cancelled' : f \in cancelled \/ \E j \in S : logCancels[j] = f /\ f # NoFollower
  BY DEF CancelKeys
<1>3. cancelled' \subseteq Followers
  BY <1>1, <1>2 DEF TypeOK
<1> QED
  BY <1>1, <1>3 DEF CancelKeys

LEMMA StreamKeeps ==
    ASSUME Inv, NEW f \in Followers, StreamReturns(f)
    PROVE  Inv'
<1> USE DEF Inv
<1>0. UNCHANGED <<enabled, running, version, logCancels, cancelled, late, ctxDone, pass, changes, faults>>
  BY DEF StreamReturns, rules, bounds
<1>1. follower[f] \in Goroutines
  BY DEF TypeOK, StreamReturns, Free
<1>2. /\ follower' \in [Followers -> Goroutines \cup {Free}]
      /\ \A g \in Followers : follower'[g].key = follower[g].key
      /\ \A g \in Followers : follower'[g].st # "free" <=> follower[g].st # "free"
  BY <1>1 DEF TypeOK, StreamReturns
<1>3. TypeOK'
  BY <1>0, <1>2 DEF TypeOK
<1>4. \A j \in Keys : logCancels[j] # NoFollower => logCancels[j] \in Followers
  BY DEF TypeOK
<1> QED
  <2>1. EntryIsAlive'
    BY <1>0, <1>2, <1>4 DEF EntryIsAlive
  <2>2. OrphansAreLate'
    BY <1>0, <1>2 DEF OrphansAreLate, Live
  <2>3. CancelledAreLive'
    BY <1>0, <1>2 DEF CancelledAreLive, Live, TypeOK
  <2> QED
    BY <1>3, <2>1, <2>2, <2>3

(* A cleanup that takes another's entry marks the key late.                 *)
LEMMA CleanupKeeps ==
    ASSUME Inv, NEW f \in Followers, cleanup(f)
    PROVE  Inv'
<1> USE DEF Inv
<1> DEFINE k == follower[f].key
<1>0. UNCHANGED <<enabled, running, version, ctxDone, pass, changes, faults>>
  BY DEF cleanup, rules, bounds
<1>1. follower[f] \in Goroutines /\ k \in Keys
  BY DEF TypeOK, cleanup, Free
<1>2. follower'[f] = Free /\ \A g \in Followers \ {f} : follower'[g] = follower[g]
  BY DEF cleanup, TypeOK
<1>3. logCancels'[k] = NoFollower /\ \A j \in Keys \ {k} : logCancels'[j] = logCancels[j]
  BY <1>1 DEF cleanup, TypeOK
<1>4. /\ late \subseteq late' /\ late' \subseteq Keys
      /\ logCancels[k] \notin {NoFollower, f} => k \in late'
  BY <1>1 DEF cleanup, TypeOK
<1>5. TypeOK'
  <2>1. follower' \in [Followers -> Goroutines \cup {Free}]
    BY DEF cleanup, TypeOK
  <2>2. logCancels' \in [Keys -> Followers \cup {NoFollower}] /\ cancelled' \subseteq Followers
    BY DEF cleanup, TypeOK
  <2> QED
    BY <1>0, <1>4, <2>1, <2>2 DEF TypeOK
<1>6. EntryIsAlive'
  <2> SUFFICES ASSUME NEW j \in Keys, logCancels'[j] # NoFollower
               PROVE  follower'[logCancels'[j]].st # "free" /\ follower'[logCancels'[j]].key = j
    BY DEF EntryIsAlive
  <2>1. j # k /\ logCancels'[j] = logCancels[j]
    BY <1>3
  <2>2. logCancels[j] \in Followers /\ follower[logCancels[j]].key = j /\ follower[logCancels[j]].st # "free"
    BY <2>1 DEF EntryIsAlive, TypeOK
  <2> QED
    BY <2>1, <2>2, <1>2
<1>7. OrphansAreLate'
  <2> SUFFICES ASSUME NEW g \in Followers, Live(g)', g \notin cancelled'
               PROVE  (logCancels[follower[g].key] = g \/ follower[g].key \in late)'
    BY DEF OrphansAreLate
  <2>1. g # f /\ follower'[g] = follower[g] /\ Live(g) /\ g \notin cancelled
    BY <1>2 DEF Live, Free, cleanup
  <2>2. follower[g].key \in Keys /\ (logCancels[follower[g].key] = g \/ follower[g].key \in late)
    BY <2>1 DEF OrphansAreLate, TypeOK, Live, Free
  <2>3. CASE follower[g].key = k
    BY <2>1, <2>2, <2>3, <1>4, FollowersAssumption
  <2>4. CASE follower[g].key # k
    BY <2>1, <2>2, <2>4, <1>3, <1>4
  <2> QED
    BY <2>3, <2>4
<1>8. CancelledAreLive'
  BY <1>2 DEF CancelledAreLive, Live, cleanup, TypeOK
<1> QED
  BY <1>5, <1>6, <1>7, <1>8

LEMMA StepInv == Inv /\ [Next]_vars => Inv'
<1> SUFFICES ASSUME Inv, [Next]_vars PROVE Inv'
  OBVIOUS
<1>0. TypeOK
  BY DEF Inv
<1>1. CASE ReadRules
  <2>1. NoPass("walk") \in Passes
    BY NoPassType
  <2>2. TypeOK'
    BY <1>0, <1>1, <2>1, FailsBounds DEF ReadRules, TypeOK, rules, table, bounds
  <2> QED
    BY <1>1, <2>2, SameTable DEF ReadRules
<1>2. ASSUME NEW h \in Hosts, ListHost(h) PROVE Inv'
  <2>1. TypeOK'
    BY <1>0, <1>2, FailsBounds DEF ListHost, TypeOK, rules, table, bounds
  <2> QED
    BY <1>2, <2>1, SameTable DEF ListHost
<1>3. ASSUME NEW k \in Keys, ensureFollower(k) PROVE Inv'
  BY <1>3, EnsureKeeps
<1>4. CASE StopUnwanted
  <2>1. pass' \in Passes
    BY <1>4, NoPassType DEF StopUnwanted
  <2>2. CancelKeys(Keys \ pass.want) /\ Keys \ pass.want \in SUBSET Keys
    BY <1>4 DEF StopUnwanted
  <2>3. TypeOK'
    BY <1>0, <1>4, <2>1, <2>2, CancelTypes DEF StopUnwanted, TypeOK, rules, bounds
  <2> QED
    BY <2>2, <2>3, CancelKeeps
<1>5. CASE stopAllFollowers
  <2>1. pass' \in Passes
    BY <1>5, NoPassType DEF stopAllFollowers
  <2>2. CancelKeys(Keys) /\ Keys \in SUBSET Keys
    BY <1>5 DEF stopAllFollowers
  <2>3. TypeOK'
    BY <1>0, <1>5, <2>1, <2>2, CancelTypes DEF stopAllFollowers, TypeOK, rules, bounds
  <2> QED
    BY <2>2, <2>3, CancelKeeps
<1>6. ASSUME NEW f \in Followers, StreamReturns(f) PROVE Inv'
  BY <1>6, StreamKeeps
<1>7. ASSUME NEW f \in Followers, cleanup(f) PROVE Inv'
  BY <1>7, CleanupKeeps
<1>8. ASSUME NEW k \in Keys, ToggleRule(k) \/ EditRule(k) \/ ContainerChanges(k) PROVE Inv'
  <2>1. UNCHANGED <<table, ctxDone, pass, faults>> /\ changes' \in 0..MaxChanges
    BY <1>0, <1>8, BoundsAssumption DEF ToggleRule, EditRule, ContainerChanges, Change, TypeOK
  <2>2. enabled' \subseteq Keys /\ running' \subseteq Keys
    BY <1>0, <1>8 DEF ToggleRule, EditRule, ContainerChanges, TypeOK
  <2>3. version' \in [Keys -> Versions]
    BY <1>0, <1>8, BoundsAssumption DEF ToggleRule, EditRule, ContainerChanges, TypeOK, Versions
  <2>4. TypeOK'
    BY <1>0, <2>1, <2>2, <2>3 DEF TypeOK, table
  <2> QED
    BY <2>1, <2>4, SameTable
<1>9. CASE Shutdown
  <2>1. TypeOK'
    BY <1>0, <1>9 DEF Shutdown, TypeOK, rules, table, bounds
  <2> QED
    BY <1>9, <2>1, SameTable DEF Shutdown
<1>10. CASE UNCHANGED vars
  <2>1. TypeOK'
    BY <1>0, <1>10 DEF vars, TypeOK, rules, table, bounds
  <2> QED
    BY <1>10, <2>1, SameTable DEF vars
<1>11. CASE Done
  BY <1>10, <1>11 DEF Done
<1> QED
  BY <1>1, <1>2, <1>3, <1>4, <1>5, <1>6, <1>7, <1>8, <1>9, <1>10, <1>11 DEF Next, Reconcile

(***************************************************************************)
(* The state of the reconcile pass, the table and the followers keep their *)
(* types, for any keys, hosts and followers.                               *)
(***************************************************************************)
THEOREM TypeCorrect == Spec => []TypeOK
<1>1. Inv => TypeOK
  BY DEF Inv
<1> QED
  BY InitInv, StepInv, <1>1, PTL DEF Spec

(***************************************************************************)
(* No entry of m.logCancels outlives its follower, so no key is ever       *)
(* blocked from being followed again.                                      *)
(***************************************************************************)
THEOREM EntriesAlive == Spec => []EntryIsAlive
<1>1. Inv => EntryIsAlive
  BY DEF Inv
<1> QED
  BY InitInv, StepInv, <1>1, PTL DEF Spec

(***************************************************************************)
(* A follower that m.logCancels can no longer reach lost its entry to the  *)
(* late cleanup of an earlier follower of its key, and in no other way.    *)
(***************************************************************************)
THEOREM OnlyLateOrphans == Spec => []OrphansAreLate
<1>1. Inv => OrphansAreLate
  BY DEF Inv
<1> QED
  BY InitInv, StepInv, <1>1, PTL DEF Spec

(* The table and the goroutines agree, but for what a late cleanup took.    *)
THEOREM OwnedFollowers == Spec => []FollowersOwned
  BY EntriesAlive, OnlyLateOrphans, PTL DEF FollowersOwned

-----------------------------------------------------------------------------
(* The calendar.  DayStart is a recursive function, and what it computes     *)
(* would be an induction; a smallest counterexample does as well.            *)

LEMMA LeastNumber ==
    ASSUME NEW S \in SUBSET Nat, S # {}
    PROVE  \E x \in S : \A y \in S : x <= y
<1>1. PICK x \in S : \A y \in S : ~(<<y, x>> \in OpToRel(<, Nat))
  BY WFMin, NatLessThanWellFounded
<1>2. \A y \in S : ~(y < x)
  BY <1>1 DEF OpToRel
<1>3. x \in Nat /\ \A y \in S : y \in Nat
  OBVIOUS
<1>4. \A y \in S : x <= y
  BY <1>2, <1>3
<1> QED
  BY <1>4

LEMMA DaysFit ==
    /\ Len(DayLen) \in Nat \ {0} /\ Days = 1..Len(DayLen)
    /\ \A d \in Days : DayLen[d] \in Nat \ {0}
    /\ DayUnits \in Nat \ {0} /\ ChangeAt \in 0..DayUnits - 1
  BY CalendarAssumption DEF Days

(* The first n days have their beginnings.                                   *)
Begins(n, f) == f = [d \in 1..n |-> IF d = 1 THEN 0 ELSE f[d - 1] + DayLen[d - 1]]

LEMMA DaysBegin == \E f : Begins(Len(DayLen) + 1, f)
<1> DEFINE N == Len(DayLen)
           Bad == {n \in 1..N + 1 : ~ \E f : Begins(n, f)}
<1>0. N \in Nat
  BY DaysFit
<1> HIDE DEF N
<1> SUFFICES ASSUME Bad # {} PROVE FALSE
  BY <1>0 DEF N
<1>1. Bad \in SUBSET Nat
  BY <1>0
<1>2. PICK n \in Bad : \A m \in Bad : n <= m
  BY <1>1, LeastNumber
<1>3. n \in 1..N + 1 /\ n \in Nat
  BY <1>0, <1>2
<1>4. CASE n = 1
  <2> DEFINE g == [d \in 1..1 |-> 0]
  <2>1. Begins(1, g)
    BY DEF Begins
  <2> QED
    BY <1>2, <1>4, <2>1
<1>5. CASE n # 1
  <2>1. n - 1 \in 1..N + 1 /\ n - 1 \notin Bad
    <3>1. n - 1 \in 1..N + 1 /\ ~(n <= n - 1)
      BY <1>0, <1>3, <1>5
    <3> QED
      BY <1>2, <3>1
  <2>2. PICK f : Begins(n - 1, f)
    BY <2>1
  <2> DEFINE g == [d \in 1..n |-> IF d = n THEN f[n - 1] + DayLen[n - 1] ELSE f[d]]
  <2>3. \A d \in 1..n - 1 : f[d] = IF d = 1 THEN 0 ELSE f[d - 1] + DayLen[d - 1]
    BY <2>2 DEF Begins
  <2>4. \A d \in 1..n : g[d] = IF d = 1 THEN 0 ELSE g[d - 1] + DayLen[d - 1]
    <3> SUFFICES ASSUME NEW d \in 1..n PROVE g[d] = IF d = 1 THEN 0 ELSE g[d - 1] + DayLen[d - 1]
      OBVIOUS
    <3>1. CASE d = n
      <4>1. n - 1 \in 1..n /\ n - 1 # n
        BY <1>3, <1>5
      <4>2. g[n - 1] = f[n - 1]
        BY <4>1
      <4> QED
        BY <1>5, <3>1, <4>2
    <3>2. CASE d # n
      <4>1. d \in 1..n - 1
        BY <1>3, <3>2
      <4>2. g[d] = f[d] /\ (d # 1 => d - 1 \in 1..n /\ d - 1 # n)
        BY <1>3, <3>2
      <4>3. d # 1 => g[d - 1] = f[d - 1]
        BY <4>2
      <4> HIDE DEF g
      <4> QED
        BY <2>3, <4>1, <4>2, <4>3
    <3> QED
      BY <3>1, <3>2
  <2>5. Begins(n, g)
    <3>1. g = [d \in 1..n |-> g[d]]
      OBVIOUS
    <3> HIDE DEF g
    <3> QED
      BY <2>4, <3>1 DEF Begins
  <2> QED
    BY <1>2, <2>5
<1> QED
  BY <1>4, <1>5

LEMMA DayStartIs ==
    /\ DayStart[1] = 0
    /\ \A d \in Days : DayStart[d + 1] = DayStart[d] + DayLen[d]
<1>1. DayStart = CHOOSE f : Begins(Len(DayLen) + 1, f)
  BY DEF DayStart, Begins
<1>2. Begins(Len(DayLen) + 1, DayStart)
  BY <1>1, DaysBegin
<1>3. \A d \in 1..Len(DayLen) + 1 : DayStart[d] = IF d = 1 THEN 0 ELSE DayStart[d - 1] + DayLen[d - 1]
  BY <1>2 DEF Begins
<1>4. 1 \in 1..Len(DayLen) + 1 /\ \A d \in Days : d + 1 \in 1..Len(DayLen) + 1 /\ d + 1 # 1 /\ (d + 1) - 1 = d
  BY DaysFit
<1> QED
  BY <1>3, <1>4

LEMMA DayStartType == \A d \in 1..Len(DayLen) + 1 : DayStart[d] \in Nat
<1> DEFINE N == Len(DayLen)
           Bad == {d \in 1..N + 1 : DayStart[d] \notin Nat}
<1>0. N \in Nat /\ Days = 1..N
  BY DaysFit
<1> HIDE DEF N
<1> SUFFICES ASSUME Bad # {} PROVE FALSE
  BY DEF N
<1>1. Bad \in SUBSET Nat
  BY <1>0
<1>2. PICK d \in Bad : \A e \in Bad : d <= e
  BY <1>1, LeastNumber
<1>3. d # 1 /\ d \in 1..N + 1
  BY <1>2, DayStartIs
<1>4. d - 1 \in Days /\ d - 1 \notin Bad /\ d - 1 \in 1..N + 1 /\ (d - 1) + 1 = d
  <2>1. d - 1 \in 1..N /\ d - 1 \in 1..N + 1 /\ (d - 1) + 1 = d /\ ~(d <= d - 1)
    BY <1>0, <1>3
  <2> QED
    BY <1>0, <1>2, <2>1
<1>5. DayStart[d] = DayStart[d - 1] + DayLen[d - 1]
  BY <1>4, DayStartIs
<1>6. DayStart[d - 1] \in Nat /\ DayLen[d - 1] \in Nat
  BY <1>4, DaysFit
<1>7. DayStart[d] \in Nat
  BY <1>5, <1>6
<1> QED
  BY <1>2, <1>7

LEMMA DaysInOrder ==
    ASSUME NEW a \in 1..Len(DayLen) + 1, NEW b \in 1..Len(DayLen) + 1, a <= b
    PROVE  DayStart[a] <= DayStart[b]
<1> DEFINE N == Len(DayLen)
           Bad == {d \in 1..N + 1 : a <= d /\ ~(DayStart[a] <= DayStart[d])}
<1>0. N \in Nat /\ Days = 1..N /\ a \in 1..N + 1
  BY DaysFit
<1>t. \A d \in 1..N + 1 : DayStart[d] \in Nat
  BY DayStartType
<1> HIDE DEF N
<1> SUFFICES ASSUME Bad # {} PROVE FALSE
  BY DEF N
<1>1. Bad \in SUBSET Nat
  BY <1>0
<1>2. PICK d \in Bad : \A e \in Bad : d <= e
  BY <1>1, LeastNumber
<1>3. d # a /\ d \in 1..N + 1 /\ a <= d
  BY <1>0, <1>2, <1>t
<1>4. d - 1 \in 1..N /\ d - 1 \in 1..N + 1 /\ (d - 1) + 1 = d /\ ~(d <= d - 1) /\ a <= d - 1
  BY <1>0, <1>3
<1>5. DayStart[a] <= DayStart[d - 1]
  BY <1>2, <1>4
<1>6. DayStart[d] = DayStart[d - 1] + DayLen[d - 1] /\ DayLen[d - 1] \in Nat
  BY <1>0, <1>4, DayStartIs, DaysFit
<1>7. DayStart[a] \in Nat /\ DayStart[d - 1] \in Nat
  BY <1>0, <1>4, <1>t
<1>8. DayStart[a] <= DayStart[d]
  BY <1>5, <1>6, <1>7
<1> QED
  BY <1>2, <1>8

(* Every instant has its day.                                                *)
LEMMA DayOfIs ==
    ASSUME NEW t \in Instants
    PROVE  DayOf(t) \in Days /\ DayStart[DayOf(t)] <= t /\ t < DayStart[DayOf(t) + 1]
<1> DEFINE N == Len(DayLen)
           After == {d \in Days : t < DayStart[d + 1]}
<1>0. N \in Nat \ {0} /\ Days = 1..N /\ DayStart[N + 1] \in Nat
  BY DaysFit, DayStartType
<1>1. t \in 0..DayStart[N + 1] - 1
  BY DEF Instants, Horizon
<1> HIDE DEF N
<1>2. N \in After /\ t \in Nat /\ t < DayStart[N + 1]
  BY <1>0, <1>1
<1>3. After \in SUBSET Nat /\ After # {}
  <2>1. After \subseteq 1..N
    BY <1>0
  <2>2. After # {}
    BY <1>2
  <2> QED
    BY <1>0, <2>1, <2>2
<1>4. PICK d \in After : \A e \in After : d <= e
  BY <1>3, LeastNumber
<1>5. DayStart[d] <= t
  <2>1. CASE d = 1
    BY <1>2, <2>1, DayStartIs
  <2>2. CASE d # 1
    <3>1. d - 1 \in Days /\ ~(d <= d - 1) /\ (d - 1) + 1 = d /\ d \in 1..N + 1
      BY <1>0, <1>4, <2>2
    <3>2. ~(t < DayStart[d])
      BY <1>4, <3>1
    <3>3. DayStart[d] \in Nat
      BY <3>1, DayStartType DEF N
    <3> QED
      BY <1>2, <3>2, <3>3
  <2> QED
    BY <2>1, <2>2
<1> QED
  BY <1>4, <1>5 DEF DayOf

(* An occurrence begins on its own day, whatever the clocks do.              *)
LEMMA OccursThatDay ==
    ASSUME NEW d \in Days, NEW tod \in Nat, tod < DayUnits
    PROVE  DayStart[d] <= WallClock(d, tod) /\ WallClock(d, tod) < DayStart[d + 1] /\ WallClock(d, tod) \in Int
<1> DEFINE len == DayLen[d]
           start == DayStart[d]
<1>1. len \in Nat \ {0} /\ DayUnits \in Nat \ {0} /\ ChangeAt \in 0..DayUnits - 1
  BY DaysFit
<1>2. start \in Nat /\ DayStart[d + 1] = start + len
  <2>1. d \in 1..Len(DayLen) + 1
    BY DaysFit
  <2> QED
    BY <2>1, DayStartType, DayStartIs
<1>3. ChangeAt + (DayUnits - len) <= len
  BY ClocksAssumption, DaysFit
<1>4. CASE len < DayUnits
  <2>1. WallClock(d, tod) = start + (IF tod < ChangeAt + -(len - DayUnits) THEN tod ELSE tod + (len - DayUnits))
    <3>1. len - DayUnits < 0
      BY <1>1, <1>4
    <3> QED
      BY <3>1 DEF WallClock
  <2> HIDE DEF len, start
  <2>2. CASE tod < ChangeAt + (DayUnits - len)
    <3>1. WallClock(d, tod) = start + tod
      BY <1>1, <2>1, <2>2
    <3> QED
      BY <1>1, <1>2, <1>3, <2>2, <3>1 DEF start
  <2>3. CASE ~(tod < ChangeAt + (DayUnits - len))
    <3>1. WallClock(d, tod) = start + (tod + (len - DayUnits))
      BY <1>1, <2>1, <2>3
    <3> QED
      BY <1>1, <1>2, <2>3, <3>1 DEF start
  <2> QED
    BY <2>2, <2>3
<1>5. CASE ~(len < DayUnits)
  <2>1. WallClock(d, tod) = start + (IF tod < ChangeAt + 0 THEN tod ELSE tod + (len - DayUnits))
    <3>1. ~(len - DayUnits < 0)
      BY <1>1, <1>5
    <3> QED
      BY <3>1 DEF WallClock
  <2> HIDE DEF len, start
  <2>2. WallClock(d, tod) = start + tod \/ WallClock(d, tod) = start + (tod + (len - DayUnits))
    BY <2>1
  <2> QED
    BY <1>1, <1>2, <1>5, <2>2 DEF start
<1> QED
  BY <1>4, <1>5

(* A schedule the handlers accept.                                           *)
Sound(w) == w \in Windows /\ (w.recurring => w.tod < DayUnits /\ w.duration <= DayUnits)

(***************************************************************************)
(* An occurrence that covers an instant is that day's or the day's before, *)
(* unless the day before was shortened.                                    *)
(***************************************************************************)
LEMMA TwoDaysSuffice ==
    ASSUME NEW w, Sound(w), w.recurring, NEW t \in Instants, NEW d \in Days, Covers(Occurrence(w, d), t),
           \A e \in Days : e = DayOf(t) - 1 => DayLen[e] >= DayUnits
    PROVE  d = DayOf(t) \/ d = DayOf(t) - 1
<1> DEFINE N == Len(DayLen)
           day == DayOf(t)
           begin == WallClock(d, w.tod)
<1>0. N \in Nat \ {0} /\ Days = 1..N /\ DayUnits \in Nat \ {0}
  BY DaysFit
<1>1. day \in Days /\ DayStart[day] <= t /\ t < DayStart[day + 1]
  BY DayOfIs
<1>2. /\ w.tod \in Nat /\ w.tod < DayUnits /\ w.duration \in Nat /\ w.duration <= DayUnits
  BY DEF Sound, Windows
<1>3. DayStart[d] <= begin /\ begin < DayStart[d + 1] /\ begin \in Int
  BY <1>2, OccursThatDay
<1>4. begin <= t /\ t < begin + w.duration
  BY DEF Covers, Occurrence
<1>5. \A e \in 1..N + 1 : DayStart[e] \in Nat
  BY DayStartType
<1>6. t \in Nat
  BY DEF Instants
<1>7. \A a, b \in 1..N + 1 : a <= b => DayStart[a] <= DayStart[b]
  BY DaysInOrder
<1>8. \A e \in Days : DayStart[e + 1] = DayStart[e] + DayLen[e] /\ DayLen[e] \in Nat
  BY DayStartIs, DaysFit
<1> HIDE DEF begin, day, N
<1>9. d <= day
  <2> SUFFICES ASSUME d > day PROVE FALSE
    BY <1>0, <1>1
  <2>1. day + 1 <= d /\ day + 1 \in 1..N + 1 /\ d \in 1..N + 1
    BY <1>0, <1>1
  <2>2. DayStart[day + 1] <= DayStart[d]
    BY <1>7, <2>1
  <2>3. DayStart[day + 1] \in Nat /\ DayStart[d] \in Nat
    BY <1>5, <2>1
  <2> QED
    BY <1>1, <1>3, <1>4, <1>6, <2>2, <2>3
<1>10. ASSUME d = day - 2 PROVE FALSE
  <2>1. d + 1 \in Days /\ d + 1 = day - 1 /\ (d + 1) + 1 = day
    BY <1>0, <1>1, <1>10
  <2>2. DayLen[d + 1] >= DayUnits
    BY <2>1 DEF day
  <2>3. DayStart[day] = DayStart[d + 1] + DayLen[d + 1] /\ DayLen[d + 1] \in Nat
    BY <1>8, <2>1
  <2>4. DayStart[day] \in Nat /\ DayStart[d + 1] \in Nat
    BY <1>0, <1>1, <1>5, <2>1
  <2> QED
    BY <1>0, <1>1, <1>2, <1>3, <1>4, <1>6, <2>2, <2>3, <2>4
<1>11. ASSUME d < day - 2 PROVE FALSE
  <2>1. /\ d + 1 \in Days /\ d + 2 \in Days /\ (d + 1) + 1 = d + 2 /\ (d + 2) + 1 = d + 3
        /\ d + 3 \in 1..N + 1 /\ day \in 1..N + 1 /\ d + 3 <= day
    BY <1>0, <1>1, <1>11
  <2>2. /\ DayStart[d + 2] = DayStart[d + 1] + DayLen[d + 1]
        /\ DayStart[d + 3] = DayStart[d + 2] + DayLen[d + 2]
        /\ DayLen[d + 1] \in Nat /\ DayLen[d + 2] \in Nat
    BY <1>8, <2>1
  <2>3. DayUnits - DayLen[d + 1] <= DayLen[d + 1] /\ DayUnits - DayLen[d + 2] <= DayLen[d + 2]
    <3>1. /\ ChangeAt + (DayUnits - DayLen[d + 1]) <= DayLen[d + 1]
          /\ ChangeAt + (DayUnits - DayLen[d + 2]) <= DayLen[d + 2] /\ ChangeAt \in Nat
      BY <2>1, ClocksAssumption, DaysFit
    <3> QED
      BY <1>0, <2>2, <3>1
  <2>4. DayStart[d + 3] <= DayStart[day]
    BY <1>7, <2>1
  <2>5. DayStart[d + 3] \in Nat /\ DayStart[day] \in Nat /\ DayStart[d + 1] \in Nat
    BY <1>0, <1>5, <2>1
  <2>6. DayUnits <= DayLen[d + 1] + DayLen[d + 2]
    BY <1>0, <2>2, <2>3
  <2>7. DayStart[d + 1] + DayUnits <= DayStart[d + 3]
    BY <1>0, <2>2, <2>5, <2>6
  <2>8. DayStart[d + 1] + DayUnits <= t
    BY <1>0, <1>1, <1>6, <2>4, <2>5, <2>7
  <2> QED
    BY <1>0, <1>2, <1>3, <1>4, <1>6, <2>5, <2>8
<1> QED
  BY <1>0, <1>1, <1>9, <1>10, <1>11 DEF day

-----------------------------------------------------------------------------
(* The windows.  The rows and the bodies under way are schedules the         *)
(* handlers accepted; no id is handed out twice, so what was ended stays     *)
(* ended as long as its row is there.                                        *)
WindowInv ==
    /\ WindowsTypeOK
    /\ \A i \in DOMAIN rows : Sound(rows[i])
    /\ \A h \in Handlers : req[h].op = "update" => Sound(req[h].body)
    /\ \A i \in endedIds : i < nextId
    /\ \A i \in endedIds \cap DOMAIN rows : rows[i].ended

LEMMA AcceptedIsSound ==
    ASSUME NEW b \in Bodies, validateMaintenanceWindow(b)
    PROVE  Sound(b)
<1>1. b \in Windows
  BY BodiesAssumption
<1> QED
  BY <1>1 DEF Sound, validateMaintenanceWindow

LEMMA RequestFits ==
    ASSUME NEW q \in Requests
    PROVE  /\ q.op \in {"idle", "update", "end", "delete"}
           /\ q.op # "idle" => q.id \in Ids
           /\ q.op = "update" => q.body \in Bodies
  BY DEF Requests, Idle

LEMMA WindowInit == WindowsInit => WindowInv
<1> SUFFICES ASSUME WindowsInit PROVE WindowInv
  OBVIOUS
<1>1. 0 \in Instants
  <2>1. DayStart[Len(DayLen) + 1] \in Nat \ {0}
    <3>1. Len(DayLen) \in Nat \ {0} /\ 1 \in Days /\ 1 + 1 \in 1..Len(DayLen) + 1 /\ Len(DayLen) + 1 \in 1..Len(DayLen) + 1 /\ 1 + 1 <= Len(DayLen) + 1
      BY DaysFit
    <3>2. DayStart[1 + 1] = 0 + DayLen[1] /\ DayLen[1] \in Nat \ {0}
      BY <3>1, DayStartIs, DaysFit
    <3>3. DayStart[1 + 1] <= DayStart[Len(DayLen) + 1]
      BY <3>1, DaysInOrder
    <3>4. DayStart[Len(DayLen) + 1] \in Nat
      BY <3>1, DayStartType
    <3> QED
      BY <3>2, <3>3, <3>4
  <2> QED
    BY <2>1 DEF Instants, Horizon
<1>2. DOMAIN None = {} /\ Idle \in Requests /\ Idle.op = "idle" /\ 0 \in 0..MaxRestarts
  BY WindowBounds DEF None, Idle, Requests
<1>3. WindowsTypeOK
  BY <1>1, <1>2 DEF WindowsInit, WindowsTypeOK
<1> QED
  BY <1>2, <1>3 DEF WindowInv, WindowsInit

LEMMA InsertKeeps ==
    ASSUME WindowInv, NEW w, Sound(w), Insert(w),
           UNCHANGED <<now, req, known, first, restarts, endedIds>>
    PROVE  WindowInv'
<1>1. /\ nextId \in Ids /\ nextId' = nextId + 1 /\ nextId \in Nat
      /\ DOMAIN rows' = DOMAIN rows \cup {nextId}
      /\ rows'[nextId] = w /\ \A i \in DOMAIN rows \ {nextId} : rows'[i] = rows[i]
  BY DEF Insert, WindowInv, WindowsTypeOK
<1>2. /\ \A i \in DOMAIN rows : i < nextId /\ i \in Ids /\ i \in Nat /\ Sound(rows[i])
      /\ \A i \in endedIds : i < nextId /\ i \in Nat
  BY IdsAssumption DEF WindowInv, WindowsTypeOK
<1>3. /\ \A i \in DOMAIN rows' : i < nextId' /\ i \in Ids /\ Sound(rows'[i])
      /\ \A i \in endedIds' : i < nextId'
  BY <1>1, <1>2
<1>4. \A i \in endedIds \cap DOMAIN rows' : rows'[i].ended
  <2> SUFFICES ASSUME NEW i \in endedIds, i \in DOMAIN rows' PROVE rows'[i].ended
    OBVIOUS
  <2>1. i # nextId
    BY <1>1, <1>2
  <2> QED
    BY <1>1, <2>1 DEF WindowInv
<1>5. nextId' \in Nat /\ DOMAIN rows' \subseteq Ids /\ \A i \in DOMAIN rows' : rows'[i] \in Windows
  BY <1>1, <1>3 DEF Sound
<1>6. WindowsTypeOK'
  BY <1>3, <1>5 DEF WindowInv, WindowsTypeOK
<1>7. \A h \in Handlers : req'[h].op = "update" => Sound(req'[h].body)
  BY DEF WindowInv
<1> QED
  BY <1>3, <1>4, <1>6, <1>7 DEF WindowInv

(* A request that moves, and leaves the rows alone.                          *)
LEMMA RequestKeeps ==
    ASSUME WindowInv, NEW h \in Handlers, NEW q \in Requests, q.op = "update" => Sound(q.body),
           req' = [req EXCEPT ![h] = q],
           UNCHANGED <<now, rows, nextId, known, first, restarts, endedIds>>
    PROVE  WindowInv'
<1>1. /\ req' \in [Handlers -> Requests] /\ req'[h] = q
      /\ \A g \in Handlers \ {h} : req'[g] = req[g]
  BY DEF WindowInv, WindowsTypeOK
<1>2. WindowsTypeOK'
  BY <1>1 DEF WindowInv, WindowsTypeOK
<1>3. \A g \in Handlers : req'[g].op = "update" => Sound(req'[g].body)
  BY <1>1 DEF WindowInv
<1> QED
  BY <1>2, <1>3 DEF WindowInv

(* A handler's second statement: the row of its id changes or goes.          *)
LEMMA WriteKeeps ==
    ASSUME WindowInv, NEW h \in Handlers, req' = [req EXCEPT ![h] = Idle],
           UNCHANGED <<now, nextId, known, first, restarts>>,
           DOMAIN rows' \subseteq DOMAIN rows, \A i \in DOMAIN rows' : Sound(rows'[i]),
           \A i \in DOMAIN rows' : rows[i].ended => rows'[i].ended,
           endedIds \subseteq endedIds',
           \A i \in endedIds' \ endedIds : i \in DOMAIN rows /\ (i \in DOMAIN rows' => rows'[i].ended)
    PROVE  WindowInv'
<1>1. /\ req' \in [Handlers -> Requests] /\ req'[h] = Idle /\ Idle.op = "idle"
      /\ \A g \in Handlers \ {h} : req'[g] = req[g]
  BY DEF WindowInv, WindowsTypeOK, Requests, Idle
<1>2. endedIds' \subseteq Ids /\ \A i \in endedIds' : i < nextId'
  BY DEF WindowInv, WindowsTypeOK
<1>3. DOMAIN rows' \subseteq Ids /\ (\A i \in DOMAIN rows' : rows'[i] \in Windows /\ i < nextId')
  BY DEF WindowInv, WindowsTypeOK, Sound
<1>4. WindowsTypeOK'
  BY <1>1, <1>2, <1>3 DEF WindowInv, WindowsTypeOK
<1>5. \A g \in Handlers : req'[g].op = "update" => Sound(req'[g].body)
  BY <1>1 DEF WindowInv
<1>6. \A i \in endedIds' \cap DOMAIN rows' : rows'[i].ended
  BY DEF WindowInv
<1> QED
  BY <1>2, <1>4, <1>5, <1>6 DEF WindowInv

LEMMA UpdateKeeps ==
    ASSUME WindowInv, NEW h \in Handlers, UpdateWrites(h)
    PROVE  WindowInv'
<1> DEFINE i == req[h].id
           b == req[h].body
<1>1. Sound(b) /\ b \in Windows
  BY DEF WindowInv, UpdateWrites, Sound
<1>2. \A j \in DOMAIN rows : Sound(rows[j]) /\ rows[j] \in Windows
  BY DEF WindowInv, Sound
<1>3. DOMAIN rows' = DOMAIN rows /\ \A j \in DOMAIN rows : rows'[j] = rows[j] \/ rows'[j] = Updated(rows[j], b)
  <2>1. CASE i \in DOMAIN rows
    <3>1. rows' = [rows EXCEPT ![i] = Updated(@, b)]
      BY <2>1 DEF UpdateWrites
    <3> HIDE DEF b
    <3> QED
      BY <2>1, <3>1
  <2>2. CASE i \notin DOMAIN rows
    BY <2>2 DEF UpdateWrites
  <2> QED
    BY <2>1, <2>2
<1> HIDE DEF b
<1>4. \A w \in Windows : Sound(Updated(w, b)) /\ Updated(w, b).ended = w.ended
  BY <1>1 DEF Updated, Sound, Windows
<1>5. \A j \in DOMAIN rows' : Sound(rows'[j]) /\ (rows[j].ended => rows'[j].ended)
  BY <1>2, <1>3, <1>4
<1>6. req' = [req EXCEPT ![h] = Idle] /\ UNCHANGED <<now, nextId, known, first, restarts, endedIds>>
  BY DEF UpdateWrites
<1> QED
  BY <1>3, <1>5, <1>6, WriteKeeps

LEMMA EndKeeps ==
    ASSUME WindowInv, NEW h \in Handlers, EndWrites(h)
    PROVE  WindowInv'
<1> DEFINE i == req[h].id
<1>1. \A j \in DOMAIN rows : Sound(rows[j]) /\ rows[j] \in Windows
  BY DEF WindowInv, Sound
<1>2. req' = [req EXCEPT ![h] = Idle] /\ UNCHANGED <<now, nextId, known, first, restarts>>
  BY DEF EndWrites
<1>3. CASE i \notin DOMAIN rows
  BY <1>1, <1>2, <1>3, WriteKeeps DEF EndWrites
<1>4. CASE i \in DOMAIN rows
  <2>1. rows' = [rows EXCEPT ![i].ended = TRUE] /\ endedIds' = endedIds \cup {i}
    BY <1>4 DEF EndWrites
  <2>2. /\ DOMAIN rows' = DOMAIN rows /\ rows'[i] = [rows[i] EXCEPT !.ended = TRUE]
        /\ \A j \in DOMAIN rows \ {i} : rows'[j] = rows[j]
    BY <1>4, <2>1
  <2>3. Sound(rows'[i]) /\ rows'[i].ended
    BY <1>1, <1>4, <2>2 DEF Sound, Windows
  <2>4. \A j \in DOMAIN rows' : Sound(rows'[j]) /\ (rows[j].ended => rows'[j].ended)
    BY <1>1, <2>2, <2>3
  <2> QED
    BY <1>2, <1>4, <2>1, <2>2, <2>3, <2>4, WriteKeeps
<1> QED
  BY <1>3, <1>4

LEMMA WindowStep == WindowInv /\ [WindowsNext]_windowVars => WindowInv'
<1> SUFFICES ASSUME WindowInv, [WindowsNext]_windowVars PROVE WindowInv'
  OBVIOUS
<1>1. ASSUME NEW b \in Bodies, handleCreateMaintenanceWindow(b) PROVE WindowInv'
  BY <1>1, AcceptedIsSound, InsertKeeps DEF handleCreateMaintenanceWindow
<1>2. CASE autoSilenceForDeploy
  <2> DEFINE w == [recurring |-> FALSE, starts |-> now, ends |-> now + Grace,
                   days |-> {}, tod |-> 0, duration |-> 0, ended |-> FALSE]
  <2>1. now \in Int /\ now + Grace \in Int
    BY WindowBounds DEF WindowInv, WindowsTypeOK, Instants
  <2>2. Sound(w)
    BY <2>1 DEF Sound, Windows
  <2>3. Insert(w) /\ UNCHANGED <<now, req, known, first, restarts, endedIds>>
    BY <1>2 DEF autoSilenceForDeploy
  <2> HIDE DEF w
  <2> QED
    BY <2>2, <2>3, InsertKeeps
<1>3. ASSUME NEW h \in Handlers, NEW i \in Ids, NEW b \in Bodies, UpdateChecks(h, i, b) PROVE WindowInv'
  <2> DEFINE q == [op |-> "update", id |-> i, body |-> b]
  <2>1. q \in Requests /\ q.body = b
    BY DEF Requests
  <2>2. Sound(b) /\ req' = [req EXCEPT ![h] = q] /\ UNCHANGED <<now, rows, nextId, known, first, restarts, endedIds>>
    BY <1>3, AcceptedIsSound DEF UpdateChecks
  <2> HIDE DEF q
  <2> QED
    BY <2>1, <2>2, RequestKeeps
<1>4. ASSUME NEW h \in Handlers, NEW i \in Ids, EndChecks(h, i) \/ DeleteChecks(h, i) PROVE WindowInv'
  <2>1. PICK op \in {"end", "delete"} : req' = [req EXCEPT ![h] = [op |-> op, id |-> i]]
    BY <1>4 DEF EndChecks, DeleteChecks
  <2>2. UNCHANGED <<now, rows, nextId, known, first, restarts, endedIds>>
    BY <1>4 DEF EndChecks, DeleteChecks
  <2> DEFINE q == [op |-> op, id |-> i]
  <2>3. q \in Requests /\ q.op # "update" /\ req' = [req EXCEPT ![h] = q]
    BY <2>1 DEF Requests
  <2> HIDE DEF q
  <2> QED
    BY <2>2, <2>3, RequestKeeps
<1>5. ASSUME NEW h \in Handlers, UpdateWrites(h) PROVE WindowInv'
  BY <1>5, UpdateKeeps
<1>6. ASSUME NEW h \in Handlers, EndWrites(h) PROVE WindowInv'
  BY <1>6, EndKeeps
<1>7. ASSUME NEW h \in Handlers, DeleteWrites(h) PROVE WindowInv'
  <2>1. /\ DOMAIN rows' = DOMAIN rows \ {req[h].id} /\ \A j \in DOMAIN rows' : rows'[j] = rows[j]
        /\ req' = [req EXCEPT ![h] = Idle] /\ UNCHANGED <<now, nextId, known, first, restarts, endedIds>>
    BY <1>7 DEF DeleteWrites
  <2>2. \A j \in DOMAIN rows' : Sound(rows'[j])
    BY <2>1 DEF WindowInv
  <2> QED
    BY <2>1, <2>2, WriteKeeps
<1>8. CASE LogPass
  <2>1. DOMAIN known' \subseteq DOMAIN rows /\ first' = FALSE /\ UNCHANGED <<now, rows, nextId, req, restarts, endedIds>>
    BY <1>8 DEF LogPass, SeenActive, Fetched
  <2>2. WindowsTypeOK'
    BY <2>1 DEF WindowInv, WindowsTypeOK
  <2> QED
    BY <2>1, <2>2 DEF WindowInv
<1>9. CASE Tick
  <2>1. now' \in Instants /\ UNCHANGED <<rows, nextId, req, known, first, restarts, endedIds>>
    BY <1>9 DEF Tick
  <2>2. WindowsTypeOK'
    BY <2>1 DEF WindowInv, WindowsTypeOK
  <2> QED
    BY <2>1, <2>2 DEF WindowInv
<1>10. CASE Restart
  <2>1. /\ restarts' \in 0..MaxRestarts /\ DOMAIN known' = {} /\ first' = TRUE
        /\ req' \in [Handlers -> Requests] /\ \A h \in Handlers : req'[h].op = "idle"
        /\ UNCHANGED <<now, rows, nextId, endedIds>>
    BY <1>10, WindowBounds DEF Restart, WindowInv, WindowsTypeOK, None, Requests, Idle
  <2>2. WindowsTypeOK'
    BY <2>1 DEF WindowInv, WindowsTypeOK
  <2> QED
    BY <2>1, <2>2 DEF WindowInv
<1>11. CASE UNCHANGED windowVars
  BY <1>11 DEF windowVars, WindowInv, WindowsTypeOK
<1> QED
  BY <1>1, <1>2, <1>3, <1>4, <1>5, <1>6, <1>7, <1>8, <1>9, <1>10, <1>11 DEF WindowsNext

(* What the rows being sound says about the silence.                         *)
LEMMA SpanIsScheduled ==
    ASSUME NEW w, w.recurring, NEW t, Active(w, t)
    PROVE  InSomeOccurrence(w, t)
  BY DEF Active, ActiveSpan, recurringSpanAt, InSomeOccurrence, Occurs

LEMMA CoveredIsActive ==
    ASSUME NEW w, Sound(w), w.recurring, ~w.ended, NEW t \in Instants, InSomeOccurrence(w, t),
           \A e \in Days : e = DayOf(t) - 1 => DayLen[e] >= DayUnits
    PROVE  Active(w, t)
<1>1. PICK d \in Days : Occurs(w, d) /\ Covers(Occurrence(w, d), t)
  BY DEF InSomeOccurrence
<1>2. d = DayOf(t) \/ d = DayOf(t) - 1
  BY <1>1, TwoDaysSuffice
<1>3. InSeries(w, t)
  BY DEF InSomeOccurrence
<1>4. \A e : Occurrence(w, e) # NoSpan
  BY DEF Occurrence, NoSpan
<1> QED
  BY <1>1, <1>2, <1>3, <1>4 DEF Active, ActiveSpan, recurringSpanAt

LEMMA WindowsSilence ==
    ASSUME WindowInv
    PROVE  SilenceOnlyScheduled /\ OccurrenceIsSilent
<1>1. SilenceOnlyScheduled
  BY SpanIsScheduled DEF SilenceOnlyScheduled
<1>2. now \in Instants /\ \A i \in DOMAIN rows : Sound(rows[i])
  BY DEF WindowInv, WindowsTypeOK
<1>3. OccurrenceIsSilent
  BY <1>2, CoveredIsActive DEF OccurrenceIsSilent
<1> QED
  BY <1>1, <1>3

(***************************************************************************)
(* The instants recurringSpanAt takes for silent are those an occurrence   *)
(* of an accepted schedule covers, on every calendar whose changes of      *)
(* clocks skip no more than lies within their day: looking at two days     *)
(* loses nothing, except after a shortened day.                            *)
(***************************************************************************)
THEOREM SilenceStaysScheduled == MCSpec => []SilenceIsScheduled
<1>1. MCInit => WindowInv
  BY WindowInit DEF MCInit
<1>2. [MCNext]_<<part, windowVars, evars, lvars>> => [WindowsNext]_windowVars
  BY DEF MCNext
<1>3. WindowInv => SilenceIsScheduled
  BY WindowsSilence DEF SilenceIsScheduled
<1> QED
  BY <1>1, <1>2, <1>3, WindowStep, PTL DEF MCSpec

(***************************************************************************)
(* An ended window never silences again, whatever requests were under way  *)
(* when it was ended, and the SQL filter loses no window that covers the   *)
(* instant: the part of WindowsHold that is about every state.             *)
(***************************************************************************)
THEOREM EndIsFinal == WindowsSpec => [](WindowsTypeOK /\ EndedStaysEnded /\ FilterLosesNothing)
<1>1. WindowInv => WindowsTypeOK /\ EndedStaysEnded
  BY DEF WindowInv, EndedStaysEnded, Silencing, candidate
<1>2. WindowInv => FilterLosesNothing
  <2> SUFFICES ASSUME WindowInv, NEW i \in DOMAIN rows, Active(rows[i], now) PROVE candidate(rows[i], now)
    BY DEF FilterLosesNothing, Silencing, ActiveIds
  <2>1. rows[i] \in Windows /\ now \in Int
    BY DEF WindowInv, WindowsTypeOK, Instants
  <2>2. ~rows[i].ended
    BY DEF Active, ActiveSpan
  <2>3. ~rows[i].recurring => now < rows[i].ends
    BY <2>2 DEF Active, ActiveSpan, Covers
  <2> QED
    BY <2>1, <2>2, <2>3 DEF candidate, Windows
<1> QED
  BY <1>1, <1>2, WindowInit, WindowStep, PTL DEF WindowsSpec

-----------------------------------------------------------------------------
(* The edge-triggered rules of the run rules, for any containers, rules and  *)
(* threads.                                                                  *)

EdgeThread ==
    [pc : {"idle", "rules", "counted", "fire", "emit", "store"},
     cont : Containers \cup {E!NoContainer}, action : Actions \cup {"none", "line"},
     todo : SUBSET RuleIds, rule : RuleIds \cup {E!NoRule}, n : 0..MaxEvents]

(* What a thread is at: a watcher, events of its own containers and the      *)
(* rules on them; a scanner, a line of a log rule.                           *)
EdgeStands(t, x) ==
    /\ \A r \in x.todo : Rule[r].type # "log" /\ x.cont \in Rule[r].containers
    /\ t \in Scanners => x.todo = {}
    /\ x.pc # "idle" => x.cont \in Containers /\ (t \in Watchers => WatcherOf[x.cont] = t)
    /\ x.pc \in {"counted", "fire", "emit", "store"} =>
         x.rule \in RuleIds /\ (Rule[x.rule].type = "log" <=> t \in Scanners)

EdgeTypes == E!TypeOK /\ \A t \in E!Threads : EdgeStands(t, thread[t])

(* A window no restart rule on c falls short of, nor the retention.          *)
EdgeWindow(c, w) ==
    /\ w <= Retention
    /\ \A q \in RuleIds : Rule[q].type = "restart" /\ c \in Rule[q].containers => w <= Rule[q].window

(* No start of such a window is forgotten.                                   *)
EdgeKept ==
    \A c \in Containers, w \in Nat : EdgeWindow(c, w) => E!Truly(c, w) \subseteq starts[c]

LEMMA RuleLeast ==
    ASSUME NEW S \in SUBSET Nat, S # {}
    PROVE  E!Min(S) \in S /\ L!Min(S) \in S
  BY LeastNumber DEF E!Min, L!Min

LEMMA RuleSizes ==
    \A X : E!Cardinality(X) = Cardinality(X) /\ L!Cardinality(X) = Cardinality(X)
<1>1. \A X : E!IsFiniteSet(X) = IsFiniteSet(X) /\ L!IsFiniteSet(X) = IsFiniteSet(X)
  BY DEF E!IsFiniteSet, L!IsFiniteSet, IsFiniteSet
<1> QED
  BY <1>1 DEF E!Cardinality, L!Cardinality, Cardinality

(* A part of the first n numbers is no larger than the part it lies in.      *)
LEMMA PartOfStarts ==
    ASSUME NEW n \in Nat, NEW S \in SUBSET (1..n), NEW T \in SUBSET S
    PROVE  Cardinality(T) \in 0..n /\ Cardinality(T) <= Cardinality(S)
<1>1. IsFiniteSet(1..n) /\ Cardinality(1..n) = n
  BY FS_Interval
<1>2. IsFiniteSet(S) /\ IsFiniteSet(T)
  BY <1>1, FS_Subset
<1>3. Cardinality(T) <= Cardinality(S) /\ Cardinality(T) <= Cardinality(1..n)
  BY <1>1, <1>2, FS_Subset
<1>4. Cardinality(T) \in Nat
  BY <1>2, FS_CardinalityType
<1> QED
  BY <1>1, <1>3, <1>4

LEMMA EdgeRuleFits ==
    ASSUME NEW r \in RuleIds
    PROVE  /\ Rule[r].type \in {"state", "restart", "log"} /\ Rule[r].containers \subseteq Containers
           /\ Rule[r].window \in Nat /\ Rule[r].cooldown \in Nat /\ Rule[r].count \in Nat
           /\ r \in Nat /\ r # E!NoRule
  BY RulesAssumption DEF RuleShapes, E!NoRule

LEMMA EdgeIdle == E!Idle \in EdgeThread /\ \A t : EdgeStands(t, E!Idle)
<1>1. E!Idle \in EdgeThread
  BY AgesAssumption DEF E!Idle, EdgeThread
<1>2. \A t : EdgeStands(t, E!Idle)
  BY DEF E!Idle, EdgeStands
<1> QED
  BY <1>1, <1>2

LEMMA EdgeThreadsTyped ==
    ASSUME E!TypeOK
    PROVE  thread \in [E!Threads -> EdgeThread]
  BY DEF E!TypeOK, EdgeThread

(* A step of one thread that stands where it may.                            *)
LEMMA EdgeMoves ==
    ASSUME EdgeTypes, NEW t \in E!Threads, NEW x \in EdgeThread, EdgeStands(t, x),
           thread' = [thread EXCEPT ![t] = x]
    PROVE  /\ thread' \in [E!Threads -> EdgeThread]
           /\ thread'[t] = x /\ \A u \in E!Threads \ {t} : thread'[u] = thread[u]
           /\ \A u \in E!Threads : EdgeStands(u, thread'[u])
<1>1. thread \in [E!Threads -> EdgeThread]
  BY EdgeThreadsTyped DEF EdgeTypes
<1>2. /\ thread' \in [E!Threads -> EdgeThread]
      /\ thread'[t] = x /\ \A u \in E!Threads \ {t} : thread'[u] = thread[u]
  BY <1>1
<1>3. \A u \in E!Threads : EdgeStands(u, thread[u])
  BY DEF EdgeTypes
<1> QED
  BY <1>2, <1>3

LEMMA EdgeInit == E!Init => EdgeTypes /\ EdgeKept
<1> SUFFICES ASSUME E!Init PROVE EdgeTypes /\ EdgeKept
  OBVIOUS
<1>1. thread \in [E!Threads -> EdgeThread] /\ \A t \in E!Threads : EdgeStands(t, thread[t])
  BY EdgeIdle DEF E!Init
<1>2. EdgeTypes
  <2>1. /\ ruleOn \subseteq RuleIds /\ silenced \subseteq E!Keys
        /\ started \in [E!Starts -> Containers \cup {E!NoContainer}]
        /\ age \in [E!Starts -> 0..AgeCap] /\ starts \in [Containers -> SUBSET E!Starts]
    BY AgesAssumption DEF E!Init
  <2>2. cooldowns \in [E!Keys -> E!Ages] /\ told \in [E!Keys -> E!Ages]
    BY DEF E!Init, E!Ages, E!Never
  <2>3. \A c \in Containers, e \in E!Starts : e \in starts[c] => started[e] = c
    BY DEF E!Init
  <2> QED
    BY <1>1, <2>1, <2>2, <2>3 DEF EdgeTypes, E!TypeOK, EdgeThread
<1>3. EdgeKept
  BY ContainersAssumption DEF E!Init, EdgeKept, E!Truly, E!NoContainer
<1> QED
  BY <1>2, <1>3

(* recordRestart: the start is new, so nobody remembers it for another.      *)
LEMMA EdgeRecords ==
    ASSUME EdgeTypes, EdgeKept, NEW c \in Containers, NEW e \in E!FreshStarts, E!recordRestart(c, e)
    PROVE  /\ started' \in [E!Starts -> Containers \cup {E!NoContainer}]
           /\ age' \in [E!Starts -> 0..AgeCap] /\ starts' \in [Containers -> SUBSET E!Starts]
           /\ \A d \in Containers, s \in E!Starts : s \in starts'[d] => started'[s] = d
           /\ EdgeKept'
<1>0. /\ started \in [E!Starts -> Containers \cup {E!NoContainer}]
      /\ age \in [E!Starts -> 0..AgeCap] /\ starts \in [Containers -> SUBSET E!Starts]
      /\ \A d \in Containers, s \in E!Starts : s \in starts[d] => started[s] = d
  BY DEF EdgeTypes, E!TypeOK
<1>1. e \in E!Starts /\ started[e] = E!NoContainer /\ E!NoContainer \notin Containers
  BY ContainersAssumption DEF E!FreshStarts, E!NoContainer
<1>2. /\ started' \in [E!Starts -> Containers \cup {E!NoContainer}]
      /\ started'[e] = c /\ \A s \in E!Starts \ {e} : started'[s] = started[s]
  BY <1>0, <1>1 DEF E!recordRestart
<1>3. /\ age' \in [E!Starts -> 0..AgeCap]
      /\ age'[e] = 0 /\ \A s \in E!Starts \ {e} : age'[s] = age[s]
  BY <1>0, <1>1, AgesAssumption DEF E!recordRestart
<1>4. /\ starts' \in [Containers -> SUBSET E!Starts]
      /\ starts'[c] = {s \in starts[c] : age[s] < Retention} \cup {e}
      /\ \A d \in Containers \ {c} : starts'[d] = starts[d]
  BY <1>0, <1>1 DEF E!recordRestart
<1>5. \A d \in Containers : e \notin starts[d]
  BY <1>0, <1>1
<1>6. \A d \in Containers, s \in E!Starts : s \in starts'[d] => started'[s] = d
  BY <1>0, <1>2, <1>4, <1>5
<1>7. EdgeKept'
  <2> SUFFICES ASSUME NEW d \in Containers, NEW w \in Nat, EdgeWindow(d, w),
                      NEW s \in E!Starts, started'[s] = d, age'[s] < w
               PROVE  s \in starts'[d]
    BY DEF EdgeKept, E!Truly, EdgeWindow
  <2>1. CASE s = e
    BY <2>1, <1>2, <1>4
  <2>2. CASE s # e
    <3>1. started[s] = d /\ age[s] < w
      BY <2>2, <1>2, <1>3
    <3>2. s \in starts[d]
      BY <3>1 DEF EdgeKept, E!Truly
    <3>3. age[s] < Retention
      BY <3>1, <1>0, AgesAssumption DEF EdgeWindow
    <3> QED
      BY <3>2, <3>3, <1>4
  <2> QED
    BY <2>1, <2>2
<1> QED
  BY <1>2, <1>3, <1>4, <1>6, <1>7

LEMMA EdgeEvent ==
    ASSUME EdgeTypes, EdgeKept, NEW t \in Watchers, NEW c \in Containers, NEW a \in Actions,
           E!handleEvent(t, c, a)
    PROVE  /\ EdgeTypes' /\ EdgeKept' /\ t \in E!Threads
           /\ thread'[t].pc = "rules" /\ \A u \in E!Threads \ {t} : thread'[u] = thread[u]
<1>0. t \in E!Threads /\ t \notin Scanners
  BY RulesAssumption DEF E!Threads
<1>1. /\ started' \in [E!Starts -> Containers \cup {E!NoContainer}]
      /\ age' \in [E!Starts -> 0..AgeCap] /\ starts' \in [Containers -> SUBSET E!Starts]
      /\ \A d \in Containers, s \in E!Starts : s \in starts'[d] => started'[s] = d
      /\ EdgeKept'
  <2>1. CASE a \in E!StartActions
    <3>1. E!FreshStarts # {} /\ E!FreshStarts \in SUBSET Nat
      BY <2>1 DEF E!handleEvent, E!FreshStarts, E!Starts
    <3>2. E!Min(E!FreshStarts) \in E!FreshStarts
      BY <3>1, RuleLeast
    <3>3. E!recordRestart(c, E!Min(E!FreshStarts))
      BY <2>1 DEF E!handleEvent
    <3> QED
      BY <3>2, <3>3, EdgeRecords
  <2>2. CASE a \notin E!StartActions
    <3>1. UNCHANGED <<started, age, starts>>
      BY <2>2 DEF E!handleEvent, E!clocks
    <3>2. EdgeKept'
      BY <3>1 DEF EdgeKept, E!Truly, EdgeWindow
    <3> QED
      BY <3>1, <3>2 DEF EdgeTypes, E!TypeOK
  <2> QED
    BY <2>1, <2>2
<1>2. PICK listed \in {{}, E!Concerned(c, a)} :
        thread' = [thread EXCEPT ![t] =
          [E!Idle EXCEPT !.pc = "rules", !.cont = c, !.action = a, !.todo = listed]]
  BY DEF E!handleEvent
<1> DEFINE x == [E!Idle EXCEPT !.pc = "rules", !.cont = c, !.action = a, !.todo = listed]
<1>3. listed \subseteq RuleIds /\ \A r \in listed : Rule[r].type # "log" /\ c \in Rule[r].containers
  BY DEF E!Concerned, EdgeTypes, E!TypeOK
<1>4. x \in EdgeThread /\ x.pc = "rules" /\ x.todo = listed /\ x.cont = c
  BY <1>3, EdgeIdle DEF E!Idle, EdgeThread
<1>5. EdgeStands(t, x)
  <2>1. WatcherOf[c] = t
    BY DEF E!handleEvent
  <2> HIDE DEF x
  <2> QED
    BY <1>0, <1>3, <1>4, <2>1 DEF EdgeStands
<1> HIDE DEF x
<1>6. /\ thread' \in [E!Threads -> EdgeThread]
      /\ thread'[t] = x /\ \A u \in E!Threads \ {t} : thread'[u] = thread[u]
      /\ \A u \in E!Threads : EdgeStands(u, thread'[u])
  <2>1. thread' = [thread EXCEPT ![t] = x]
    BY <1>2 DEF x
  <2> QED
    BY <1>0, <1>4, <1>5, <2>1, EdgeMoves
<1>7. UNCHANGED <<ruleOn, silenced, cooldowns, told>>
  BY DEF E!handleEvent
<1>8. EdgeTypes'
  BY <1>1, <1>6, <1>7 DEF EdgeTypes, E!TypeOK, EdgeThread
<1> QED
  BY <1>0, <1>1, <1>4, <1>6, <1>8

(* What a step that counts must show.                                        *)
EdgeExact == E!CountsNoMore /\ E!ShortestCountsExactly

LEMMA EdgeNoCount ==
    ASSUME \A u \in E!Threads : thread'[u].pc = "counted" => thread[u].pc = "counted"
    PROVE  EdgeExact
  BY DEF EdgeExact, E!CountsNoMore, E!ShortestCountsExactly, E!Counts

(* restartCount: what it forgets is older than the window of a rule on c.    *)
LEMMA EdgeForgets ==
    ASSUME EdgeTypes, EdgeKept, NEW c \in Containers, NEW r \in RuleIds,
           Rule[r].type = "restart", c \in Rule[r].containers,
           starts' = [starts EXCEPT ![c] = E!Within(c, Rule[r].window)], UNCHANGED <<started, age>>
    PROVE  /\ starts' \in [Containers -> SUBSET E!Starts]
           /\ \A d \in Containers, s \in E!Starts : s \in starts'[d] => started'[s] = d
           /\ EdgeKept'
<1>0. /\ age \in [E!Starts -> 0..AgeCap] /\ starts \in [Containers -> SUBSET E!Starts]
      /\ \A d \in Containers, s \in E!Starts : s \in starts[d] => started[s] = d
  BY DEF EdgeTypes, E!TypeOK
<1>1. /\ starts' \in [Containers -> SUBSET E!Starts]
      /\ starts'[c] = {s \in starts[c] : age[s] < Rule[r].window}
      /\ \A d \in Containers \ {c} : starts'[d] = starts[d]
  BY <1>0 DEF E!Within
<1>2. \A d \in Containers, s \in E!Starts : s \in starts'[d] => started'[s] = d
  BY <1>0, <1>1
<1>3. EdgeKept'
  <2> SUFFICES ASSUME NEW d \in Containers, NEW w \in Nat, EdgeWindow(d, w),
                      NEW s \in E!Starts, started[s] = d, age[s] < w
               PROVE  s \in starts'[d]
    BY DEF EdgeKept, E!Truly, EdgeWindow
  <2>1. s \in starts[d]
    BY DEF EdgeKept, E!Truly
  <2>2. CASE d = c
    <3>1. w <= Rule[r].window
      BY <2>2 DEF EdgeWindow
    <3>2. age[s] < Rule[r].window
      BY <3>1, <1>0, EdgeRuleFits, AgesAssumption
    <3> QED
      BY <2>1, <2>2, <3>2, <1>1
  <2> QED
    BY <2>1, <2>2, <1>1
<1> QED
  BY <1>1, <1>2, <1>3

(* The number is that of the starts that lie in the window, as far as they   *)
(* are remembered.                                                           *)
LEMMA EdgeCounted ==
    ASSUME EdgeTypes, EdgeKept, NEW c \in Containers, NEW r \in RuleIds
    PROVE  /\ Cardinality(E!Within(c, Rule[r].window)) \in 0..MaxEvents
           /\ Cardinality(E!Within(c, Rule[r].window)) <= Cardinality(E!Truly(c, Rule[r].window))
           /\ E!Shortest(r, c) /\ Rule[r].window <= Retention
                => E!Within(c, Rule[r].window) = E!Truly(c, Rule[r].window)
<1> DEFINE w == Rule[r].window
<1>0. w \in Nat /\ Retention \in Nat
  BY EdgeRuleFits, AgesAssumption
<1> HIDE DEF w
<1>1. /\ starts \in [Containers -> SUBSET E!Starts]
      /\ \A s \in E!Starts : s \in starts[c] => started[s] = c
  BY DEF EdgeTypes, E!TypeOK
<1>2. E!Within(c, w) \subseteq E!Truly(c, w) /\ E!Truly(c, w) \subseteq 1..MaxEvents
  BY <1>1 DEF E!Within, E!Truly, E!Starts
<1>3. /\ Cardinality(E!Within(c, w)) \in 0..MaxEvents
      /\ Cardinality(E!Within(c, w)) <= Cardinality(E!Truly(c, w))
  BY <1>2, PartOfStarts, AgesAssumption
<1>4. ASSUME E!Shortest(r, c), w <= Retention PROVE E!Within(c, w) = E!Truly(c, w)
  <2>1. EdgeWindow(c, w)
    BY <1>4, EdgeRuleFits DEF EdgeWindow, E!Shortest, w
  <2>2. E!Truly(c, w) \subseteq starts[c]
    BY <1>0, <2>1 DEF EdgeKept
  <2> QED
    BY <1>2, <2>2 DEF E!Within, E!Truly
<1> QED
  BY <1>3, <1>4 DEF w

LEMMA EdgeNextRule ==
    ASSUME EdgeTypes, EdgeKept, NEW t \in E!Threads, E!NextRule(t)
    PROVE  /\ EdgeTypes' /\ EdgeKept' /\ EdgeExact
           /\ thread'[t].pc \in {"fire", "counted"} /\ thread[t].pc = "rules"
           /\ \A u \in E!Threads \ {t} : thread'[u] = thread[u]
<1> DEFINE th == thread[t]
           r == E!Min(th.todo)
           w == Rule[r].window
           n == Cardinality(E!Within(th.cont, w))
<1>0. th \in EdgeThread /\ EdgeStands(t, th) /\ th.pc = "rules" /\ th.todo # {}
  BY EdgeThreadsTyped DEF EdgeTypes, E!NextRule
<1>1. r \in th.todo /\ r \in RuleIds
  <2>1. th.todo \in SUBSET Nat /\ th.todo \subseteq RuleIds
    BY <1>0, RulesAssumption DEF EdgeThread
  <2> QED
    BY <1>0, <2>1, RuleLeast
<1>2. /\ Rule[r].type # "log" /\ th.cont \in Rule[r].containers /\ th.cont \in Containers
      /\ t \notin Scanners /\ (t \in Watchers => WatcherOf[th.cont] = t)
  BY <1>0, <1>1 DEF EdgeStands
<1>3. UNCHANGED <<ruleOn, silenced, started, age, cooldowns, told>>
  BY DEF E!NextRule
<1>4. /\ n \in 0..MaxEvents /\ n <= Cardinality(E!Truly(th.cont, w))
      /\ E!Shortest(r, th.cont) /\ w <= Retention => n = Cardinality(E!Truly(th.cont, w))
  BY <1>1, <1>2, EdgeCounted
<1> DEFINE fire == [th EXCEPT !.pc = "fire", !.rule = r, !.todo = @ \ {r}]
           counted == [th EXCEPT !.pc = "counted", !.rule = r, !.todo = @ \ {r}, !.n = n]
<1>5. \/ Rule[r].type = "state" /\ thread' = [thread EXCEPT ![t] = fire] /\ starts' = starts
      \/ /\ Rule[r].type = "restart" /\ thread' = [thread EXCEPT ![t] = counted]
         /\ starts' = [starts EXCEPT ![th.cont] = E!Within(th.cont, w)]
  <2>1. thread \in [E!Threads -> EdgeThread]
    BY EdgeThreadsTyped DEF EdgeTypes
  <2> QED
    BY <2>1, RuleSizes DEF E!NextRule
<1> HIDE DEF w, r
<1>6. /\ fire \in EdgeThread /\ counted \in EdgeThread
      /\ fire.pc = "fire" /\ fire.rule = r /\ fire.todo = th.todo \ {r} /\ fire.cont = th.cont
      /\ counted.pc = "counted" /\ counted.rule = r /\ counted.todo = th.todo \ {r}
      /\ counted.cont = th.cont /\ counted.n = n
  <2> HIDE DEF n
  <2> QED
    BY <1>0, <1>1, <1>4 DEF EdgeThread
<1> HIDE DEF fire, counted, n
<1>7. EdgeStands(t, fire) /\ EdgeStands(t, counted)
  BY <1>0, <1>1, <1>2, <1>6 DEF EdgeStands
<1>8. CASE Rule[r].type = "state" /\ thread' = [thread EXCEPT ![t] = fire] /\ starts' = starts
  <2>1. /\ thread' \in [E!Threads -> EdgeThread]
        /\ thread'[t] = fire /\ \A u \in E!Threads \ {t} : thread'[u] = thread[u]
        /\ \A u \in E!Threads : EdgeStands(u, thread'[u])
    BY <1>6, <1>7, <1>8, EdgeMoves
  <2>2. EdgeTypes'
    BY <1>3, <1>8, <2>1 DEF EdgeTypes, E!TypeOK, EdgeThread
  <2>3. EdgeKept'
    BY <1>3, <1>8 DEF EdgeKept, E!Truly, EdgeWindow
  <2>4. EdgeExact
    BY <1>6, <2>1, EdgeNoCount
  <2> QED
    BY <1>0, <1>6, <2>1, <2>2, <2>3, <2>4
<1>9. CASE /\ Rule[r].type = "restart" /\ thread' = [thread EXCEPT ![t] = counted]
           /\ starts' = [starts EXCEPT ![th.cont] = E!Within(th.cont, w)]
  <2>1. /\ thread' \in [E!Threads -> EdgeThread]
        /\ thread'[t] = counted /\ \A u \in E!Threads \ {t} : thread'[u] = thread[u]
        /\ \A u \in E!Threads : EdgeStands(u, thread'[u])
    BY <1>6, <1>7, <1>9, EdgeMoves
  <2>2. /\ starts' \in [Containers -> SUBSET E!Starts]
        /\ \A d \in Containers, s \in E!Starts : s \in starts'[d] => started'[s] = d
        /\ EdgeKept'
    BY <1>1, <1>2, <1>3, <1>9, EdgeForgets DEF w
  <2>3. EdgeTypes'
    BY <1>3, <2>1, <2>2 DEF EdgeTypes, E!TypeOK, EdgeThread
  <2>4. EdgeExact
    <3>1. \A u \in E!Threads : E!Counts(u) => u = t
      BY <2>1 DEF E!Counts
    <3>2. thread'[t].rule = r /\ thread'[t].n = n
      BY <1>6, <2>1
    <3>3. E!CountsNoMore
      BY <1>4, <3>1, <3>2, RuleSizes DEF E!CountsNoMore, w
    <3>4. E!ShortestCountsExactly
      BY <1>4, <3>1, <3>2, RuleSizes DEF E!ShortestCountsExactly, w
    <3> QED
      BY <3>3, <3>4 DEF EdgeExact
  <2> QED
    BY <1>0, <1>6, <2>1, <2>2, <2>3, <2>4
<1> QED
  BY <1>5, <1>8, <1>9

(* A step of a thread that leaves the clocks alone and counts nothing.       *)
LEMMA EdgeOnlyMoves ==
    ASSUME EdgeTypes, EdgeKept, NEW t \in E!Threads, NEW x \in EdgeThread, EdgeStands(t, x),
           x.pc # "counted", thread' = [thread EXCEPT ![t] = x],
           UNCHANGED <<ruleOn, silenced, E!clocks>>,
           cooldowns' \in [E!Keys -> E!Ages], told' \in [E!Keys -> E!Ages]
    PROVE  /\ EdgeTypes' /\ EdgeKept' /\ EdgeExact
           /\ thread'[t] = x /\ \A u \in E!Threads \ {t} : thread'[u] = thread[u]
<1>1. /\ thread' \in [E!Threads -> EdgeThread]
      /\ thread'[t] = x /\ \A u \in E!Threads \ {t} : thread'[u] = thread[u]
      /\ \A u \in E!Threads : EdgeStands(u, thread'[u])
  BY EdgeMoves
<1>2. UNCHANGED <<started, age, starts>>
  BY DEF E!clocks
<1>3. EdgeTypes'
  BY <1>1, <1>2 DEF EdgeTypes, E!TypeOK, EdgeThread
<1>4. EdgeKept'
  BY <1>2 DEF EdgeKept, E!Truly, EdgeWindow
<1>5. EdgeExact
  BY <1>1, EdgeNoCount
<1> QED
  BY <1>1, <1>3, <1>4, <1>5

(* Ages only grow, and in the same order.                                    *)
LEMMA EdgeAges ==
    ASSUME NEW a \in E!Ages, NEW b \in E!Ages
    PROVE  /\ E!Older(a) \in E!Ages /\ (a = E!Never <=> E!Older(a) = E!Never) /\ a <= E!Older(a)
           /\ a <= b => E!Older(a) <= E!Older(b)
           /\ a # E!Never => a \in 0..AgeCap /\ E!Older(a) \in 0..AgeCap
  BY AgesAssumption DEF E!Ages, E!Never, E!Older

LEMMA EdgeTick ==
    ASSUME EdgeTypes, EdgeKept, E!Tick
    PROVE  EdgeTypes' /\ EdgeKept' /\ EdgeExact
<1>0. UNCHANGED <<ruleOn, silenced, started, starts, thread>>
  BY DEF E!Tick
<1>1. /\ cooldowns \in [E!Keys -> E!Ages] /\ told \in [E!Keys -> E!Ages]
      /\ age \in [E!Starts -> 0..AgeCap]
  BY DEF EdgeTypes, E!TypeOK
<1>2. cooldowns' \in [E!Keys -> E!Ages] /\ told' \in [E!Keys -> E!Ages]
  BY <1>1, EdgeAges DEF E!Tick
<1>3. \A e \in E!Starts : E!Older(age[e]) \in 0..AgeCap /\ age[e] <= E!Older(age[e])
  BY <1>1, AgesAssumption DEF E!Older, E!Never
<1>4. /\ age' \in [E!Starts -> 0..AgeCap]
      /\ \A e \in E!Starts : started[e] # E!NoContainer => age[e] <= age'[e]
  BY <1>3, AgesAssumption DEF E!Tick
<1>5. EdgeTypes'
  BY <1>0, <1>2, <1>4 DEF EdgeTypes, E!TypeOK, EdgeThread
<1>6. EdgeKept'
  <2> SUFFICES ASSUME NEW c \in Containers, NEW w \in Nat, EdgeWindow(c, w),
                      NEW s \in E!Starts, started[s] = c, age'[s] < w
               PROVE  s \in starts[c]
    BY <1>0 DEF EdgeKept, E!Truly, EdgeWindow
  <2>1. age[s] < w
    BY <1>1, <1>4, ContainersAssumption, AgesAssumption DEF E!NoContainer
  <2> QED
    BY <2>1 DEF EdgeKept, E!Truly
<1>7. EdgeExact
  BY <1>0, EdgeNoCount
<1> QED
  BY <1>5, <1>6, <1>7

-----------------------------------------------------------------------------
(* The cooldown.  What is stored for a key was told no earlier; for a key    *)
(* that events fire, one watcher fires it, so told and stored agree except   *)
(* between its delivery and its store, and what passed the test still may.   *)
EdgeCool ==
    /\ \A k \in E!Keys : cooldowns[k] # E!Never => told[k] # E!Never /\ told[k] <= cooldowns[k]
    /\ \A k \in E!Keys : Rule[k[1]].type # "log" =>
         told[k] = cooldowns[k] \/ \E t \in Watchers : thread[t].pc = "store" /\ E!Key(t) = k
    /\ \A t \in E!Threads : thread[t].pc = "store" => told[E!Key(t)] = 0
    /\ \A t \in Watchers : thread[t].pc = "emit" => ~E!Cooling(E!Key(t))

EdgeCalm == E!DropsOnlyTold /\ E!EventsKeepCooldown

LEMMA EdgeKeyFits ==
    ASSUME EdgeTypes, NEW t \in E!Threads, thread[t].pc \in {"fire", "emit", "store"}
    PROVE  /\ E!Key(t) \in E!Keys /\ E!Key(t)[1] = thread[t].rule /\ thread[t].rule \in RuleIds
           /\ Rule[E!Key(t)[1]].type = "log" <=> t \in Scanners
           /\ t \in Watchers => WatcherOf[E!Key(t)[2]] = t
<1>1. EdgeStands(t, thread[t])
  BY DEF EdgeTypes
<1>2. /\ thread[t].rule \in RuleIds /\ thread[t].cont \in Containers
      /\ Rule[thread[t].rule].type = "log" <=> t \in Scanners
      /\ t \in Watchers => WatcherOf[thread[t].cont] = t
  BY <1>1 DEF EdgeStands
<1> QED
  BY <1>2 DEF E!Key, E!Keys

LEMMA EdgeCoolInit == E!Init => EdgeCool
  BY DEF E!Init, EdgeCool, E!Idle, E!Threads

(* A step that neither delivers nor stores.                                  *)
LEMMA EdgeCoolMoves ==
    ASSUME EdgeTypes, EdgeCool, NEW t \in E!Threads, thread[t].pc # "store", thread'[t].pc # "store",
           thread'[t].pc = "emit" => ~E!Cooling(E!Key(t)) /\ E!Key(t)' = E!Key(t),
           \A u \in E!Threads \ {t} : thread'[u] = thread[u], UNCHANGED <<cooldowns, told>>
    PROVE  EdgeCool'
<1>1. \A u \in E!Threads \ {t} : E!Key(u)' = E!Key(u)
  BY DEF E!Key
<1>2. Watchers \subseteq E!Threads
  BY DEF E!Threads
<1>3. \A k : E!Cooling(k)' <=> E!Cooling(k)
  BY DEF E!Cooling
<1>4. ASSUME NEW k \in E!Keys, Rule[k[1]].type # "log"
      PROVE  (told[k] = cooldowns[k] \/ \E u \in Watchers : thread[u].pc = "store" /\ E!Key(u) = k)'
  <2>1. CASE told[k] = cooldowns[k]
    BY <2>1
  <2>2. CASE \E u \in Watchers : thread[u].pc = "store" /\ E!Key(u) = k
    <3>1. PICK u \in Watchers : thread[u].pc = "store" /\ E!Key(u) = k
      BY <2>2
    <3>2. u \in E!Threads \ {t}
      BY <3>1, <1>2
    <3> QED
      BY <3>1, <3>2, <1>1
  <2> QED
    BY <1>4, <2>1, <2>2 DEF EdgeCool
<1>5. \A k \in E!Keys : (cooldowns[k] # E!Never => told[k] # E!Never /\ told[k] <= cooldowns[k])'
  BY DEF EdgeCool
<1>6. \A u \in E!Threads : thread'[u].pc = "store" => told'[E!Key(u)'] = 0
  BY <1>1 DEF EdgeCool
<1>7. \A u \in Watchers : thread'[u].pc = "emit" => ~E!Cooling(E!Key(u))'
  BY <1>1, <1>2, <1>3 DEF EdgeCool
<1> QED
  BY <1>4, <1>5, <1>6, <1>7 DEF EdgeCool

LEMMA EdgeCalmMoves ==
    ASSUME NEW t \in E!Threads, \A u \in E!Threads \ {t} : thread'[u] = thread[u],
           ~E!Drops(t), ~E!Delivers(t)
    PROVE  EdgeCalm
<1>1. \A u \in E!Threads : ~E!Drops(u) /\ ~E!Delivers(u)
  BY DEF E!Drops, E!Delivers
<1> QED
  BY <1>1 DEF EdgeCalm, E!DropsOnlyTold, E!EventsKeepCooldown, E!Threads

EdgeInv == EdgeTypes /\ EdgeKept /\ EdgeCool
EdgeGood == EdgeInv' /\ EdgeExact /\ EdgeCalm

LEMMA EdgeEventKeeps ==
    ASSUME EdgeInv, NEW t \in Watchers, NEW c \in Containers, NEW a \in Actions, E!handleEvent(t, c, a)
    PROVE  EdgeGood
<1>1. /\ EdgeTypes' /\ EdgeKept' /\ t \in E!Threads
      /\ thread'[t].pc = "rules" /\ \A u \in E!Threads \ {t} : thread'[u] = thread[u]
  BY EdgeEvent DEF EdgeInv
<1>2. thread[t].pc = "idle" /\ UNCHANGED <<cooldowns, told>>
  BY DEF E!handleEvent, E!Idle
<1>3. EdgeCool'
  BY <1>1, <1>2, EdgeCoolMoves DEF EdgeInv
<1>4. EdgeExact
  BY <1>1, EdgeNoCount
<1>5. EdgeCalm
  BY <1>1, <1>2, EdgeCalmMoves DEF E!Drops, E!Delivers
<1> QED
  BY <1>1, <1>3, <1>4, <1>5 DEF EdgeGood, EdgeInv

LEMMA EdgeRuleKeeps ==
    ASSUME EdgeInv, NEW t \in E!Threads, E!NextRule(t)
    PROVE  EdgeGood
<1>1. /\ EdgeTypes' /\ EdgeKept' /\ EdgeExact
      /\ thread'[t].pc \in {"fire", "counted"} /\ thread[t].pc = "rules"
      /\ \A u \in E!Threads \ {t} : thread'[u] = thread[u]
  BY EdgeNextRule DEF EdgeInv
<1>2. UNCHANGED <<cooldowns, told>>
  BY DEF E!NextRule
<1>3. EdgeCool'
  BY <1>1, <1>2, EdgeCoolMoves DEF EdgeInv
<1>4. EdgeCalm
  BY <1>1, EdgeCalmMoves DEF E!Drops, E!Delivers
<1> QED
  BY <1>1, <1>3, <1>4 DEF EdgeGood, EdgeInv

(* Decide, EventDone, LogLine: a thread moves, and nothing else happens.     *)
LEMMA EdgeQuietly ==
    ASSUME EdgeInv, NEW t \in E!Threads, NEW x \in EdgeThread, EdgeStands(t, x),
           x.pc \in {"idle", "rules", "fire"}, thread[t].pc \in {"idle", "rules", "counted"},
           thread' = [thread EXCEPT ![t] = x],
           UNCHANGED <<ruleOn, silenced, E!clocks, cooldowns, told>>
    PROVE  EdgeGood
<1>1. cooldowns' \in [E!Keys -> E!Ages] /\ told' \in [E!Keys -> E!Ages]
  BY DEF EdgeInv, EdgeTypes, E!TypeOK
<1>2. /\ EdgeTypes' /\ EdgeKept' /\ EdgeExact
      /\ thread'[t] = x /\ \A u \in E!Threads \ {t} : thread'[u] = thread[u]
  BY <1>1, EdgeOnlyMoves DEF EdgeInv
<1>3. EdgeCool'
  BY <1>2, EdgeCoolMoves DEF EdgeInv
<1>4. EdgeCalm
  BY <1>2, EdgeCalmMoves DEF E!Drops, E!Delivers
<1> QED
  BY <1>2, <1>3, <1>4 DEF EdgeGood, EdgeInv

LEMMA EdgeDecideKeeps ==
    ASSUME EdgeInv, NEW t \in E!Threads, E!Decide(t)
    PROVE  EdgeGood
<1> DEFINE pc == IF thread[t].n >= Rule[thread[t].rule].count THEN "fire" ELSE "rules"
           x == [thread[t] EXCEPT !.n = 0, !.pc = pc]
<1>1. thread \in [E!Threads -> EdgeThread] /\ EdgeStands(t, thread[t]) /\ thread[t].pc = "counted"
  BY EdgeThreadsTyped DEF EdgeInv, EdgeTypes, E!Decide
<1>2. thread' = [thread EXCEPT ![t] = x] /\ UNCHANGED <<ruleOn, silenced, E!clocks, cooldowns, told>>
  BY <1>1 DEF E!Decide
<1>3. pc \in {"fire", "rules"} /\ 0 \in 0..MaxEvents /\ thread[t] \in EdgeThread
  BY <1>1, AgesAssumption
<1> HIDE DEF pc
<1>4. /\ x \in EdgeThread /\ x.pc = pc /\ x.todo = thread[t].todo /\ x.cont = thread[t].cont
      /\ x.rule = thread[t].rule
  BY <1>3 DEF EdgeThread
<1> HIDE DEF x
<1>5. EdgeStands(t, x)
  BY <1>1, <1>3, <1>4 DEF EdgeStands
<1> QED
  BY <1>1, <1>2, <1>3, <1>4, <1>5, EdgeQuietly

LEMMA EdgeDoneKeeps ==
    ASSUME EdgeInv, NEW t \in E!Threads, E!EventDone(t)
    PROVE  EdgeGood
<1>1. thread' = [thread EXCEPT ![t] = E!Idle] /\ UNCHANGED <<ruleOn, silenced, E!clocks, cooldowns, told>>
  BY DEF E!EventDone
<1>2. thread[t].pc = "rules" /\ E!Idle.pc = "idle"
  BY DEF E!EventDone, E!Idle
<1> QED
  BY <1>1, <1>2, EdgeIdle, EdgeQuietly

LEMMA EdgeLineKeeps ==
    ASSUME EdgeInv, NEW t \in Scanners, NEW r \in RuleIds, NEW c \in Containers, E!LogLine(t, r, c)
    PROVE  EdgeGood
<1> DEFINE x == [E!Idle EXCEPT !.pc = "fire", !.cont = c, !.action = "line", !.rule = r]
<1>1. thread' = [thread EXCEPT ![t] = x] /\ UNCHANGED <<ruleOn, silenced, E!clocks, cooldowns, told>>
  BY DEF E!LogLine
<1>2. thread[t].pc = "idle" /\ Rule[r].type = "log" /\ t \in E!Threads /\ t \notin Watchers
  BY RulesAssumption DEF E!LogLine, E!Idle, E!Threads
<1>3. x \in EdgeThread /\ x.pc = "fire" /\ x.todo = {} /\ x.cont = c /\ x.rule = r
  BY EdgeIdle DEF E!Idle, EdgeThread
<1> HIDE DEF x
<1>4. EdgeStands(t, x)
  BY <1>2, <1>3 DEF EdgeStands
<1> QED
  BY <1>1, <1>2, <1>3, <1>4, EdgeQuietly

(* Back to the loop over the rules.                                          *)
LEMMA EdgeReturn ==
    ASSUME EdgeTypes, NEW t \in E!Threads, thread[t].pc # "idle"
    PROVE  \E x \in EdgeThread : /\ E!Return(t) = [thread EXCEPT ![t] = x]
                                 /\ EdgeStands(t, x) /\ x.pc = "rules"
<1> DEFINE x == [thread[t] EXCEPT !.pc = "rules", !.rule = E!NoRule]
<1>1. thread \in [E!Threads -> EdgeThread] /\ EdgeStands(t, thread[t])
  BY EdgeThreadsTyped DEF EdgeTypes
<1>2. E!Return(t) = [thread EXCEPT ![t] = x]
  BY <1>1 DEF E!Return
<1>3. x \in EdgeThread /\ x.pc = "rules" /\ x.todo = thread[t].todo /\ x.cont = thread[t].cont
  BY <1>1 DEF EdgeThread
<1> HIDE DEF x
<1>4. EdgeStands(t, x)
  BY <1>1, <1>3 DEF EdgeStands
<1> QED
  BY <1>2, <1>3, <1>4

(* One step further in fire.                                                 *)
LEMMA EdgeFurther ==
    ASSUME EdgeTypes, NEW t \in E!Threads, thread[t].pc \in {"fire", "emit"}, NEW pc \in {"emit", "store"}
    PROVE  \E x \in EdgeThread : /\ [thread EXCEPT ![t].pc = pc] = [thread EXCEPT ![t] = x]
                                 /\ EdgeStands(t, x) /\ x.pc = pc
                                 /\ x.rule = thread[t].rule /\ x.cont = thread[t].cont
<1> DEFINE x == [thread[t] EXCEPT !.pc = pc]
<1>1. thread \in [E!Threads -> EdgeThread] /\ EdgeStands(t, thread[t])
  BY EdgeThreadsTyped DEF EdgeTypes
<1>2. [thread EXCEPT ![t].pc = pc] = [thread EXCEPT ![t] = x]
  BY <1>1
<1>3. /\ x \in EdgeThread /\ x.pc = pc /\ x.todo = thread[t].todo /\ x.cont = thread[t].cont
      /\ x.rule = thread[t].rule
  BY <1>1 DEF EdgeThread
<1> HIDE DEF x
<1>4. EdgeStands(t, x)
  BY <1>1, <1>3 DEF EdgeStands
<1> QED
  BY <1>2, <1>3, <1>4

LEMMA EdgeCheckKeeps ==
    ASSUME EdgeInv, NEW t \in E!Threads, E!FireCheck(t)
    PROVE  EdgeGood
<1>0. /\ thread[t].pc = "fire" /\ UNCHANGED <<ruleOn, silenced, E!clocks, cooldowns, told>>
      /\ EdgeTypes /\ EdgeKept /\ EdgeCool
  BY DEF E!FireCheck, EdgeInv
<1>1. cooldowns \in [E!Keys -> E!Ages] /\ told \in [E!Keys -> E!Ages]
  BY <1>0 DEF EdgeTypes, E!TypeOK
<1>2. CASE E!Cooling(E!Key(t))
  <2>1. PICK x \in EdgeThread : /\ E!Return(t) = [thread EXCEPT ![t] = x]
                                /\ EdgeStands(t, x) /\ x.pc = "rules"
    BY <1>0, EdgeReturn
  <2>2. thread' = [thread EXCEPT ![t] = x]
    BY <1>2, <2>1 DEF E!FireCheck
  <2>3. /\ EdgeTypes' /\ EdgeKept' /\ EdgeExact
        /\ thread'[t] = x /\ \A u \in E!Threads \ {t} : thread'[u] = thread[u]
    BY <1>0, <1>1, <2>1, <2>2, EdgeOnlyMoves
  <2>4. EdgeCool'
    BY <1>0, <2>1, <2>3, EdgeCoolMoves
  <2>5. E!Key(t) \in E!Keys /\ E!Key(t)[1] \in RuleIds
    BY <1>0, EdgeKeyFits
  <2>6. told[E!Key(t)] # E!Never /\ told[E!Key(t)] < Rule[E!Key(t)[1]].cooldown
    <3>1. /\ told[E!Key(t)] # E!Never /\ told[E!Key(t)] <= cooldowns[E!Key(t)]
          /\ cooldowns[E!Key(t)] < Rule[E!Key(t)[1]].cooldown
      BY <1>0, <1>2, <2>5 DEF E!Cooling, EdgeCool
    <3>2. told[E!Key(t)] \in Int /\ cooldowns[E!Key(t)] \in Int /\ Rule[E!Key(t)[1]].cooldown \in Int
      BY <1>1, <2>5, EdgeRuleFits, AgesAssumption DEF E!Ages, E!Never
    <3> QED
      BY <3>1, <3>2
  <2>7. E!DropsOnlyTold
    BY <2>3, <2>6 DEF E!DropsOnlyTold, E!Drops
  <2>8. E!EventsKeepCooldown
    BY <1>0, <2>3 DEF E!EventsKeepCooldown, E!Delivers, E!Threads
  <2> QED
    BY <2>3, <2>4, <2>7, <2>8 DEF EdgeGood, EdgeInv, EdgeCalm
<1>3. CASE ~E!Cooling(E!Key(t))
  <2>1. PICK x \in EdgeThread : /\ [thread EXCEPT ![t].pc = "emit"] = [thread EXCEPT ![t] = x]
                                /\ EdgeStands(t, x) /\ x.pc = "emit"
                                /\ x.rule = thread[t].rule /\ x.cont = thread[t].cont
    BY <1>0, EdgeFurther
  <2>2. thread' = [thread EXCEPT ![t] = x]
    BY <1>3, <2>1 DEF E!FireCheck
  <2>3. /\ EdgeTypes' /\ EdgeKept' /\ EdgeExact
        /\ thread'[t] = x /\ \A u \in E!Threads \ {t} : thread'[u] = thread[u]
    BY <1>0, <1>1, <2>1, <2>2, EdgeOnlyMoves
  <2>4. E!Key(t)' = E!Key(t)
    BY <2>1, <2>3 DEF E!Key
  <2>5. EdgeCool'
    BY <1>0, <1>3, <2>1, <2>3, <2>4, EdgeCoolMoves
  <2>6. EdgeCalm
    BY <1>0, <2>1, <2>3, EdgeCalmMoves DEF E!Drops, E!Delivers
  <2> QED
    BY <2>3, <2>5, <2>6 DEF EdgeGood, EdgeInv
<1> QED
  BY <1>2, <1>3

LEMMA EdgeEmitKeeps ==
    ASSUME EdgeInv, NEW t \in E!Threads, E!FireEmit(t)
    PROVE  EdgeGood
<1>0. /\ thread[t].pc = "emit" /\ UNCHANGED <<ruleOn, silenced, E!clocks, cooldowns>>
      /\ EdgeTypes /\ EdgeKept /\ EdgeCool
  BY DEF E!FireEmit, EdgeInv
<1>1. cooldowns \in [E!Keys -> E!Ages] /\ told \in [E!Keys -> E!Ages]
  BY <1>0 DEF EdgeTypes, E!TypeOK
<1>2. CASE thread' = E!Return(t) /\ UNCHANGED told
  <2>1. PICK x \in EdgeThread : /\ E!Return(t) = [thread EXCEPT ![t] = x]
                                /\ EdgeStands(t, x) /\ x.pc = "rules"
    BY <1>0, EdgeReturn
  <2>2. thread' = [thread EXCEPT ![t] = x]
    BY <1>2, <2>1
  <2>3. /\ EdgeTypes' /\ EdgeKept' /\ EdgeExact
        /\ thread'[t] = x /\ \A u \in E!Threads \ {t} : thread'[u] = thread[u]
    BY <1>0, <1>1, <1>2, <2>1, <2>2, EdgeOnlyMoves
  <2>4. EdgeCool'
    BY <1>0, <1>2, <2>1, <2>3, EdgeCoolMoves
  <2>5. EdgeCalm
    BY <1>0, <2>1, <2>3, EdgeCalmMoves DEF E!Drops, E!Delivers
  <2> QED
    BY <2>3, <2>4, <2>5 DEF EdgeGood, EdgeInv
<1>3. CASE thread' = [thread EXCEPT ![t].pc = "store"] /\ told' = [told EXCEPT ![E!Key(t)] = 0]
  <2>1. PICK x \in EdgeThread : /\ [thread EXCEPT ![t].pc = "store"] = [thread EXCEPT ![t] = x]
                                /\ EdgeStands(t, x) /\ x.pc = "store"
                                /\ x.rule = thread[t].rule /\ x.cont = thread[t].cont
    BY <1>0, EdgeFurther
  <2>2. /\ E!Key(t) \in E!Keys /\ E!Key(t)[1] \in RuleIds
        /\ Rule[E!Key(t)[1]].type = "log" <=> t \in Scanners
    BY <1>0, EdgeKeyFits
  <2>3. /\ told' \in [E!Keys -> E!Ages] /\ told'[E!Key(t)] = 0
        /\ \A k \in E!Keys \ {E!Key(t)} : told'[k] = told[k]
    BY <1>1, <1>3, <2>2, AgesAssumption DEF E!Ages
  <2>4. /\ EdgeTypes' /\ EdgeKept' /\ EdgeExact
        /\ thread'[t] = x /\ \A u \in E!Threads \ {t} : thread'[u] = thread[u]
    BY <1>0, <1>1, <1>3, <2>1, <2>3, EdgeOnlyMoves
  <2>5. \A u \in E!Threads : E!Key(u)' = E!Key(u)
    BY <2>1, <2>4 DEF E!Key
  <2>6. EdgeCool'
    <3>1. \A k \in E!Keys : cooldowns[k] # E!Never => told'[k] # E!Never /\ told'[k] <= cooldowns[k]
      <4> SUFFICES ASSUME NEW k \in E!Keys, cooldowns[k] # E!Never
                   PROVE  told'[k] # E!Never /\ told'[k] <= cooldowns[k]
        OBVIOUS
      <4>1. CASE k = E!Key(t)
        BY <1>1, <2>3, <4>1 DEF E!Ages, E!Never
      <4>2. CASE k # E!Key(t)
        BY <1>0, <2>3, <4>2 DEF EdgeCool
      <4> QED
        BY <4>1, <4>2
    <3>2. ASSUME NEW k \in E!Keys, Rule[k[1]].type # "log"
          PROVE  \/ told'[k] = cooldowns[k]
                 \/ \E u \in Watchers : thread'[u].pc = "store" /\ E!Key(u)' = k
      <4>1. CASE k = E!Key(t)
        <5>1. t \in Watchers
          BY <2>2, <3>2, <4>1 DEF E!Threads
        <5> QED
          BY <5>1, <2>1, <2>4, <2>5, <4>1
      <4>2. CASE k # E!Key(t) /\ told[k] = cooldowns[k]
        BY <2>3, <4>2
      <4>3. CASE k # E!Key(t) /\ \E u \in Watchers : thread[u].pc = "store" /\ E!Key(u) = k
        <5>1. PICK u \in Watchers : thread[u].pc = "store" /\ E!Key(u) = k
          BY <4>3
        <5>2. u \in E!Threads \ {t}
          BY <1>0, <5>1 DEF E!Threads
        <5> QED
          BY <5>1, <5>2, <2>4, <2>5
      <4> QED
        BY <1>0, <3>2, <4>1, <4>2, <4>3 DEF EdgeCool
    <3>3. \A u \in E!Threads : thread'[u].pc = "store" => told'[E!Key(u)'] = 0
      <4> SUFFICES ASSUME NEW u \in E!Threads, thread'[u].pc = "store" PROVE told'[E!Key(u)] = 0
        BY <2>5
      <4>1. CASE E!Key(u) = E!Key(t)
        BY <2>3, <4>1
      <4>2. CASE E!Key(u) # E!Key(t)
        <5>1. u # t /\ thread[u].pc = "store"
          BY <4>2, <2>4
        <5>2. E!Key(u) \in E!Keys /\ told[E!Key(u)] = 0
          BY <1>0, <5>1, EdgeKeyFits DEF EdgeCool
        <5> QED
          BY <2>3, <4>2, <5>2
      <4> QED
        BY <4>1, <4>2
    <3>4. \A u \in Watchers : thread'[u].pc = "emit" => ~E!Cooling(E!Key(u))'
      <4> SUFFICES ASSUME NEW u \in Watchers, thread'[u].pc = "emit" PROVE ~E!Cooling(E!Key(u))'
        OBVIOUS
      <4>1. u \in E!Threads /\ u # t
        BY <2>1, <2>4 DEF E!Threads
      <4>2. thread[u].pc = "emit" /\ E!Key(u)' = E!Key(u)
        BY <4>1, <2>4, <2>5
      <4> QED
        BY <1>0, <4>2 DEF EdgeCool, E!Cooling
    <3> QED
      BY <1>0, <3>1, <3>2, <3>3, <3>4 DEF EdgeCool
  <2>7. E!DropsOnlyTold
    BY <1>0, <2>4 DEF E!DropsOnlyTold, E!Drops
  <2>8. E!EventsKeepCooldown
    <3> SUFFICES ASSUME NEW u \in Watchers, E!Delivers(u)
                 PROVE  told[E!Key(u)] = E!Never \/ told[E!Key(u)] >= Rule[E!Key(u)[1]].cooldown
      BY DEF E!EventsKeepCooldown
    <3>1. u \in E!Threads /\ u = t
      BY <2>4 DEF E!Delivers, E!Threads
    <3>2. Rule[E!Key(t)[1]].type # "log" /\ WatcherOf[E!Key(t)[2]] = t
      BY <1>0, <3>1, RulesAssumption, EdgeKeyFits
    <3>3. told[E!Key(t)] = cooldowns[E!Key(t)]
      <4>1. ASSUME NEW v \in Watchers, thread[v].pc = "store", E!Key(v) = E!Key(t) PROVE FALSE
        <5>1. v \in E!Threads /\ WatcherOf[E!Key(v)[2]] = v
          BY <1>0, <4>1, EdgeKeyFits DEF E!Threads
        <5> QED
          BY <1>0, <3>2, <4>1, <5>1
      <4> QED
        BY <1>0, <2>2, <3>2, <4>1 DEF EdgeCool
    <3>4. ~E!Cooling(E!Key(t))
      BY <1>0, <3>1 DEF EdgeCool
    <3>5. cooldowns[E!Key(t)] \in Int /\ Rule[E!Key(t)[1]].cooldown \in Int
      BY <1>1, <2>2, EdgeRuleFits, AgesAssumption DEF E!Ages, E!Never
    <3> QED
      BY <3>1, <3>3, <3>4, <3>5 DEF E!Cooling
  <2> QED
    BY <2>4, <2>6, <2>7, <2>8 DEF EdgeGood, EdgeInv, EdgeCalm
<1> QED
  BY <1>2, <1>3 DEF E!FireEmit

LEMMA EdgeStoreKeeps ==
    ASSUME EdgeInv, NEW t \in E!Threads, E!FireStore(t)
    PROVE  EdgeGood
<1>0. /\ thread[t].pc = "store" /\ UNCHANGED <<ruleOn, silenced, E!clocks, told>>
      /\ EdgeTypes /\ EdgeKept /\ EdgeCool
  BY DEF E!FireStore, EdgeInv
<1>1. cooldowns \in [E!Keys -> E!Ages] /\ told \in [E!Keys -> E!Ages]
  BY <1>0 DEF EdgeTypes, E!TypeOK
<1>2. PICK x \in EdgeThread : /\ E!Return(t) = [thread EXCEPT ![t] = x]
                              /\ EdgeStands(t, x) /\ x.pc = "rules"
  BY <1>0, EdgeReturn
<1>3. thread' = [thread EXCEPT ![t] = x]
  BY <1>2 DEF E!FireStore
<1>4. /\ E!Key(t) \in E!Keys /\ E!Key(t)[1] \in RuleIds
      /\ Rule[E!Key(t)[1]].type = "log" <=> t \in Scanners
      /\ t \in Watchers => WatcherOf[E!Key(t)[2]] = t
  BY <1>0, EdgeKeyFits
<1>5. /\ cooldowns' \in [E!Keys -> E!Ages] /\ cooldowns'[E!Key(t)] = 0
      /\ \A k \in E!Keys \ {E!Key(t)} : cooldowns'[k] = cooldowns[k]
  BY <1>1, <1>4, AgesAssumption DEF E!FireStore, E!Ages
<1>6. /\ EdgeTypes' /\ EdgeKept' /\ EdgeExact
      /\ thread'[t] = x /\ \A u \in E!Threads \ {t} : thread'[u] = thread[u]
  BY <1>0, <1>1, <1>2, <1>3, <1>5, EdgeOnlyMoves
<1>7. \A u \in E!Threads \ {t} : E!Key(u)' = E!Key(u)
  BY <1>6 DEF E!Key
<1>8. told[E!Key(t)] = 0
  BY <1>0 DEF EdgeCool
<1>9. EdgeCool'
  <2>1. \A k \in E!Keys : cooldowns'[k] # E!Never => told[k] # E!Never /\ told[k] <= cooldowns'[k]
    <3> SUFFICES ASSUME NEW k \in E!Keys, cooldowns'[k] # E!Never
                 PROVE  told[k] # E!Never /\ told[k] <= cooldowns'[k]
      OBVIOUS
    <3>1. CASE k = E!Key(t)
      BY <1>5, <1>8, <3>1 DEF E!Never
    <3>2. CASE k # E!Key(t)
      BY <1>0, <1>5, <3>2 DEF EdgeCool
    <3> QED
      BY <3>1, <3>2
  <2>2. ASSUME NEW k \in E!Keys, Rule[k[1]].type # "log"
        PROVE  \/ told[k] = cooldowns'[k]
               \/ \E u \in Watchers : thread'[u].pc = "store" /\ E!Key(u)' = k
    <3>1. CASE k = E!Key(t)
      BY <1>5, <1>8, <3>1
    <3>2. CASE k # E!Key(t) /\ told[k] = cooldowns[k]
      BY <1>5, <3>2
    <3>3. CASE k # E!Key(t) /\ \E u \in Watchers : thread[u].pc = "store" /\ E!Key(u) = k
      <4>1. PICK u \in Watchers : thread[u].pc = "store" /\ E!Key(u) = k
        BY <3>3
      <4>2. u \in E!Threads \ {t}
        BY <3>3, <4>1 DEF E!Threads
      <4> QED
        BY <4>1, <4>2, <1>6, <1>7
    <3> QED
      BY <1>0, <2>2, <3>1, <3>2, <3>3 DEF EdgeCool
  <2>3. \A u \in E!Threads : thread'[u].pc = "store" => told[E!Key(u)'] = 0
    BY <1>0, <1>2, <1>6, <1>7 DEF EdgeCool
  <2>4. \A u \in Watchers : thread'[u].pc = "emit" => ~E!Cooling(E!Key(u))'
    <3> SUFFICES ASSUME NEW u \in Watchers, thread'[u].pc = "emit" PROVE ~E!Cooling(E!Key(u))'
      OBVIOUS
    <3>1. u \in E!Threads /\ u # t
      BY <1>2, <1>6 DEF E!Threads
    <3>2. thread[u].pc = "emit" /\ E!Key(u)' = E!Key(u)
      BY <3>1, <1>6, <1>7
    <3>3. /\ E!Key(u) \in E!Keys /\ WatcherOf[E!Key(u)[2]] = u
          /\ Rule[E!Key(u)[1]].type = "log" <=> u \in Scanners
      BY <1>0, <3>1, <3>2, EdgeKeyFits
    <3>4. E!Key(u) # E!Key(t)
      BY <1>4, <3>1, <3>3, RulesAssumption DEF E!Threads
    <3>5. cooldowns'[E!Key(u)] = cooldowns[E!Key(u)]
      BY <1>5, <3>3, <3>4
    <3>6. ~E!Cooling(E!Key(u))
      BY <1>0, <3>2 DEF EdgeCool
    <3> QED
      BY <3>2, <3>5, <3>6 DEF E!Cooling
  <2> QED
    BY <1>0, <2>1, <2>2, <2>3, <2>4 DEF EdgeCool
<1>10. EdgeCalm
  BY <1>0, <1>6, EdgeCalmMoves DEF E!Drops, E!Delivers
<1> QED
  BY <1>6, <1>9, <1>10 DEF EdgeGood, EdgeInv

LEMMA EdgeCoolTick ==
    ASSUME EdgeTypes, EdgeCool, E!Tick
    PROVE  EdgeCool'
<1>1. cooldowns \in [E!Keys -> E!Ages] /\ told \in [E!Keys -> E!Ages]
  BY DEF EdgeTypes, E!TypeOK
<1>2. /\ \A k \in E!Keys : cooldowns'[k] = E!Older(cooldowns[k]) /\ told'[k] = E!Older(told[k])
      /\ thread' = thread /\ \A t \in E!Threads : thread[t].pc # "store"
  BY DEF E!Tick
<1>3. \A t : E!Key(t)' = E!Key(t)
  BY <1>2 DEF E!Key
<1>4. \A k \in E!Keys : cooldowns'[k] # E!Never => told'[k] # E!Never /\ told'[k] <= cooldowns'[k]
  <2> SUFFICES ASSUME NEW k \in E!Keys, cooldowns'[k] # E!Never
               PROVE  told'[k] # E!Never /\ told'[k] <= cooldowns'[k]
    OBVIOUS
  <2>1. cooldowns[k] \in E!Ages /\ told[k] \in E!Ages
    BY <1>1
  <2>2. cooldowns[k] # E!Never
    BY <1>2, <2>1, EdgeAges
  <2>3. told[k] # E!Never /\ told[k] <= cooldowns[k]
    BY <2>2 DEF EdgeCool
  <2> QED
    BY <1>2, <2>1, <2>3, EdgeAges
<1>5. \A k \in E!Keys : Rule[k[1]].type # "log" => told'[k] = cooldowns'[k]
  <2>1. \A t \in Watchers : thread[t].pc # "store"
    BY <1>2 DEF E!Threads
  <2> QED
    BY <1>2, <2>1 DEF EdgeCool
<1>6. \A t \in Watchers : thread'[t].pc = "emit" => ~E!Cooling(E!Key(t))'
  <2> SUFFICES ASSUME NEW t \in Watchers, thread[t].pc = "emit" PROVE ~E!Cooling(E!Key(t))'
    BY <1>2
  <2>1. t \in E!Threads
    BY DEF E!Threads
  <2>2. E!Key(t) \in E!Keys /\ E!Key(t)[1] \in RuleIds
    BY <2>1, EdgeKeyFits
  <2>3. cooldowns[E!Key(t)] = E!Never \/ ~(cooldowns[E!Key(t)] < Rule[E!Key(t)[1]].cooldown)
    BY DEF EdgeCool, E!Cooling
  <2>4. cooldowns[E!Key(t)] \in E!Ages /\ cooldowns[E!Key(t)] \in Int /\ Rule[E!Key(t)[1]].cooldown \in Int
    BY <1>1, <2>2, EdgeRuleFits, AgesAssumption DEF E!Ages, E!Never
  <2>5. /\ cooldowns'[E!Key(t)] = E!Older(cooldowns[E!Key(t)])
        /\ cooldowns[E!Key(t)] <= E!Older(cooldowns[E!Key(t)])
        /\ cooldowns[E!Key(t)] = E!Never => E!Older(cooldowns[E!Key(t)]) = E!Never
    BY <1>2, <2>2, <2>4, EdgeAges
  <2>6. E!Older(cooldowns[E!Key(t)]) \in Int
    BY <2>4, EdgeAges, AgesAssumption DEF E!Ages, E!Never
  <2>7. cooldowns'[E!Key(t)] = E!Never \/ ~(cooldowns'[E!Key(t)] < Rule[E!Key(t)[1]].cooldown)
    BY <2>3, <2>4, <2>5, <2>6
  <2> QED
    BY <1>3, <2>7 DEF E!Cooling
<1> QED
  BY <1>2, <1>4, <1>5, <1>6 DEF EdgeCool

LEMMA EdgeSurroundings ==
    ASSUME EdgeInv,
           \/ \E r \in RuleIds : E!ToggleRule(r)
           \/ \E k \in E!Keys : E!WindowChanges(k)
           \/ UNCHANGED evars
    PROVE  EdgeGood
<1>1. /\ UNCHANGED <<started, age, starts, cooldowns, thread, told>>
      /\ ruleOn' \subseteq RuleIds /\ silenced' \subseteq E!Keys
  BY DEF EdgeInv, EdgeTypes, E!TypeOK, E!ToggleRule, E!WindowChanges, E!clocks, evars
<1>2. EdgeTypes'
  BY <1>1 DEF EdgeInv, EdgeTypes, E!TypeOK
<1>3. EdgeKept'
  BY <1>1 DEF EdgeInv, EdgeKept, E!Truly, EdgeWindow
<1>4. EdgeCool'
  BY <1>1 DEF EdgeInv, EdgeCool, E!Key, E!Cooling
<1>5. EdgeExact
  BY <1>1, EdgeNoCount
<1>6. EdgeCalm
  BY <1>1 DEF EdgeCalm, E!DropsOnlyTold, E!EventsKeepCooldown, E!Drops, E!Delivers
<1> QED
  BY <1>2, <1>3, <1>4, <1>5, <1>6 DEF EdgeGood, EdgeInv

LEMMA EdgeStep == EdgeInv /\ [E!Next]_evars => EdgeGood
<1> SUFFICES ASSUME EdgeInv, [E!Next]_evars PROVE EdgeGood
  OBVIOUS
<1>1. ASSUME NEW t \in Watchers, NEW c \in Containers, NEW a \in Actions, E!handleEvent(t, c, a)
      PROVE  EdgeGood
  BY <1>1, EdgeEventKeeps
<1>2. ASSUME NEW t \in Scanners, NEW r \in RuleIds, NEW c \in Containers, E!LogLine(t, r, c)
      PROVE  EdgeGood
  BY <1>2, EdgeLineKeeps
<1>3. ASSUME NEW t \in E!Threads, E!ThreadStep(t) PROVE EdgeGood
  BY <1>3, EdgeRuleKeeps, EdgeDecideKeeps, EdgeDoneKeeps, EdgeCheckKeeps, EdgeEmitKeeps, EdgeStoreKeeps
     DEF E!ThreadStep
<1>4. CASE E!Tick
  <2>1. EdgeTypes' /\ EdgeKept' /\ EdgeExact /\ EdgeCool'
    BY <1>4, EdgeTick, EdgeCoolTick DEF EdgeInv
  <2>2. thread' = thread
    BY <1>4 DEF E!Tick
  <2>3. EdgeCalm
    BY <2>2 DEF EdgeCalm, E!DropsOnlyTold, E!EventsKeepCooldown, E!Drops, E!Delivers
  <2> QED
    BY <2>1, <2>3 DEF EdgeGood, EdgeInv
<1>5. CASE \/ \E r \in RuleIds : E!ToggleRule(r)
           \/ \E k \in E!Keys : E!WindowChanges(k)
           \/ UNCHANGED evars
  BY <1>5, EdgeSurroundings
<1> QED
  BY <1>1, <1>2, <1>3, <1>4, <1>5 DEF E!Next

-----------------------------------------------------------------------------
(* The second instance of the edge rules in the run rules: two restart       *)
(* rules over two containers, one with a window longer than the retention.   *)

LoopThread ==
    [pc : {"idle", "rules", "counted", "fire", "emit", "store"},
     cont : Both \cup {L!NoContainer}, action : {"start"} \cup {"none", "line"},
     todo : SUBSET {1, 2}, rule : {1, 2} \cup {L!NoRule}, n : 0..2]

LoopStands(x) ==
    /\ x.pc # "idle" => x.cont \in Both
    /\ x.pc \in {"counted", "fire", "emit", "store"} => x.rule \in {1, 2}

LoopTypes == L!TypeOK /\ \A t \in L!Threads : LoopStands(lThread[t])

(* No start of the shorter window is forgotten.                              *)
LoopKept == \A c \in Both : L!Truly(c, 2) \subseteq lStarts[c]

LEMMA LoopRuleFits ==
    ASSUME NEW r \in {1, 2}
    PROVE  /\ LoopRules[r].type = "restart" /\ LoopRules[r].containers = Both
           /\ LoopRules[r].window \in {2, 3} /\ LoopRules[r].cooldown = 0 /\ LoopRules[r].count = 2
  BY DEF LoopRules, RestartRule

LEMMA LoopIdle == L!Idle \in LoopThread /\ LoopStands(L!Idle)
<1>1. L!Idle \in LoopThread
  BY DEF L!Idle, LoopThread
<1>2. LoopStands(L!Idle)
  BY DEF L!Idle, LoopStands
<1> QED
  BY <1>1, <1>2

LEMMA LoopMoves ==
    ASSUME LoopTypes, NEW t \in L!Threads, NEW x \in LoopThread, LoopStands(x),
           lThread' = [lThread EXCEPT ![t] = x]
    PROVE  /\ lThread' \in [L!Threads -> LoopThread]
           /\ lThread'[t] = x /\ \A u \in L!Threads \ {t} : lThread'[u] = lThread[u]
           /\ \A u \in L!Threads : LoopStands(lThread'[u])
<1>1. lThread \in [L!Threads -> LoopThread]
  BY DEF LoopTypes, L!TypeOK, LoopThread
<1>2. /\ lThread' \in [L!Threads -> LoopThread]
      /\ lThread'[t] = x /\ \A u \in L!Threads \ {t} : lThread'[u] = lThread[u]
  BY <1>1
<1> QED
  BY <1>2 DEF LoopTypes

LEMMA LoopInit == L!Init => LoopTypes /\ LoopKept
<1> SUFFICES ASSUME L!Init PROVE LoopTypes /\ LoopKept
  OBVIOUS
<1>1. lThread \in [L!Threads -> LoopThread] /\ \A t \in L!Threads : LoopStands(lThread[t])
  BY LoopIdle DEF L!Init
<1>2. LoopTypes
  <2>1. /\ lEnabled \subseteq {1, 2} /\ lSilenced \subseteq L!Keys
        /\ lStarted \in [L!Starts -> Both \cup {L!NoContainer}]
        /\ lAge \in [L!Starts -> 0..3] /\ lStarts \in [Both -> SUBSET L!Starts]
    BY DEF L!Init
  <2>2. lCooldowns \in [L!Keys -> L!Ages] /\ lTold \in [L!Keys -> L!Ages]
    BY DEF L!Init, L!Ages, L!Never
  <2>3. \A c \in Both, e \in L!Starts : e \in lStarts[c] => lStarted[e] = c
    BY DEF L!Init
  <2> QED
    BY <1>1, <2>1, <2>2, <2>3 DEF LoopTypes, L!TypeOK, LoopThread
<1>3. LoopKept
  BY LoopsAssumption DEF L!Init, LoopKept, L!Truly, L!NoContainer
<1> QED
  BY <1>2, <1>3

LEMMA LoopRecords ==
    ASSUME LoopTypes, LoopKept, NEW c \in Both, NEW e \in L!FreshStarts, L!recordRestart(c, e)
    PROVE  /\ lStarted' \in [L!Starts -> Both \cup {L!NoContainer}]
           /\ lAge' \in [L!Starts -> 0..3] /\ lStarts' \in [Both -> SUBSET L!Starts]
           /\ \A d \in Both, s \in L!Starts : s \in lStarts'[d] => lStarted'[s] = d
           /\ LoopKept'
<1>0. /\ lStarted \in [L!Starts -> Both \cup {L!NoContainer}]
      /\ lAge \in [L!Starts -> 0..3] /\ lStarts \in [Both -> SUBSET L!Starts]
      /\ \A d \in Both, s \in L!Starts : s \in lStarts[d] => lStarted[s] = d
  BY DEF LoopTypes, L!TypeOK
<1>1. e \in L!Starts /\ lStarted[e] = L!NoContainer /\ L!NoContainer \notin Both
  BY LoopsAssumption DEF L!FreshStarts, L!NoContainer
<1>2. /\ lStarted' \in [L!Starts -> Both \cup {L!NoContainer}]
      /\ lStarted'[e] = c /\ \A s \in L!Starts \ {e} : lStarted'[s] = lStarted[s]
  BY <1>0, <1>1 DEF L!recordRestart
<1>3. /\ lAge' \in [L!Starts -> 0..3]
      /\ lAge'[e] = 0 /\ \A s \in L!Starts \ {e} : lAge'[s] = lAge[s]
  BY <1>0, <1>1 DEF L!recordRestart
<1>4. /\ lStarts' \in [Both -> SUBSET L!Starts]
      /\ lStarts'[c] = {s \in lStarts[c] : lAge[s] < 2} \cup {e}
      /\ \A d \in Both \ {c} : lStarts'[d] = lStarts[d]
  BY <1>0, <1>1 DEF L!recordRestart
<1>5. \A d \in Both : e \notin lStarts[d]
  BY <1>0, <1>1
<1>6. \A d \in Both, s \in L!Starts : s \in lStarts'[d] => lStarted'[s] = d
  BY <1>0, <1>2, <1>4, <1>5
<1>7. LoopKept'
  <2> SUFFICES ASSUME NEW d \in Both, NEW s \in L!Starts, lStarted'[s] = d, lAge'[s] < 2
               PROVE  s \in lStarts'[d]
    BY DEF LoopKept, L!Truly
  <2>1. s = e \/ (lStarted[s] = d /\ lAge[s] < 2 /\ s \in lStarts[d])
    BY <1>2, <1>3 DEF LoopKept, L!Truly
  <2> QED
    BY <2>1, <1>2, <1>4
<1> QED
  BY <1>2, <1>3, <1>4, <1>6, <1>7

LoopExact == L!CountsNoMore /\ L!ShortestCountsExactly
LoopGood == LoopTypes' /\ LoopKept' /\ LoopExact

LEMMA LoopNoCount ==
    ASSUME \A u \in L!Threads : lThread'[u].pc = "counted" => lThread[u].pc = "counted"
    PROVE  LoopExact
  BY DEF LoopExact, L!CountsNoMore, L!ShortestCountsExactly, L!Counts

LEMMA LoopEventKeeps ==
    ASSUME LoopTypes, LoopKept, NEW t \in {"w"}, NEW c \in Both, NEW a \in {"start"}, L!handleEvent(t, c, a)
    PROVE  LoopGood
<1>0. t \in L!Threads
  BY DEF L!Threads
<1>1. /\ lStarted' \in [L!Starts -> Both \cup {L!NoContainer}]
      /\ lAge' \in [L!Starts -> 0..3] /\ lStarts' \in [Both -> SUBSET L!Starts]
      /\ \A d \in Both, s \in L!Starts : s \in lStarts'[d] => lStarted'[s] = d
      /\ LoopKept'
  <2>1. a \in L!StartActions
    BY DEF L!StartActions
  <2>2. L!FreshStarts # {} /\ L!FreshStarts \in SUBSET Nat
    BY <2>1 DEF L!handleEvent, L!FreshStarts, L!Starts
  <2>3. L!Min(L!FreshStarts) \in L!FreshStarts
    BY <2>2, RuleLeast
  <2>4. L!recordRestart(c, L!Min(L!FreshStarts))
    BY <2>1 DEF L!handleEvent
  <2> QED
    BY <2>3, <2>4, LoopRecords
<1>2. PICK listed \in {{}, L!Concerned(c, a)} :
        lThread' = [lThread EXCEPT ![t] =
          [L!Idle EXCEPT !.pc = "rules", !.cont = c, !.action = a, !.todo = listed]]
  BY DEF L!handleEvent
<1> DEFINE x == [L!Idle EXCEPT !.pc = "rules", !.cont = c, !.action = a, !.todo = listed]
<1>3. listed \subseteq {1, 2}
  BY DEF L!Concerned, LoopTypes, L!TypeOK
<1>4. x \in LoopThread /\ x.pc = "rules" /\ x.cont = c
  BY <1>3, LoopIdle DEF L!Idle, LoopThread
<1>5. lThread' = [lThread EXCEPT ![t] = x]
  BY <1>2
<1> HIDE DEF x
<1>6. LoopStands(x)
  BY <1>4 DEF LoopStands
<1>7. /\ lThread' \in [L!Threads -> LoopThread]
      /\ lThread'[t] = x /\ \A u \in L!Threads \ {t} : lThread'[u] = lThread[u]
      /\ \A u \in L!Threads : LoopStands(lThread'[u])
  BY <1>0, <1>4, <1>5, <1>6, LoopMoves
<1>8. UNCHANGED <<lEnabled, lSilenced, lCooldowns, lTold>>
  BY DEF L!handleEvent
<1>9. LoopTypes'
  BY <1>1, <1>7, <1>8 DEF LoopTypes, L!TypeOK, LoopThread
<1>10. LoopExact
  BY <1>4, <1>7, LoopNoCount
<1> QED
  BY <1>1, <1>9, <1>10 DEF LoopGood

LEMMA LoopForgets ==
    ASSUME LoopTypes, LoopKept, NEW c \in Both, NEW r \in {1, 2},
           lStarts' = [lStarts EXCEPT ![c] = L!Within(c, LoopRules[r].window)],
           UNCHANGED <<lStarted, lAge>>
    PROVE  /\ lStarts' \in [Both -> SUBSET L!Starts]
           /\ \A d \in Both, s \in L!Starts : s \in lStarts'[d] => lStarted'[s] = d
           /\ LoopKept'
<1>0. /\ lAge \in [L!Starts -> 0..3] /\ lStarts \in [Both -> SUBSET L!Starts]
      /\ \A d \in Both, s \in L!Starts : s \in lStarts[d] => lStarted[s] = d
  BY DEF LoopTypes, L!TypeOK
<1>1. /\ lStarts' \in [Both -> SUBSET L!Starts]
      /\ lStarts'[c] = {s \in lStarts[c] : lAge[s] < LoopRules[r].window}
      /\ \A d \in Both \ {c} : lStarts'[d] = lStarts[d]
  BY <1>0 DEF L!Within
<1>2. \A d \in Both, s \in L!Starts : s \in lStarts'[d] => lStarted'[s] = d
  BY <1>0, <1>1
<1>3. LoopKept'
  <2> SUFFICES ASSUME NEW d \in Both, NEW s \in L!Starts, lStarted[s] = d, lAge[s] < 2
               PROVE  s \in lStarts'[d]
    BY DEF LoopKept, L!Truly
  <2>1. s \in lStarts[d]
    BY DEF LoopKept, L!Truly
  <2>2. lAge[s] < LoopRules[r].window
    BY <1>0, LoopRuleFits
  <2> QED
    BY <2>1, <2>2, <1>1
<1> QED
  BY <1>1, <1>2, <1>3

LEMMA LoopCounted ==
    ASSUME LoopTypes, LoopKept, NEW c \in Both, NEW r \in {1, 2}
    PROVE  /\ Cardinality(L!Within(c, LoopRules[r].window)) \in 0..2
           /\ Cardinality(L!Within(c, LoopRules[r].window)) <= Cardinality(L!Truly(c, LoopRules[r].window))
           /\ LoopRules[r].window <= 2
                => L!Within(c, LoopRules[r].window) = L!Truly(c, LoopRules[r].window)
<1> DEFINE w == LoopRules[r].window
<1>0. w \in {2, 3}
  BY LoopRuleFits
<1> HIDE DEF w
<1>1. /\ lStarts \in [Both -> SUBSET L!Starts]
      /\ \A s \in L!Starts : s \in lStarts[c] => lStarted[s] = c
  BY DEF LoopTypes, L!TypeOK
<1>2. L!Within(c, w) \subseteq L!Truly(c, w) /\ L!Truly(c, w) \subseteq 1..2
  BY <1>1 DEF L!Within, L!Truly, L!Starts
<1>3. /\ Cardinality(L!Within(c, w)) \in 0..2
      /\ Cardinality(L!Within(c, w)) <= Cardinality(L!Truly(c, w))
  BY <1>2, PartOfStarts
<1>4. ASSUME w <= 2 PROVE L!Within(c, w) = L!Truly(c, w)
  <2>1. w = 2
    BY <1>0, <1>4
  <2>2. L!Truly(c, 2) \subseteq lStarts[c]
    BY DEF LoopKept
  <2> QED
    BY <1>2, <2>1, <2>2 DEF L!Within, L!Truly
<1> QED
  BY <1>3, <1>4 DEF w

LEMMA LoopRuleKeeps ==
    ASSUME LoopTypes, LoopKept, NEW t \in L!Threads, L!NextRule(t)
    PROVE  LoopGood
<1> DEFINE th == lThread[t]
           r == L!Min(th.todo)
           w == LoopRules[r].window
           n == Cardinality(L!Within(th.cont, w))
<1>0. lThread \in [L!Threads -> LoopThread] /\ LoopStands(th) /\ th.pc = "rules" /\ th.todo # {}
  BY DEF LoopTypes, L!TypeOK, LoopThread, L!NextRule
<1>1. r \in {1, 2} /\ th.cont \in Both
  <2>1. th.todo \in SUBSET Nat /\ th.todo \subseteq {1, 2}
    BY <1>0 DEF LoopThread
  <2>2. r \in {1, 2}
    BY <1>0, <2>1, RuleLeast
  <2> QED
    BY <1>0, <2>2 DEF LoopStands
<1>2. UNCHANGED <<lEnabled, lSilenced, lStarted, lAge, lCooldowns, lTold>> /\ LoopRules[r].type = "restart"
  BY <1>1, LoopRuleFits DEF L!NextRule
<1>3. /\ n \in 0..2 /\ n <= Cardinality(L!Truly(th.cont, w))
      /\ w <= 2 => n = Cardinality(L!Truly(th.cont, w))
  BY <1>1, LoopCounted
<1> DEFINE x == [th EXCEPT !.pc = "counted", !.rule = r, !.todo = @ \ {r}, !.n = n]
<1>4. /\ lThread' = [lThread EXCEPT ![t] = x]
      /\ lStarts' = [lStarts EXCEPT ![th.cont] = L!Within(th.cont, w)]
  BY <1>0, <1>2, RuleSizes DEF L!NextRule
<1> HIDE DEF w, r
<1>5. /\ x \in LoopThread /\ x.pc = "counted" /\ x.rule = r /\ x.cont = th.cont /\ x.n = n
  <2> HIDE DEF n
  <2> QED
    BY <1>0, <1>1, <1>3 DEF LoopThread
<1> HIDE DEF x, n
<1>6. LoopStands(x)
  BY <1>1, <1>5 DEF LoopStands
<1>7. /\ lThread' \in [L!Threads -> LoopThread]
      /\ lThread'[t] = x /\ \A u \in L!Threads \ {t} : lThread'[u] = lThread[u]
      /\ \A u \in L!Threads : LoopStands(lThread'[u])
  BY <1>4, <1>5, <1>6, LoopMoves
<1>8. /\ lStarts' \in [Both -> SUBSET L!Starts]
      /\ \A d \in Both, s \in L!Starts : s \in lStarts'[d] => lStarted'[s] = d
      /\ LoopKept'
  BY <1>1, <1>2, <1>4, LoopForgets DEF w
<1>9. LoopTypes'
  BY <1>2, <1>7, <1>8 DEF LoopTypes, L!TypeOK, LoopThread
<1>10. LoopExact
  <2>1. \A u \in L!Threads : L!Counts(u) => u = t
    BY <1>7 DEF L!Counts
  <2>2. lThread'[t].rule = r /\ lThread'[t].n = n
    BY <1>5, <1>7
  <2>3. L!CountsNoMore
    BY <1>3, <2>1, <2>2, RuleSizes DEF L!CountsNoMore, w
  <2>4. L!ShortestCountsExactly
    BY <1>3, <2>1, <2>2, RuleSizes DEF L!ShortestCountsExactly, w
  <2> QED
    BY <2>3, <2>4 DEF LoopExact
<1> QED
  BY <1>8, <1>9, <1>10 DEF LoopGood

(* A step of a thread that leaves the clocks alone and counts nothing.       *)
LEMMA LoopOnlyMoves ==
    ASSUME LoopTypes, LoopKept, NEW t \in L!Threads, NEW x \in LoopThread, LoopStands(x),
           x.pc # "counted", lThread' = [lThread EXCEPT ![t] = x],
           UNCHANGED <<lEnabled, lSilenced, L!clocks>>,
           lCooldowns' \in [L!Keys -> L!Ages], lTold' \in [L!Keys -> L!Ages]
    PROVE  LoopGood
<1>1. /\ lThread' \in [L!Threads -> LoopThread]
      /\ lThread'[t] = x /\ \A u \in L!Threads \ {t} : lThread'[u] = lThread[u]
      /\ \A u \in L!Threads : LoopStands(lThread'[u])
  BY LoopMoves
<1>2. UNCHANGED <<lStarted, lAge, lStarts>>
  BY DEF L!clocks
<1>3. LoopTypes'
  BY <1>1, <1>2 DEF LoopTypes, L!TypeOK, LoopThread
<1>4. LoopKept'
  BY <1>2 DEF LoopKept, L!Truly
<1>5. LoopExact
  BY <1>1, LoopNoCount
<1> QED
  BY <1>3, <1>4, <1>5 DEF LoopGood

LEMMA LoopMovesKeep ==
    ASSUME LoopTypes, LoopKept, NEW t \in L!Threads,
           L!Decide(t) \/ L!EventDone(t) \/ L!FireCheck(t) \/ L!FireEmit(t) \/ L!FireStore(t)
    PROVE  LoopGood
<1>0. /\ lThread \in [L!Threads -> LoopThread] /\ lThread[t] \in LoopThread /\ LoopStands(lThread[t])
      /\ lCooldowns \in [L!Keys -> L!Ages] /\ lTold \in [L!Keys -> L!Ages]
  BY DEF LoopTypes, L!TypeOK, LoopThread
<1>1. lThread[t].pc \in {"fire", "emit", "store"} => L!Key(t) \in L!Keys
  BY <1>0 DEF LoopStands, L!Key, L!Keys
<1>2. /\ UNCHANGED <<lEnabled, lSilenced, L!clocks>>
      /\ lCooldowns' \in [L!Keys -> L!Ages] /\ lTold' \in [L!Keys -> L!Ages]
  BY <1>0, <1>1 DEF L!Decide, L!EventDone, L!FireCheck, L!FireEmit, L!FireStore, L!Ages
<1> DEFINE At(pc) == [lThread[t] EXCEPT !.pc = pc]
           Told(pc) == [lThread[t] EXCEPT !.n = 0, !.pc = pc]
           Back == [lThread[t] EXCEPT !.pc = "rules", !.rule = L!NoRule]
<1>3. \/ /\ lThread[t].pc = "counted"
         /\ \E pc \in {"fire", "rules"} : lThread' = [lThread EXCEPT ![t] = Told(pc)]
      \/ lThread' = [lThread EXCEPT ![t] = L!Idle]
      \/ /\ lThread[t].pc \in {"fire", "emit"}
         /\ \E pc \in {"emit", "store"} : lThread' = [lThread EXCEPT ![t] = At(pc)]
      \/ lThread[t].pc \in {"fire", "emit", "store"} /\ lThread' = [lThread EXCEPT ![t] = Back]
  BY <1>0 DEF L!Decide, L!EventDone, L!FireCheck, L!FireEmit, L!FireStore, L!Return
<1>4. ASSUME NEW pc \in {"fire", "rules"}, lThread[t].pc = "counted"
      PROVE  Told(pc) \in LoopThread /\ LoopStands(Told(pc)) /\ Told(pc).pc # "counted"
  <2>0. 0 \in 0..2
    OBVIOUS
  <2>1. Told(pc) \in LoopThread /\ Told(pc).pc = pc
    BY <1>0, <2>0 DEF LoopThread
  <2>2. Told(pc).cont = lThread[t].cont /\ Told(pc).rule = lThread[t].rule
    BY <1>0 DEF LoopThread
  <2> QED
    BY <1>0, <1>4, <2>1, <2>2 DEF LoopStands
<1>5. ASSUME NEW pc \in {"emit", "store"}, lThread[t].pc \in {"fire", "emit"}
      PROVE  At(pc) \in LoopThread /\ LoopStands(At(pc)) /\ At(pc).pc # "counted"
  <2>1. At(pc) \in LoopThread /\ At(pc).pc = pc
    BY <1>0 DEF LoopThread
  <2>2. At(pc).cont = lThread[t].cont /\ At(pc).rule = lThread[t].rule
    BY <1>0 DEF LoopThread
  <2> QED
    BY <1>0, <1>5, <2>1, <2>2 DEF LoopStands
<1>6. ASSUME lThread[t].pc \in {"fire", "emit", "store"}
      PROVE  Back \in LoopThread /\ LoopStands(Back) /\ Back.pc # "counted"
  <2>1. Back \in LoopThread /\ Back.pc = "rules" /\ Back.cont = lThread[t].cont
    BY <1>0 DEF LoopThread
  <2> QED
    BY <1>0, <1>6, <2>1 DEF LoopStands
<1>7. L!Idle.pc = "idle"
  BY DEF L!Idle
<1> HIDE DEF At, Told, Back
<1> QED
  BY <1>2, <1>3, <1>4, <1>5, <1>6, <1>7, LoopIdle, LoopOnlyMoves

LEMMA LoopTickKeeps ==
    ASSUME LoopTypes, LoopKept, L!Tick
    PROVE  LoopGood
<1>0. UNCHANGED <<lEnabled, lSilenced, lStarted, lStarts, lThread>>
  BY DEF L!Tick
<1>1. /\ lCooldowns \in [L!Keys -> L!Ages] /\ lTold \in [L!Keys -> L!Ages]
      /\ lAge \in [L!Starts -> 0..3]
  BY DEF LoopTypes, L!TypeOK
<1>2. \A a \in L!Ages : L!Older(a) \in L!Ages
  BY DEF L!Ages, L!Never, L!Older
<1>3. lCooldowns' \in [L!Keys -> L!Ages] /\ lTold' \in [L!Keys -> L!Ages]
  BY <1>1, <1>2 DEF L!Tick
<1>4. \A e \in L!Starts : L!Older(lAge[e]) \in 0..3 /\ lAge[e] <= L!Older(lAge[e])
  BY <1>1 DEF L!Older, L!Never
<1>5. /\ lAge' \in [L!Starts -> 0..3]
      /\ \A e \in L!Starts : lStarted[e] # L!NoContainer => lAge[e] <= lAge'[e]
  BY <1>4 DEF L!Tick
<1>6. LoopTypes'
  BY <1>0, <1>3, <1>5 DEF LoopTypes, L!TypeOK, LoopThread
<1>7. LoopKept'
  <2> SUFFICES ASSUME NEW c \in Both, NEW s \in L!Starts, lStarted[s] = c, lAge'[s] < 2
               PROVE  s \in lStarts[c]
    BY <1>0 DEF LoopKept, L!Truly
  <2>1. lAge[s] < 2
    BY <1>1, <1>5, LoopsAssumption DEF L!NoContainer
  <2> QED
    BY <2>1 DEF LoopKept, L!Truly
<1>8. LoopExact
  BY <1>0, LoopNoCount
<1> QED
  BY <1>6, <1>7, <1>8 DEF LoopGood

LEMMA LoopStep == LoopTypes /\ LoopKept /\ [L!Next]_lvars => LoopGood
<1> SUFFICES ASSUME LoopTypes, LoopKept, [L!Next]_lvars PROVE LoopGood
  OBVIOUS
<1>1. CASE \E t \in {"w"}, c \in Both, a \in {"start"} : L!handleEvent(t, c, a)
  BY <1>1, LoopEventKeeps
<1>2. ASSUME NEW t \in L!Threads, L!ThreadStep(t) PROVE LoopGood
  BY <1>2, LoopRuleKeeps, LoopMovesKeep DEF L!ThreadStep
<1>3. CASE L!Tick
  BY <1>3, LoopTickKeeps
<1>4. CASE \/ \E r \in {1, 2} : L!ToggleRule(r)
           \/ \E k \in L!Keys : L!WindowChanges(k)
           \/ UNCHANGED lvars
  <2>1. /\ UNCHANGED <<lStarted, lAge, lStarts, lCooldowns, lThread, lTold>>
        /\ lEnabled' \subseteq {1, 2} /\ lSilenced' \subseteq L!Keys
    BY <1>4 DEF LoopTypes, L!TypeOK, L!ToggleRule, L!WindowChanges, L!clocks, lvars
  <2>2. LoopTypes' /\ LoopKept'
    BY <2>1 DEF LoopTypes, L!TypeOK, LoopKept, L!Truly
  <2>3. LoopExact
    BY <2>1, LoopNoCount
  <2> QED
    BY <2>2, <2>3 DEF LoopGood
<1> QED
  BY <1>1, <1>2, <1>3, <1>4 DEF L!Next

-----------------------------------------------------------------------------
(* The specification of the run runs one part at a time.                     *)
LEMMA RulesRunParts == MCSpec => /\ E!Init /\ [][E!Next]_evars
                                 /\ L!Init /\ [][L!Next]_lvars
<1>1. MCInit => E!Init /\ L!Init
  BY DEF MCInit
<1>2. [MCNext]_<<part, windowVars, evars, lvars>> => [E!Next]_evars /\ [L!Next]_lvars
  BY DEF MCNext
<1> QED
  BY <1>1, <1>2, PTL DEF MCSpec

(***************************************************************************)
(* fire drops an event only when somebody was told within the cooldown,    *)
(* however windows open and close between its test, its emit and its       *)
(* store, and two deliveries of a state or restart rule for a container    *)
(* are a cooldown apart: for any containers, rules and threads.            *)
(***************************************************************************)
THEOREM CooldownsKept == MCSpec => CooldownHolds
<1>1. EdgeGood => EdgeInv' /\ E!DropsOnlyTold /\ E!EventsKeepCooldown
  BY DEF EdgeGood, EdgeCalm
<1>2. E!Init => EdgeInv
  BY EdgeInit, EdgeCoolInit DEF EdgeInv
<1> QED
  BY <1>1, <1>2, EdgeStep, RulesRunParts, PTL DEF CooldownHolds

(***************************************************************************)
(* restartCount and recordRestart prune one list for all rules: no rule    *)
(* counts a start that did not happen in its window, and the rule with the *)
(* shortest window counts each of them, unless the retention is shorter.   *)
(***************************************************************************)
THEOREM StartsAreCounted == MCSpec => RestartsCounted
<1>1. /\ EdgeGood => EdgeInv' /\ E!CountsNoMore /\ E!ShortestCountsExactly
      /\ EdgeInv => E!TypeOK
  BY DEF EdgeGood, EdgeExact, EdgeInv, EdgeTypes
<1>2. E!Init => EdgeInv
  BY EdgeInit, EdgeCoolInit DEF EdgeInv
<1>3. /\ LoopGood => (LoopTypes /\ LoopKept)' /\ L!CountsNoMore /\ L!ShortestCountsExactly
      /\ LoopTypes => L!TypeOK
  BY DEF LoopGood, LoopExact, LoopTypes
<1>4. L!Init => LoopTypes /\ LoopKept
  BY LoopInit
<1>5. E!TypeOK /\ L!TypeOK => (part = "edges" => E!TypeOK) /\ (part = "loops" => L!TypeOK)
  OBVIOUS
<1> QED
  BY <1>1, <1>2, <1>3, <1>4, <1>5, EdgeStep, LoopStep, RulesRunParts, PTL DEF RestartsCounted

=============================================================================
