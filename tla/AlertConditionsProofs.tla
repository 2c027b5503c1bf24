----------------------- MODULE AlertConditionsProofs -----------------------
(***************************************************************************)
(* Proofs about AlertConditions, for every set of hosts, containers, rules *)
(* and windows.                                                            *)
(***************************************************************************)
EXTENDS AlertConditions, TLAPS

(* Where a poll stands: the winners' loop visits winners, the sweep visits  *)
(* rows that are still there.  A condition without a row has no notify time.*)
PollShape ==
    /\ \A k \in Conditions \ rows : notified[k] = Never
    /\ phase = "announce" => todo \subseteq DOMAIN winners
    /\ phase = "resolve" => todo \subseteq rows

IndInv == TypeOK /\ PollShape /\ GateHonest /\ FeedMatchesRows

USE TopologyAssumption, LevelsAssumption, RuleIdsAssumption, ConfigsAssumption,
    SavedRulesAssumption, ScopesAssumption, AgeCapAssumption, BoundsAssumption

(* Ages stay ages, never run backwards, and keep their order when both age. *)
LEMMA AgeFacts ==
    /\ \A a \in {Never} \cup 0..AgeCap : Age(a) \in {Never} \cup 0..AgeCap
    /\ \A a \in 0..AgeCap : Age(a) \in 0..AgeCap
    /\ \A a \in {Never} \cup 0..AgeCap : Age(a) = Never <=> a = Never
    /\ \A a, b \in 0..AgeCap : a <= b => Age(a) <= Age(b)
  BY DEF Age, Never

LEMMA ZeroIsAReading == ZeroReading \in Readings /\ Down \in Seen
  BY DEF ZeroReading, Readings, Down, Seen, Gauges

(* The initial state satisfies the inductive invariant.                     *)
LEMMA InitInv == Init => IndInv
<1> SUFFICES ASSUME Init PROVE IndInv
  OBVIOUS
<1>1. TypeOK
  BY ZeroIsAReading DEF Init, TypeOK, Nothing, Severities, Info, Never
<1>2. PollShape /\ GateHonest /\ FeedMatchesRows
  BY DEF Init, PollShape, GateHonest, FeedMatchesRows
<1> QED
  BY <1>1, <1>2 DEF IndInv

(* What the environment does keeps the invariant: it touches no row and no  *)
(* observer of a row.                                                       *)
LEMMA EnvironmentInv == IndInv /\ Environment => IndInv'
<1> SUFFICES ASSUME IndInv, Environment PROVE IndInv'
  OBVIOUS
<1> USE DEF IndInv
<1>1. ASSUME NEW c \in Containers, NEW s \in Seen, WorldChanges(c, s)
      PROVE  IndInv'
  BY <1>1 DEF WorldChanges, TypeOK, PollShape, GateHonest, FeedMatchesRows,
       rowVars, pollVars, ghosts, seenNow
<1>2. ASSUME NEW h \in Hosts, HostChanges(h)
      PROVE  IndInv'
  BY <1>2 DEF HostChanges, TypeOK, PollShape, GateHonest, FeedMatchesRows,
       rowVars, pollVars, ghosts, seenNow
<1>3. ASSUME NEW w \in Scopes, WindowChanges(w)
      PROVE  IndInv'
  BY <1>3 DEF WindowChanges, TypeOK, PollShape, GateHonest, FeedMatchesRows,
       rowVars, pollVars, ghosts, seenNow
<1>4. ASSUME NEW r \in RuleIds, NEW g \in Configs, SaveRule(r, g)
      PROVE  IndInv'
  BY <1>4 DEF SaveRule, TypeOK, PollShape, GateHonest, FeedMatchesRows,
       rowVars, pollVars, ghosts, seenNow
<1>5. ASSUME NEW r \in RuleIds, DropRule(r)
      PROVE  IndInv'
  BY <1>5 DEF DropRule, TypeOK, PollShape, GateHonest, FeedMatchesRows,
       rowVars, pollVars, ghosts, seenNow
<1> QED
  BY <1>1, <1>2, <1>3, <1>4, <1>5 DEF Environment

(* The clock ages the gate and the last delivery alike.                     *)
LEMMA TickInv == IndInv /\ Tick => IndInv'
<1> SUFFICES ASSUME IndInv, Tick PROVE IndInv'
  OBVIOUS
<1> USE DEF IndInv
<1>1. TypeOK'
  BY AgeFacts DEF Tick, TypeOK, rowVars, seenNow
<1>2. PollShape'
  BY AgeFacts DEF Tick, PollShape, TypeOK
<1>3. GateHonest'
  <2> SUFFICES ASSUME NEW k \in Conditions \ unsaved
               PROVE  /\ k \in told' <=> k \in rows' /\ notified'[k] # Never
                      /\ k \in told' => notified'[k] <= quiet'[k]
    BY DEF GateHonest, Tick
  <2>1. notified'[k] = Age(notified[k]) /\ quiet'[k] = Age(quiet[k])
    BY DEF Tick
  <2>2. notified[k] \in {Never} \cup 0..AgeCap /\ quiet[k] \in 0..AgeCap
    BY DEF TypeOK
  <2>3. k \in told' <=> k \in rows' /\ notified'[k] # Never
    BY <2>1, <2>2, AgeFacts DEF GateHonest, Tick
  <2>4. k \in told' => notified'[k] <= quiet'[k]
    BY <2>1, <2>2, AgeFacts DEF GateHonest, Tick
  <2> QED
    BY <2>3, <2>4
<1>4. FeedMatchesRows'
  BY DEF Tick, FeedMatchesRows
<1> QED
  BY <1>1, <1>2, <1>3, <1>4

(* Starting a poll only computes: no row, no observer of a row changes.     *)
LEMMA PollInv == IndInv /\ Poll => IndInv'
<1> SUFFICES ASSUME IndInv, Poll PROVE IndInv'
  OBVIOUS
<1> USE DEF IndInv
<1>1. \A r \in RuleIds, c \in Containers :
         OverSince(r, c) \in {Never} \cup 0..AgeCap
  BY DEF OverSince, TypeOK
<1>2. overSince' \in [RuleIds \X Containers -> {Never} \cup 0..AgeCap]
  BY <1>1 DEF Poll
<1>3. Won \subseteq Conditions
  BY DEF Won
<1>4. \A k \in Won : Winner(k) \in DOMAIN rules
  BY DEF Won, Winner
<1>5. \A k \in Won : winners'[k] \in Candidate
  BY <1>4 DEF Poll, Candidate, TypeOK
<1>6. DOMAIN winners' = Won
  BY DEF Poll
<1>7. TypeOK'
  BY <1>2, <1>3, <1>5, <1>6 DEF Poll, TypeOK, rowVars, ghosts
<1>8. PollShape'
  BY <1>6 DEF Poll, PollShape, rowVars
<1>9. GateHonest' /\ FeedMatchesRows'
  BY DEF Poll, GateHonest, FeedMatchesRows, rowVars, ghosts
<1> QED
  BY <1>7, <1>8, <1>9

(* The winner of a condition, as the announce loop uses it.                 *)
LEMMA WinnerTyped ==
    ASSUME TypeOK, NEW k \in DOMAIN winners
    PROVE  /\ k \in Conditions
           /\ winners[k].rule \in RuleIds
           /\ winners[k].cfg.severity \in Severities
           /\ winners[k].cfg.cooldown \in Nat
<1>1. winners[k] \in Candidate
  BY DEF TypeOK
<1>2. winners[k].cfg \in Config
  BY <1>1 DEF Candidate
<1> QED
  BY <1>1, <1>2 DEF TypeOK, Candidate, Config

(* What the emit of a winner does to the observers.                         *)
LEMMA EmitWinnerEffect ==
    ASSUME NEW k, EmitWinner(k)
    PROVE  /\ last'.key = k /\ last'.kind = KindEmitted(k)
           /\ last'.silenced = SpeakerSilenced(k)
           /\ SpeakerSilenced(k) => told' = told /\ quiet' = quiet
           /\ ~SpeakerSilenced(k) => told' = told \cup {k}
                                     /\ quiet' = [quiet EXCEPT ![k] = 0]
           /\ ~(SpeakerSilenced(k) /\ KindEmitted(k) = "repeat")
                 => feedOpen' = feedOpen \cup {k}
           /\ SpeakerSilenced(k) /\ KindEmitted(k) = "repeat"
                 => feedOpen' = feedOpen
  BY DEF EmitWinner, Emitted

(* The kinds: a repeat has a row that carries a notify time, and what is    *)
(* owed has a row that carries none.                                        *)
LEMMA KindFacts ==
    ASSUME NEW k
    PROVE  /\ KindEmitted(k) = "repeat"
                 => k \in rows /\ notified[k] # Never
                    /\ notified[k] >= winners[k].cfg.cooldown
           /\ KindEmitted(k) = "firing"
                 => k \notin rows \/ notified[k] = Never
           /\ KindFor(k) # "quiet" => KindEmitted(k) # "quiet"
  BY DEF KindEmitted, KindFor, MayRepeat

(* A winner whose row is only refreshed, or that is found not silenced.     *)
LEMMA QuietInv ==
    ASSUME IndInv, NEW k \in Conditions, StayQuiet(k) \/ NotSilencedNow(k)
    PROVE  IndInv'
<1> USE DEF IndInv
<1>1. CASE NotSilencedNow(k)
  BY <1>1 DEF NotSilencedNow, TypeOK, PollShape, GateHonest, FeedMatchesRows,
       Outside, Memory, seenNow, ghosts, rowVars
<1>2. CASE StayQuiet(k)
  <2>1. k \in DOMAIN winners /\ k \in rows
    BY <1>2 DEF StayQuiet, PollShape, KindFor
  <2>2. TypeOK'
    BY <1>2, <2>1, WinnerTyped DEF StayQuiet, saveState, Visited, TypeOK,
         Outside, Memory, seenNow, ghosts
  <2>3. notified' = notified /\ rows' = rows
    BY <1>2, <2>1 DEF StayQuiet, saveState, TypeOK
  <2>4. PollShape' /\ GateHonest' /\ FeedMatchesRows'
    BY <1>2, <2>3 DEF StayQuiet, Visited, PollShape, GateHonest,
         FeedMatchesRows, ghosts
  <2> QED
    BY <2>2, <2>4
<1> QED
  BY <1>1, <1>2

(* An announcement: delivered, it opens the gate's clock and the delivery   *)
(* clock together; suppressed, it changes neither, except that a suppressed *)
(* repeat moves the gate's clock forward, which keeps it the younger one.   *)
LEMMA AnnounceInv ==
    ASSUME IndInv, NEW k \in Conditions, Announce(k)
    PROVE  IndInv'
<1> USE DEF IndInv
<1>1. k \in DOMAIN winners /\ EmitWinner(k)
  BY DEF Announce, Announcing, PollShape
<1>2. NotifiedAfter(k) \in {Never} \cup 0..AgeCap
  BY DEF NotifiedAfter, TypeOK
<1>3. /\ rows' = rows \cup {k}
      /\ notified' = [notified EXCEPT ![k] = NotifiedAfter(k)]
      /\ unsaved' = IF SpeakerSilenced(k) THEN unsaved ELSE unsaved \ {k}
  BY DEF Announce, saveState
<1>4. TypeOK'
  BY <1>1, <1>2, WinnerTyped, EmitWinnerEffect DEF Announce, saveState, Visited,
       TypeOK, Outside, Memory, seenNow
<1>5. PollShape'
  BY <1>3 DEF Announce, Announcing, Visited, PollShape, TypeOK
<1>6. GateHonest'
  <2> SUFFICES ASSUME NEW j \in Conditions \ unsaved'
               PROVE  /\ j \in told' <=> j \in rows' /\ notified'[j] # Never
                      /\ j \in told' => notified'[j] <= quiet'[j]
    BY DEF GateHonest
  <2>1. CASE j # k
    BY <1>1, <1>3, <2>1, EmitWinnerEffect DEF GateHonest, TypeOK
  <2>2. CASE j = k /\ ~SpeakerSilenced(k)
    BY <1>1, <1>3, <2>2, EmitWinnerEffect DEF NotifiedAfter, TypeOK, Never
  <2>3. CASE j = k /\ SpeakerSilenced(k)
    <3>1. j \notin unsaved /\ told' = told /\ quiet' = quiet
      BY <1>1, <1>3, <2>3, EmitWinnerEffect
    <3>2. notified'[k] = NotifiedAfter(k) /\ quiet[k] \in 0..AgeCap
      BY <1>3 DEF TypeOK
    <3>3. CASE KindEmitted(k) = "repeat"
      BY <1>3, <2>3, <3>1, <3>2, <3>3, KindFacts DEF NotifiedAfter, GateHonest, Never
    <3>4. CASE KindEmitted(k) # "repeat" /\ k \in rows
      BY <1>3, <2>3, <3>1, <3>2, <3>4 DEF NotifiedAfter, GateHonest
    <3>5. CASE k \notin rows
      BY <1>3, <2>3, <3>1, <3>2, <3>5, KindFacts DEF NotifiedAfter, GateHonest,
           PollShape
    <3> QED
      BY <3>3, <3>4, <3>5
  <2> QED
    BY <2>1, <2>2, <2>3
<1>7. FeedMatchesRows'
  <2> SUFFICES ASSUME NEW j \in Conditions \ unsaved'
               PROVE  j \in rows' <=> j \in feedOpen'
    BY DEF FeedMatchesRows
  <2>1. CASE j # k
    BY <1>1, <1>3, <2>1, EmitWinnerEffect DEF FeedMatchesRows
  <2>2. CASE j = k
    BY <1>1, <1>3, <2>2, EmitWinnerEffect, KindFacts DEF FeedMatchesRows
  <2> QED
    BY <2>1, <2>2
<1> QED
  BY <1>4, <1>5, <1>6, <1>7

(* The sweep: a resolution takes the row, the telling and the feed entry    *)
(* away together.                                                           *)
LEMMA SweepInv ==
    ASSUME IndInv,
           StartSweep \/ EndPoll \/ \E k \in Conditions : SkipBlind(k) \/ Resolve(k)
    PROVE  IndInv'
<1> USE DEF IndInv
<1>1. CASE StartSweep
  BY <1>1 DEF StartSweep, TypeOK, PollShape, GateHonest, FeedMatchesRows,
       Outside, Memory, seenNow, ghosts, rowVars
<1>2. CASE EndPoll
  BY <1>2 DEF EndPoll, TypeOK, PollShape, GateHonest, FeedMatchesRows,
       Outside, Memory, ghosts, rowVars, Nothing
<1>3. ASSUME NEW k \in Conditions, SkipBlind(k)
      PROVE  IndInv'
  BY <1>3 DEF SkipBlind, Visited, TypeOK, PollShape, GateHonest,
       FeedMatchesRows, Outside, Memory, seenNow, ghosts, rowVars
<1>4. ASSUME NEW k \in Conditions, Resolve(k)
      PROVE  IndInv'
  <2>1. TypeOK'
    BY <1>4 DEF Resolve, EmitResolved, Visited, TypeOK, Outside, Memory,
         seenNow, Severities, Info
  <2>2. PollShape'
    BY <1>4 DEF Resolve, Visited, PollShape, TypeOK
  <2>3. GateHonest'
    BY <1>4 DEF Resolve, EmitResolved, GateHonest, TypeOK
  <2>4. FeedMatchesRows'
    BY <1>4 DEF Resolve, EmitResolved, FeedMatchesRows
  <2> QED
    BY <2>1, <2>2, <2>3, <2>4
<1> QED
  BY <1>1, <1>2, <1>3, <1>4

(* A restart forgets the poll; a crash between an event and its row marks   *)
(* the condition unsaved, which is what the invariant exempts.              *)
LEMMA CrashInv ==
    ASSUME IndInv, Crashes
    PROVE  IndInv'
<1> USE DEF IndInv
<1>1. CASE Restart
  BY <1>1 DEF Restart, LoseMemory, TypeOK, PollShape, GateHonest,
       FeedMatchesRows, Outside, ghosts, rowVars, Nothing, Never
<1>2. ASSUME NEW k \in Conditions, CrashBeforeSave(k)
      PROVE  IndInv'
  <2>1. EmitWinner(k) /\ LoseMemory /\ unsaved' = unsaved \cup {k}
    BY <1>2 DEF CrashBeforeSave
  <2>2. TypeOK'
    <3>1. told' \subseteq Conditions /\ feedOpen' \subseteq Conditions
          /\ quiet' \in [Conditions -> 0..AgeCap]
      BY <2>1, EmitWinnerEffect DEF TypeOK
    <3> QED
      BY <1>2, <2>1, <3>1 DEF CrashBeforeSave, LoseMemory, TypeOK, Outside,
           rowVars, Nothing, Never
  <2>3. PollShape'
    BY <1>2, <2>1 DEF CrashBeforeSave, LoseMemory, PollShape, rowVars
  <2>4. GateHonest'
    BY <1>2, <2>1, EmitWinnerEffect DEF CrashBeforeSave, GateHonest, TypeOK, rowVars
  <2>5. FeedMatchesRows'
    BY <1>2, <2>1, EmitWinnerEffect DEF CrashBeforeSave, FeedMatchesRows, rowVars
  <2> QED
    BY <2>2, <2>3, <2>4, <2>5
<1>3. ASSUME NEW k \in Conditions, CrashBeforeDelete(k)
      PROVE  IndInv'
  <2>1. TypeOK'
    BY <1>3 DEF CrashBeforeDelete, EmitResolved, LoseMemory, TypeOK, Outside,
         rowVars, Nothing, Never
  <2>2. PollShape' /\ GateHonest' /\ FeedMatchesRows'
    BY <1>3 DEF CrashBeforeDelete, EmitResolved, LoseMemory, PollShape,
         GateHonest, FeedMatchesRows, TypeOK, rowVars
  <2> QED
    BY <2>1, <2>2
<1> QED
  BY <1>1, <1>2, <1>3 DEF Crashes

LEMMA NextInv == IndInv /\ [Next]_vars => IndInv'
<1> SUFFICES ASSUME IndInv, [Next]_vars PROVE IndInv'
  OBVIOUS
<1>1. CASE Environment
  BY <1>1, EnvironmentInv
<1>2. CASE Tick
  BY <1>2, TickInv
<1>3. CASE StatsLoop
  BY <1>3, PollInv, QuietInv, AnnounceInv, SweepInv DEF StatsLoop
<1>4. CASE Crashes
  BY <1>4, CrashInv
<1>5. CASE UNCHANGED vars
  BY <1>5 DEF vars, IndInv, TypeOK, PollShape, GateHonest, FeedMatchesRows,
       rowVars, pollVars, ghosts, seenNow
<1> QED
  BY <1>1, <1>2, <1>3, <1>4, <1>5 DEF Next

(* evalResourceRules keeps its types, its notify gate honest and its rows   *)
(* in step with the feed, in every reachable state.                         *)
THEOREM Invariance == Spec => []IndInv
  BY InitInv, NextInv, PTL DEF Spec

(* Every variable of the alert engine stays within its type.                *)
THEOREM TypeCorrect == Spec => []TypeOK
  BY Invariance, PTL DEF IndInv

(* The notify time saved in alert_states is set exactly for the incidents   *)
(* somebody was told of, and is never older than the last delivery.         *)
THEOREM GateIsHonest == Spec => []GateHonest
  BY Invariance, PTL DEF IndInv

(* alert_states has a row exactly for the conditions the feed shows open.   *)
THEOREM FeedMatches == Spec => []FeedMatchesRows
  BY Invariance, PTL DEF IndInv

(* Only an announcement or a resolution records an event.                   *)
LEMMA WhoEmits ==
    ASSUME [Next]_vars, last'.kind \in {"firing", "repeat"}, UNCHANGED vars => FALSE
    PROVE  \E k \in Conditions : Announcing(k) /\ EmitWinner(k)
<1> SUFFICES ASSUME last' # NoEvent,
                    ~\E k \in Conditions : EmitResolved(k)
             PROVE  \E k \in Conditions : Announcing(k) /\ EmitWinner(k)
  BY DEF NoEvent, EmitResolved, Emitted
<1>1. ~Environment
  BY DEF Environment, WorldChanges, HostChanges, WindowChanges, SaveRule, DropRule
<1>2. ~Tick /\ ~Poll /\ ~StartSweep /\ ~EndPoll /\ ~Restart
  BY DEF Tick, Poll, StartSweep, EndPoll, Restart
<1>3. \A k \in Conditions : ~StayQuiet(k) /\ ~NotSilencedNow(k) /\ ~SkipBlind(k)
                            /\ ~Resolve(k) /\ ~CrashBeforeDelete(k)
  BY DEF StayQuiet, NotSilencedNow, SkipBlind, Resolve, CrashBeforeDelete
<1> QED
  BY <1>1, <1>2, <1>3 DEF Next, StatsLoop, Crashes, Announce, CrashBeforeSave

(* A delivered firing is the first delivery of its incident.                *)
THEOREM FiringOnce == Spec => FiringDeliveredOnce
<1>1. IndInv /\ [Next]_vars =>
        [last'.kind = "firing" => (last'.silenced \/ last'.key \notin told
                                   \/ last'.key \in unsaved)]_vars
  <2> SUFFICES ASSUME IndInv, [Next]_vars, UNCHANGED vars => FALSE,
                      last'.kind = "firing", last'.key \notin unsaved
               PROVE  last'.silenced \/ last'.key \notin told
    OBVIOUS
  <2>1. PICK k \in Conditions : Announcing(k) /\ EmitWinner(k)
    BY WhoEmits
  <2>2. last'.key = k /\ KindEmitted(k) = "firing"
    BY <2>1, EmitWinnerEffect
  <2>3. k \notin rows \/ notified[k] = Never
    BY <2>2, KindFacts
  <2> QED
    BY <2>2, <2>3 DEF IndInv, GateHonest
<1> QED
  BY <1>1, Invariance, PTL DEF Spec, FiringDeliveredOnce

(* A delivered repeat keeps the cooldown since the last delivery.           *)
THEOREM RepeatWaits == Spec => RepeatWaitsItsTurn
<1>1. IndInv /\ [Next]_vars =>
        [last'.kind = "repeat" /\ ~last'.silenced /\ last'.key \notin unsaved
           => /\ last'.key \in told
              /\ quiet[last'.key] >= winners[last'.key].cfg.cooldown]_vars
  <2> SUFFICES ASSUME IndInv, [Next]_vars, UNCHANGED vars => FALSE,
                      last'.kind = "repeat", last'.key \notin unsaved
               PROVE  /\ last'.key \in told
                      /\ quiet[last'.key] >= winners[last'.key].cfg.cooldown
    OBVIOUS
  <2>1. PICK k \in Conditions : Announcing(k) /\ EmitWinner(k)
    BY WhoEmits
  <2>2. last'.key = k /\ KindEmitted(k) = "repeat"
    BY <2>1, EmitWinnerEffect
  <2>3. k \in rows /\ notified[k] # Never /\ notified[k] >= winners[k].cfg.cooldown
    BY <2>2, KindFacts
  <2>4. k \in told /\ notified[k] <= quiet[k]
    BY <2>2, <2>3 DEF IndInv, GateHonest
  <2>5. notified[k] \in 0..AgeCap /\ quiet[k] \in 0..AgeCap
    BY <2>3 DEF IndInv, TypeOK
  <2>6. winners[k].cfg.cooldown \in Nat
    BY <2>1, WinnerTyped DEF Announcing, IndInv, PollShape
  <2> QED
    BY <2>2, <2>3, <2>4, <2>5, <2>6
<1> QED
  BY <1>1, Invariance, PTL DEF Spec, RepeatWaitsItsTurn

(* What the monitor remembers of an incident is honest: the two invariants  *)
(* together, as the run checks them.                                        *)
THEOREM HonestIncidents == Spec => []IncidentsHonest
  BY GateIsHonest, FeedMatches, PTL DEF IncidentsHonest

(* Nobody is paged twice for one incident, or again before the cooldown.    *)
THEOREM PagesInTurn == Spec => PagedInTurn
  BY FiringOnce, RepeatWaits DEF PagedInTurn

-----------------------------------------------------------------------------
(* What a running poll announces is on hosts that it listed.                *)
WinnersSeen == phase # "idle" => \A k \in DOMAIN winners : HostOf[k[1]] \in sampled

LEMMA WonIsSeen == \A k \in Won : HostOf[k[1]] \in reachable
  BY DEF Won, Wins, Speaks, Over, Measured, Matched

LEMMA SeenStep == WinnersSeen /\ [Next]_vars => WinnersSeen'
<1> SUFFICES ASSUME WinnersSeen, [Next]_vars PROVE WinnersSeen'
  OBVIOUS
<1>1. CASE Poll
  <2>1. DOMAIN winners' = Won /\ sampled' = reachable
    BY <1>1 DEF Poll
  <2> QED
    BY <2>1, WonIsSeen DEF WinnersSeen
<1>2. CASE EndPoll \/ Crashes
  BY <1>2 DEF EndPoll, Crashes, Restart, CrashBeforeSave, CrashBeforeDelete, LoseMemory, WinnersSeen
<1>3. CASE StartSweep
  BY <1>3 DEF StartSweep, WinnersSeen
<1>4. ASSUME NEW k \in Conditions,
             StayQuiet(k) \/ NotSilencedNow(k) \/ Announce(k) \/ SkipBlind(k) \/ Resolve(k)
      PROVE  WinnersSeen'
  BY <1>4 DEF StayQuiet, NotSilencedNow, Announce, SkipBlind, Resolve, Visited, WinnersSeen
<1>5. CASE Environment \/ Tick \/ UNCHANGED vars
  BY <1>5 DEF Environment, WorldChanges, HostChanges, WindowChanges, SaveRule, DropRule, Tick,
       vars, pollVars, WinnersSeen
<1> QED
  BY <1>1, <1>2, <1>3, <1>4, <1>5 DEF Next, StatsLoop

(* A step of a poll writes the row of a condition whose host it listed, and *)
(* records an event of no other.                                            *)
LEMMA BlindKept ==
    ASSUME IndInv, WinnersSeen, Next
    PROVE  KeepsBlindRows
<1> SUFFICES ASSUME NEW k \in Conditions, phase # "idle", HostOf[k[1]] \notin sampled
             PROVE  /\ k \in rows <=> k \in rows'
                    /\ severity'[k] = severity[k] /\ notified'[k] = notified[k]
                    /\ last'.kind # "none" => last'.key # k
  BY DEF KeepsBlindRows
<1>1. ASSUME UNCHANGED rowVars, last' = NoEvent
      PROVE  /\ k \in rows <=> k \in rows'
             /\ severity'[k] = severity[k] /\ notified'[k] = notified[k]
             /\ last'.kind # "none" => last'.key # k
  BY <1>1 DEF rowVars, NoEvent
<1>2. CASE Environment \/ StartSweep \/ EndPoll \/ Restart
  BY <1>1, <1>2 DEF Environment, WorldChanges, HostChanges, WindowChanges, SaveRule, DropRule,
       StartSweep, EndPoll, Restart
<1>3. ~Tick /\ ~Poll
  BY DEF Tick, Poll
<1>4. phase = "announce" => \A j \in todo : j # k
  BY DEF IndInv, PollShape, WinnersSeen
<1>5. ASSUME NEW j \in Conditions, NotSilencedNow(j) \/ SkipBlind(j)
      PROVE  UNCHANGED rowVars /\ last' = NoEvent
  BY <1>5 DEF NotSilencedNow, SkipBlind
<1>6. ASSUME NEW j \in Conditions, StayQuiet(j) \/ Announce(j)
      PROVE  /\ k \in rows <=> k \in rows'
             /\ severity'[k] = severity[k] /\ notified'[k] = notified[k]
             /\ last'.kind # "none" => last'.key # k
  <2>1. j # k
    BY <1>4, <1>6 DEF StayQuiet, Announce, Announcing
  <2>2. \E n : saveState(j, n)
    BY <1>6 DEF StayQuiet, Announce
  <2>3. last' = NoEvent \/ last'.key = j
    BY <1>6, EmitWinnerEffect DEF StayQuiet, Announce
  <2> QED
    BY <2>1, <2>2, <2>3 DEF saveState, NoEvent, IndInv, TypeOK
<1>7. ASSUME NEW j \in Conditions, CrashBeforeSave(j)
      PROVE  UNCHANGED rowVars /\ last'.key # k
  BY <1>4, <1>7, EmitWinnerEffect DEF CrashBeforeSave, Announcing
<1>8. ASSUME NEW j \in Conditions, Resolve(j)
      PROVE  /\ k \in rows <=> k \in rows'
             /\ severity'[k] = severity[k] /\ notified'[k] = notified[k]
             /\ last'.key # k
  <2>1. j # k
    BY <1>8 DEF Resolve, Blind
  <2> QED
    BY <1>8, <2>1 DEF Resolve, EmitResolved, Emitted, IndInv, TypeOK
<1>9. ASSUME NEW j \in Conditions, CrashBeforeDelete(j)
      PROVE  UNCHANGED rowVars /\ last'.key # k
  BY <1>9 DEF CrashBeforeDelete, EmitResolved, Emitted, Blind
<1> QED
  BY <1>1, <1>2, <1>3, <1>5, <1>6, <1>7, <1>8, <1>9 DEF Next, StatsLoop, Crashes, rowVars

(***************************************************************************)
(* A poll that could not list a host neither announces, refreshes nor      *)
(* resolves anything on it, and neither does a stop of the process in the  *)
(* middle of one (evalResourceRules).                                      *)
(***************************************************************************)
THEOREM BlindPollsKeep == Spec => BlindPollKeepsRows
<1>1. Init => WinnersSeen
  BY DEF Init, WinnersSeen
<1>2. IndInv /\ WinnersSeen /\ [Next]_vars => [KeepsBlindRows]_vars
  BY BlindKept
<1> QED
  BY <1>1, <1>2, SeenStep, Invariance, PTL DEF Spec, BlindPollKeepsRows

=============================================================================
