-------------------------- MODULE AlertConditions --------------------------
(***************************************************************************)
(* Level-triggered alert conditions: Monitor.pollStats and                 *)
(* Monitor.evalResourceRules (internal/monitor/monitor.go), the alert_states*)
(* rows they keep (internal/store/alerts.go) and the part of Monitor.emit  *)
(* that decides whether a notification leaves the building.                *)
(*                                                                         *)
(* One goroutine (statsLoop) runs a poll: it lists the containers, samples *)
(* them, decides which rule speaks for each condition, announces each      *)
(* winner and finally resolves the conditions nobody wins.  Around it run  *)
(* the API handlers that edit rules and the clock that opens and closes    *)
(* maintenance windows; both interleave with the announcements of a poll.  *)
(*                                                                         *)
(* Time is kept as ages in ticks, saturating at AgeCap: the code only ever *)
(* compares time.Since(x) with a rule's duration, and AgeCap is at least   *)
(* every duration, so saturation changes no comparison.                    *)
(***************************************************************************)
EXTENDS Integers, FiniteSets

CONSTANTS
    Hosts,       \* Docker hosts
    Containers,  \* container ids, unique over all hosts
    HostOf,      \* [Containers -> Hosts]
    Metrics,     \* metric names a rule may use ("cpu", "cpu_total", ...)
    Levels,      \* measured values, a finite set of naturals with 0
    RuleIds,     \* ids of alert_rules rows, ORDER BY id
    Configs,     \* rule contents an operator may save
    SavedRules,  \* the enabled resource rules when the monitor first starts
    Scopes,      \* maintenance windows, each the <<container, rule, severity>>
                 \* triples it matches
    AgeCap,      \* where ages stop growing
    MaxRestarts, \* bound on process restarts
    MaxEdits     \* bound on rule edits

Never == -1      \* the zero time.Time, and a key that is not in overSince
Unread == -2     \* metric() returned ok = false

Severities == 1..3                       \* severityRank: info, warning, critical
Info == 1

(* resourceConfig plus the AlertRule columns evalResourceRules reads.       *)
(* parseResource replaces a duration of zero or less by 30 seconds.         *)
Config ==
    [metric : Metrics, op : {">", "<"}, threshold : Levels, dwell : Nat \ {0},
     severity : Severities, cooldown : Nat, target : SUBSET Containers]

ASSUME TopologyAssumption == HostOf \in [Containers -> Hosts]
ASSUME LevelsAssumption == Levels \subseteq Nat /\ 0 \in Levels
ASSUME RuleIdsAssumption == RuleIds \subseteq Nat
ASSUME ConfigsAssumption == Configs \subseteq Config
ASSUME SavedRulesAssumption ==
    DOMAIN SavedRules \subseteq RuleIds /\ \A r \in DOMAIN SavedRules : SavedRules[r] \in Configs
ASSUME ScopesAssumption == Scopes \subseteq SUBSET (Containers \X RuleIds \X Severities)
ASSUME AgeCapAssumption ==
    AgeCap \in Nat /\ \A g \in Configs : g.dwell <= AgeCap /\ g.cooldown <= AgeCap
ASSUME BoundsAssumption == MaxRestarts \in Nat /\ MaxEdits \in Nat

metricKey(m) == IF m = "cpu_total" THEN "cpu" ELSE m
MetricKeys == {metricKey(m) : m \in Metrics}
Conditions == Containers \X MetricKeys   \* stateKey(host, container, metric)

Gauges == Metrics \cap {"cpu", "mem"}    \* metric() always answers ok = true
Rates  == Metrics \cap {"netrx_rate", "nettx_rate"}

(***************************************************************************)
(* What a poll can find for one container.  A running container whose      *)
(* stats call failed is in the snapshot with Sampled = false and every     *)
(* figure zero.  A sampled one may still lack a core count or a rate.      *)
(***************************************************************************)
Readings == {f \in [Metrics -> Levels \cup {Unread}] :
                \A m \in Gauges : f[m] \in Levels}
ZeroReading == [m \in Metrics |-> 0]
Seen ==
    [state : {"stopped", "removed"}, sampled : {FALSE}, read : {ZeroReading}]
        \cup [state : {"running"}, sampled : {FALSE}, read : {ZeroReading}]
        \cup [state : {"running"}, sampled : {TRUE}, read : Readings]

Candidate == [rule : RuleIds, cfg : Configs]

VARIABLES
    world,      \* [Containers -> Seen]: what Docker would report now
    reachable,  \* hosts whose container listing succeeds (enabled and up)
    rules,      \* the enabled resource rules: a function id -> Configs
    windows,    \* maintenance windows active now
    overSince,  \* [RuleIds \X Containers -> age or Never] (memory)
    snapshot,   \* containers the previous poll sampled (memory)
    rows,       \* keys of alert_states (disk)
    rowRule,    \* alert_states.rule_id
    severity,   \* alert_states.severity
    notified,   \* alert_states.notified_at, as an age
    due,        \* the stats ticker has fired since the last poll
    phase,      \* where statsLoop is: "idle", "announce", "resolve"
    winners,    \* the running poll's winners: a function condition -> Candidate
    sampled,    \* hosts listed by the running poll
    unmeasured, \* conditions whose metric the running poll could not read
    todo,       \* conditions the current loop has not visited yet
    cleared,    \* conditions silencedNow answered "no" for
    restarts,   \* how often the process restarted (bounded)
    edits,      \* how often a rule was edited (bounded)
    (* Observers: written, never read by the code's actions. *)
    last,       \* the event the last step recorded
    told,       \* conditions somebody was really told about in this incident
    quiet,      \* age of the last real delivery of a condition
    feedOpen,   \* conditions whose last stored event is not a resolution
    unsaved,    \* conditions whose event was recorded but not their row
    upAge,      \* how long each container has been running
    overNow,    \* conditions the running poll measured over a threshold
    failedNow   \* running containers the running poll got no sample of

pollVars == <<due, phase, winners, sampled, unmeasured, todo, cleared>>
rowVars  == <<rows, rowRule, severity, notified>>
ghosts   == <<told, quiet, feedOpen, unsaved>>
seenNow  == <<overNow, failedNow>>
vars == <<world, reachable, rules, windows, overSince, snapshot, rowVars,
          pollVars, restarts, edits, last, ghosts, upAge, seenNow>>

NoEvent == [kind |-> "none"]

TypeOK ==
    /\ world \in [Containers -> Seen]
    /\ reachable \subseteq Hosts
    /\ DOMAIN rules \subseteq RuleIds
    /\ \A r \in DOMAIN rules : rules[r] \in Configs
    /\ windows \subseteq Scopes
    /\ overSince \in [RuleIds \X Containers -> {Never} \cup 0..AgeCap]
    /\ snapshot \subseteq Containers
    /\ rows \subseteq Conditions
    /\ rowRule \in [Conditions -> RuleIds \cup {Never}]
    /\ severity \in [Conditions -> Severities]
    /\ notified \in [Conditions -> {Never} \cup 0..AgeCap]
    /\ due \in BOOLEAN
    /\ phase \in {"idle", "announce", "resolve"}
    /\ DOMAIN winners \subseteq Conditions
    /\ \A k \in DOMAIN winners : winners[k] \in Candidate
    /\ sampled \subseteq Hosts
    /\ unmeasured \subseteq Conditions
    /\ todo \subseteq Conditions
    /\ cleared \subseteq Conditions
    /\ restarts \in 0..MaxRestarts
    /\ edits \in 0..MaxEdits
    /\ told \subseteq Conditions
    /\ quiet \in [Conditions -> 0..AgeCap]
    /\ feedOpen \subseteq Conditions
    /\ unsaved \subseteq Conditions
    /\ upAge \in [Containers -> 0..AgeCap]
    /\ overNow \subseteq Conditions
    /\ failedNow \subseteq Containers

Down == [state |-> "stopped", sampled |-> FALSE, read |-> ZeroReading]
Nothing == [x \in {} |-> x]

Init ==
    /\ world = [c \in Containers |-> Down]
    /\ reachable = Hosts
    /\ rules = SavedRules
    /\ windows = {}
    /\ overSince = [p \in RuleIds \X Containers |-> Never]
    /\ snapshot = {}
    /\ rows = {}
    /\ rowRule = [k \in Conditions |-> Never]
    /\ severity = [k \in Conditions |-> Info]
    /\ notified = [k \in Conditions |-> Never]
    /\ due = TRUE   \* statsLoop primes the snapshot before its first tick
    /\ phase = "idle"
    /\ winners = Nothing
    /\ sampled = {} /\ unmeasured = {} /\ todo = {} /\ cleared = {}
    /\ restarts = 0 /\ edits = 0
    /\ last = NoEvent
    /\ told = {} /\ feedOpen = {} /\ unsaved = {}
    /\ quiet = [k \in Conditions |-> AgeCap]
    /\ upAge = [c \in Containers |-> 0]
    /\ overNow = {} /\ failedNow = {}

-----------------------------------------------------------------------------
(* The environment: containers, hosts, windows, rule edits and the clock.  *)

Age(a) == IF a = Never \/ a = AgeCap THEN a ELSE a + 1

(* Docker's view of a container changes: started, stopped, removed, busier, *)
(* calmer, or its stats call starts to fail.  A removed id never returns.   *)
WorldChanges(c, s) ==
    /\ world[c].state # "removed"
    /\ world' = [world EXCEPT ![c] = s]
    /\ upAge' = [upAge EXCEPT ![c] = IF s.state = "running" THEN @ ELSE 0]
    /\ last' = NoEvent
    /\ UNCHANGED <<reachable, rules, windows, overSince, snapshot, rowVars,
                   pollVars, restarts, edits, ghosts, seenNow>>

(* A host stops or starts answering ListContainers, or is disabled/enabled. *)
HostChanges(h) ==
    /\ reachable' = IF h \in reachable THEN reachable \ {h} ELSE reachable \cup {h}
    /\ last' = NoEvent
    /\ UNCHANGED <<world, rules, windows, overSince, snapshot, rowVars, pollVars,
                   restarts, edits, ghosts, upAge, seenNow>>

(* A maintenance window starts or stops covering its scope.                 *)
WindowChanges(w) ==
    /\ windows' = IF w \in windows THEN windows \ {w} ELSE windows \cup {w}
    /\ last' = NoEvent
    /\ UNCHANGED <<world, reachable, rules, overSince, snapshot, rowVars,
                   pollVars, restarts, edits, ghosts, upAge, seenNow>>

(* handleCreateAlertRule, handleUpdateAlertRule, or a toggle to enabled:    *)
(* the row is written; the monitor's memory of the rule is left alone.      *)
SaveRule(r, g) ==
    /\ edits < MaxEdits
    /\ rules' = [i \in DOMAIN rules \cup {r} |-> IF i = r THEN g ELSE rules[i]]
    /\ edits' = edits + 1
    /\ last' = NoEvent
    /\ UNCHANGED <<world, reachable, windows, overSince, snapshot, rowVars,
                   pollVars, restarts, ghosts, upAge, seenNow>>

(* handleDeleteAlertRule or a toggle to disabled.                           *)
DropRule(r) ==
    /\ edits < MaxEdits
    /\ r \in DOMAIN rules
    /\ rules' = [i \in DOMAIN rules \ {r} |-> rules[i]]
    /\ edits' = edits + 1
    /\ last' = NoEvent
    /\ UNCHANGED <<world, reachable, windows, overSince, snapshot, rowVars,
                   pollVars, restarts, ghosts, upAge, seenNow>>

(* evalResourceRules takes one `now` for the whole evaluation, so the clock *)
(* moves between polls.                                                     *)
Tick ==
    /\ phase = "idle"
    /\ due' = TRUE
    /\ overSince' = [p \in DOMAIN overSince |-> Age(overSince[p])]
    /\ notified' = [k \in Conditions |-> Age(notified[k])]
    /\ quiet' = [k \in Conditions |-> Age(quiet[k])]
    /\ upAge' = [c \in Containers |->
                    IF world[c].state = "running" THEN Age(upAge[c]) ELSE 0]
    /\ last' = NoEvent
    /\ UNCHANGED <<world, reachable, rules, windows, snapshot, rows, rowRule,
                   severity, phase, winners, sampled, unmeasured, todo, cleared,
                   restarts, edits, told, feedOpen, unsaved, seenNow>>

-----------------------------------------------------------------------------
(* pollStats and the first half of evalResourceRules.                       *)

(* cs.metric(name), after applyNetRates has filled in the rates: a rate     *)
(* needs a sampled container in this poll and in the previous one.          *)
metric(c, m) ==
    IF ~world[c].sampled THEN (IF m \in Gauges THEN 0 ELSE Unread)
    ELSE IF m \in Rates /\ c \notin snapshot THEN Unread
    ELSE world[c].read[m]

exceeds(g, v) == IF g.op = "<" THEN v < g.threshold ELSE v > g.threshold

(* Rule r is compared with container c in this poll.                        *)
Matched(r, c) ==
    /\ HostOf[c] \in reachable
    /\ world[c].state = "running"
    /\ c \in rules[r].target

Measured(r, c) == Matched(r, c) /\ metric(c, rules[r].metric) # Unread
Over(r, c) == Measured(r, c) /\ exceeds(rules[r], metric(c, rules[r].metric))
ConditionOf(r, c) == <<c, metricKey(rules[r].metric)>>

(* overSince after the rules were compared: deleted when not over, loaded   *)
(* or stored when over, left alone for a pair that was not compared.        *)
OverSince(r, c) ==
    IF r \notin DOMAIN rules \/ ~Measured(r, c) THEN overSince[<<r, c>>]
    ELSE IF ~Over(r, c) THEN Never
    ELSE IF overSince[<<r, c>>] = Never THEN 0
    ELSE overSince[<<r, c>>]

(* Rule r is over threshold for k and has served its own duration.          *)
Speaks(r, k) ==
    /\ Over(r, k[1])
    /\ ConditionOf(r, k[1]) = k
    /\ OverSince(r, k[1]) >= rules[r].dwell

(* The most severe speaker, the first by id among equals.                   *)
Wins(r, k) ==
    /\ Speaks(r, k)
    /\ \A o \in DOMAIN rules \ {r} :
          Speaks(o, k) => \/ rules[o].severity < rules[r].severity
                          \/ rules[o].severity = rules[r].severity /\ r < o

Won == {k \in Conditions : \E r \in DOMAIN rules : Wins(r, k)}
Winner(k) == CHOOSE r \in DOMAIN rules : Wins(r, k)

(* pollStats up to the loop over the winners.                               *)
Poll ==
    /\ phase = "idle" /\ due
    /\ due' = FALSE
    /\ phase' = "announce"
    /\ sampled' = reachable
    /\ snapshot' = {c \in Containers : HostOf[c] \in reachable /\ world[c].sampled}
    /\ overSince' = [p \in RuleIds \X Containers |-> OverSince(p[1], p[2])]
    /\ winners' = [k \in Won |-> [rule |-> Winner(k), cfg |-> rules[Winner(k)]]]
    /\ unmeasured' = {k \in Conditions : \E r \in DOMAIN rules :
                        /\ Matched(r, k[1])
                        /\ ~Measured(r, k[1])
                        /\ ConditionOf(r, k[1]) = k}
    /\ todo' = Won
    /\ cleared' = {}
    /\ overNow' = {k \in Conditions : \E r \in DOMAIN rules :
                      Over(r, k[1]) /\ ConditionOf(r, k[1]) = k}
    /\ failedNow' = {c \in Containers : /\ HostOf[c] \in reachable
                                        /\ world[c].state = "running"
                                        /\ ~world[c].sampled}
    /\ last' = NoEvent
    /\ UNCHANGED <<world, reachable, rules, windows, rowVars, restarts, edits,
                   ghosts, upAge>>

-----------------------------------------------------------------------------
(* The loop over the winners.                                               *)

(* FindActiveMaintenanceWindow for this container, rule and severity.       *)
Silenced(c, r, s) == \E w \in windows : <<c, r, s>> \in w

SpeakerSilenced(k) == Silenced(k[1], winners[k].rule, winners[k].cfg.severity)

(* CooldownSec > 0 && now.Sub(NotifiedAt) >= cooldown; the zero time is     *)
(* longer ago than any cooldown.                                            *)
MayRepeat(k) ==
    LET g == winners[k].cfg
    IN  g.cooldown > 0 /\ (notified[k] = Never \/ notified[k] >= g.cooldown)

(* Mutant: every re-announcement goes out as a firing.                      *)
KindForNoRepeat(k) ==
    LET s == winners[k].cfg.severity
    IN  IF k \notin rows THEN "firing"
        ELSE IF s > severity[k] THEN "escalated"
        ELSE IF s < severity[k] THEN "eased"
        ELSE IF ~MayRepeat(k) THEN "quiet"
        ELSE "owed"

(* Which case of the switch applies; "quiet" is its default.                *)
KindFor(k) ==
    LET s == winners[k].cfg.severity
    IN  IF k \notin rows THEN "firing"
        ELSE IF s > severity[k] THEN "escalated"
        ELSE IF s < severity[k] THEN "eased"
        ELSE IF ~MayRepeat(k) THEN "quiet"
        ELSE IF notified[k] = Never THEN "owed"
        ELSE "repeat"

(* UpsertAlertState.                                                        *)
saveState(k, n) ==
    /\ rows' = rows \cup {k}
    /\ rowRule' = [rowRule EXCEPT ![k] = winners[k].rule]
    /\ severity' = [severity EXCEPT ![k] = winners[k].cfg.severity]
    /\ notified' = [notified EXCEPT ![k] = n]

Visited(k) ==
    /\ todo' = todo \ {k}
    /\ UNCHANGED <<due, phase, winners, sampled, unmeasured, cleared>>

Outside == <<world, reachable, rules, windows, edits, upAge>>
Memory == <<overSince, snapshot>>

(* Mutant: a quiet poll stamps `now` as the notify time.                    *)
StayQuietStamped(k) ==
    /\ phase = "announce" /\ k \in todo \ cleared
    /\ \/ KindFor(k) = "quiet"
       \/ KindFor(k) = "owed" /\ SpeakerSilenced(k)
    /\ saveState(k, 0)
    /\ Visited(k)
    /\ last' = NoEvent
    /\ UNCHANGED <<Outside, seenNow, Memory, restarts, ghosts>>

(* Nothing to say, or still silenced and never delivered: only the row is   *)
(* refreshed.                                                               *)
StayQuiet(k) ==
    /\ phase = "announce" /\ k \in todo \ cleared
    /\ \/ KindFor(k) = "quiet"
       \/ KindFor(k) = "owed" /\ SpeakerSilenced(k)
    /\ saveState(k, notified[k])
    /\ Visited(k)
    /\ last' = NoEvent
    /\ UNCHANGED <<Outside, seenNow, Memory, restarts, ghosts>>

(* silencedNow answered no; emit looks the windows up again.                *)
NotSilencedNow(k) ==
    /\ phase = "announce" /\ k \in todo \ cleared
    /\ KindFor(k) = "owed" /\ ~SpeakerSilenced(k)
    /\ cleared' = cleared \cup {k}
    /\ last' = NoEvent
    /\ UNCHANGED <<Outside, seenNow, Memory, restarts, ghosts, rowVars,
                   due, phase, winners, sampled, unmeasured, todo>>

(* emit: the kind as the feed shows it, whether a window silenced it, and   *)
(* whether it is stored (a silenced repeat is not).                         *)
Emitted(kind, k, silenced) ==
    [kind |-> kind, key |-> k, silenced |-> silenced,
     stored |-> ~(silenced /\ kind = "repeat")]

KindEmitted(k) == IF KindFor(k) = "owed" THEN "firing" ELSE KindFor(k)

(* The emit of a winner, as the observers see it.                           *)
EmitWinner(k) ==
    LET ev == Emitted(KindEmitted(k), k, SpeakerSilenced(k))
    IN  /\ last' = ev
        /\ told' = IF ev.silenced THEN told ELSE told \cup {k}
        /\ quiet' = IF ev.silenced THEN quiet ELSE [quiet EXCEPT ![k] = 0]
        /\ feedOpen' = IF ev.stored THEN feedOpen \cup {k} ELSE feedOpen

(* Mutant: a suppressed emit counts as a notification.                      *)
NotifiedAlways(k) == 0

(* The notify time saved after an emit: now, or the previous one when the   *)
(* emit was suppressed, unless it was the repeat of something delivered.    *)
NotifiedAfter(k) ==
    IF SpeakerSilenced(k) /\ KindEmitted(k) # "repeat" THEN notified[k] ELSE 0

Announcing(k) ==
    /\ phase = "announce" /\ k \in todo
    /\ KindFor(k) # "quiet"
    /\ KindFor(k) = "owed" => k \in cleared

Announce(k) ==
    /\ Announcing(k)
    /\ EmitWinner(k)
    /\ saveState(k, NotifiedAfter(k))
    /\ unsaved' = IF SpeakerSilenced(k) THEN unsaved ELSE unsaved \ {k}
    /\ Visited(k)
    /\ UNCHANGED <<Outside, seenNow, Memory, restarts>>

-----------------------------------------------------------------------------
(* The resolve sweep.                                                       *)

StartSweep ==
    /\ phase = "announce" /\ todo = {}
    /\ phase' = "resolve"
    /\ todo' = rows \ DOMAIN winners
    /\ last' = NoEvent
    /\ UNCHANGED <<Outside, seenNow, Memory, restarts, ghosts, rowVars,
                   due, winners, sampled, unmeasured, cleared>>

(* Not observed this round: silence is not recovery.                        *)
Blind(k) == HostOf[k[1]] \notin sampled \/ k \in unmeasured

SkipBlind(k) ==
    /\ phase = "resolve" /\ k \in todo
    /\ Blind(k)
    /\ Visited(k)
    /\ last' = NoEvent
    /\ UNCHANGED <<Outside, seenNow, Memory, restarts, ghosts, rowVars>>

(* The resolution is emitted under the row's rule at severity info.         *)
EmitResolved(k) ==
    /\ last' = Emitted("resolved", k, Silenced(k[1], rowRule[k], Info))
    /\ told' = told \ {k}
    /\ quiet' = [quiet EXCEPT ![k] = AgeCap]
    /\ feedOpen' = feedOpen \ {k}

Resolve(k) ==
    /\ phase = "resolve" /\ k \in todo
    /\ ~Blind(k)
    /\ EmitResolved(k)
    /\ rows' = rows \ {k}
    /\ rowRule' = [rowRule EXCEPT ![k] = Never]
    /\ severity' = [severity EXCEPT ![k] = Info]
    /\ notified' = [notified EXCEPT ![k] = Never]
    /\ unsaved' = unsaved \ {k}
    /\ Visited(k)
    /\ UNCHANGED <<Outside, seenNow, Memory, restarts>>

EndPoll ==
    /\ phase = "resolve" /\ todo = {}
    /\ phase' = "idle"
    /\ winners' = Nothing
    /\ sampled' = {} /\ unmeasured' = {} /\ cleared' = {}
    /\ overNow' = {} /\ failedNow' = {}
    /\ last' = NoEvent
    /\ UNCHANGED <<Outside, Memory, restarts, ghosts, rowVars, due, todo>>

-----------------------------------------------------------------------------
(* The process stops and starts again: New() builds empty maps, the rows    *)
(* are still there.                                                         *)

LoseMemory ==
    /\ restarts < MaxRestarts
    /\ restarts' = restarts + 1
    /\ overSince' = [p \in RuleIds \X Containers |-> Never]
    /\ snapshot' = {}
    /\ phase' = "idle"
    /\ winners' = Nothing
    /\ sampled' = {} /\ unmeasured' = {} /\ cleared' = {} /\ todo' = {}
    /\ overNow' = {} /\ failedNow' = {}
    /\ due' = TRUE

Restart ==
    /\ LoseMemory
    /\ last' = NoEvent
    /\ UNCHANGED <<Outside, rowVars, ghosts>>

(* It stops after InsertAlertEvent and before UpsertAlertState ...          *)
CrashBeforeSave(k) ==
    /\ Announcing(k)
    /\ EmitWinner(k)
    /\ unsaved' = unsaved \cup {k}
    /\ LoseMemory
    /\ UNCHANGED <<Outside, rowVars>>

(* ... or after the resolution and before DeleteAlertState.                 *)
CrashBeforeDelete(k) ==
    /\ phase = "resolve" /\ k \in todo
    /\ ~Blind(k)
    /\ EmitResolved(k)
    /\ unsaved' = unsaved \cup {k}
    /\ LoseMemory
    /\ UNCHANGED <<Outside, rowVars>>

-----------------------------------------------------------------------------
Environment ==
    \/ \E c \in Containers, s \in Seen : WorldChanges(c, s)
    \/ \E h \in Hosts : HostChanges(h)
    \/ \E w \in Scopes : WindowChanges(w)
    \/ \E r \in RuleIds, g \in Configs : SaveRule(r, g)
    \/ \E r \in RuleIds : DropRule(r)

StatsLoop ==
    \/ Poll
    \/ \E k \in Conditions :
          StayQuiet(k) \/ NotSilencedNow(k) \/ Announce(k)
    \/ StartSweep
    \/ \E k \in Conditions : SkipBlind(k) \/ Resolve(k)
    \/ EndPoll

Crashes ==
    \/ Restart
    \/ \E k \in Conditions : CrashBeforeSave(k) \/ CrashBeforeDelete(k)

Next == Environment \/ Tick \/ StatsLoop \/ Crashes

Spec == Init /\ [][Next]_vars

(* The ticker keeps firing and the evaluation has no step that can block:   *)
(* every store call runs under its own timeout.                             *)
FairSpec == Spec /\ WF_vars(Tick) /\ WF_vars(StatsLoop)

-----------------------------------------------------------------------------
(* Properties.                                                              *)

(***************************************************************************)
(* The saved notify time is honest: a condition carries one exactly when   *)
(* somebody was really told of this incident, and it is never older than   *)
(* the last real delivery.  This is what evalResourceRules' choice between *)
(* firing and repeat, and its re-notify gate, rest on.  A condition whose  *)
(* row was lost to a crash is exempt until it is next delivered or ends.   *)
(***************************************************************************)
GateHonest ==
    \A k \in Conditions \ unsaved :
        /\ k \in told <=> k \in rows /\ notified[k] # Never
        /\ k \in told => notified[k] <= quiet[k]

(***************************************************************************)
(* alert_states and the feed tell the same story: a condition has a row    *)
(* exactly when its last stored event is not a resolution, so every stored *)
(* firing is followed by one resolution before the next incident starts.   *)
(***************************************************************************)
FeedMatchesRows == \A k \in Conditions \ unsaved : k \in rows <=> k \in feedOpen

(***************************************************************************)
(* One incident, one page: a delivered "firing" is the first thing anyone  *)
(* hears of an incident, whatever windows, edits, escalations and restarts *)
(* came before it.                                                         *)
(***************************************************************************)
FiringDeliveredOnce ==
    [][last'.kind = "firing" => (last'.silenced \/ last'.key \notin told
                                 \/ last'.key \in unsaved)]_vars

(***************************************************************************)
(* A delivered "repeat" re-announces something that was delivered, and not *)
(* before the speaking rule's cooldown has passed since that delivery.     *)
(***************************************************************************)
RepeatWaitsItsTurn ==
    [][last'.kind = "repeat" /\ ~last'.silenced /\ last'.key \notin unsaved
         => /\ last'.key \in told
            /\ quiet[last'.key] >= winners[last'.key].cfg.cooldown]_vars

(***************************************************************************)
(* What the monitor remembers of an incident is honest: who was told, and  *)
(* what the feed says.                                                     *)
(***************************************************************************)
IncidentsHonest == GateHonest /\ FeedMatchesRows

(***************************************************************************)
(* Nobody is paged twice for one incident, or again before the cooldown.   *)
(***************************************************************************)
PagedInTurn == FiringDeliveredOnce /\ RepeatWaitsItsTurn

(***************************************************************************)
(* A poll that did not see a host leaves every condition on it exactly as  *)
(* it was: nothing there is announced, refreshed or resolved, so a flaky   *)
(* link produces no resolve/fire pairs.                                    *)
(***************************************************************************)
KeepsBlindRows ==
    \A k \in Conditions : phase # "idle" /\ HostOf[k[1]] \notin sampled
        => /\ k \in rows <=> k \in rows'
           /\ severity'[k] = severity[k] /\ notified'[k] = notified[k]
           /\ last'.kind # "none" => last'.key # k
BlindPollKeepsRows == [][KeepsBlindRows]_vars

(* Rule r has been over its threshold on condition k since some moment,     *)
(* nothing is silenced and the rule may re-announce.                        *)
InTrouble(r, k) ==
    /\ r \in DOMAIN rules
    /\ rules[r].cooldown > 0
    /\ Over(r, k[1])
    /\ ConditionOf(r, k[1]) = k
    /\ windows = {}

(***************************************************************************)
(* A condition that stays over a threshold with no window covering it is   *)
(* eventually delivered to somebody, even when it started silenced.        *)
(***************************************************************************)
TroubleIsDelivered ==
    \A r \in RuleIds, k \in Conditions : <>[]InTrouble(r, k) => <>[](k \in told)

(* Condition k is measured and no rule finds it over its threshold.         *)
AllCalm(k) ==
    /\ HostOf[k[1]] \in reachable
    /\ \A r \in DOMAIN rules :
          Matched(r, k[1]) /\ ConditionOf(r, k[1]) = k
              => Measured(r, k[1]) /\ ~Over(r, k[1])

(***************************************************************************)
(* A condition that stays calm on a host that answers is eventually        *)
(* resolved for good, also when the rule that raised it was deleted.       *)
(***************************************************************************)
CalmIsResolved ==
    \A k \in Conditions : <>[]AllCalm(k) => <>[](k \notin rows)

(***************************************************************************)
(* docs/alerts.md: "resolved | It stopped."  A resolution is recorded only *)
(* by a poll that did not measure the condition over a threshold.          *)
(***************************************************************************)
ResolvedMeansStopped ==
    [][last'.kind = "resolved" => last'.key \notin overNow]_vars

(***************************************************************************)
(* evalResourceRules: "The metric itself couldn't be read this poll ...    *)
(* silence here is exactly as uninformative as an unreachable host".  No   *)
(* poll whose stats call for the container failed resolves its conditions. *)
(***************************************************************************)
ResolvedMeansRead ==
    [][last'.kind = "resolved" => last'.key[1] \notin failedNow]_vars

(***************************************************************************)
(* docs/alerts.md: "firing | Threshold crossed and held for the rule's     *)
(* duration."  When a poll picks a rule to start an incident, the container*)
(* has been running for at least that rule's duration.                     *)
(***************************************************************************)
FiringMeansHeld ==
    [][phase = "idle" /\ phase' = "announce" =>
          \A k \in DOMAIN winners' \ rows :
              upAge[k[1]] >= winners'[k].cfg.dwell]_vars

=============================================================================
