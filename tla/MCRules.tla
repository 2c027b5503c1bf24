------------------------------ MODULE MCRules ------------------------------
(* Instances of the schedule of maintenance windows and of the               *)
(* edge-triggered rules for TLC: a behaviour is of one of them, chosen at    *)
(* the start.                                                                *)
EXTENDS MaintenanceWindows, EdgeConfig, TLC

CONSTANTS Parts, d1, d2

VARIABLES part
VARIABLES ruleOn, silenced, started, age, starts, cooldowns, thread, told
VARIABLES lEnabled, lSilenced, lStarted, lAge, lStarts, lCooldowns, lThread, lTold

-----------------------------------------------------------------------------
(* Five days of half hours: the clocks go forward on the second and back on *)
(* the fourth, at 02:00.                                                    *)
HalfHours == <<48, 46, 48, 50, 48>>
FiveWeekdays == <<5, 6, 0, 1, 2>>
Schedules ==
    { [recurring |-> TRUE, starts |-> start, ends |-> end, days |-> days,
       tod |-> tod, duration |-> duration, ended |-> FALSE] :
        start \in {47, 60}, end \in {NoEnd, 200},
        days \in {{5}, {6}, {5, 6, 0, 1, 2}, {0, 2}},
        tod \in {0, 4, 46, 47}, duration \in {1, 10, 48, 49} }

RestartRule(on, window, count, cooldown) ==
    [type |-> "restart", containers |-> on, events |-> {},
     window |-> window, count |-> count, cooldown |-> cooldown]
StateRule(on, cooldown) ==
    [type |-> "state", containers |-> on, events |-> {"die"},
     window |-> 1, count |-> 1, cooldown |-> cooldown]
LogRule(on, cooldown) ==
    [type |-> "log", containers |-> on, events |-> {},
     window |-> 1, count |-> 1, cooldown |-> cooldown]

LateOccurrence ==
    {[recurring |-> TRUE, starts |-> 0, ends |-> NoEnd, days |-> {5},
      tod |-> 47, duration |-> 48, ended |-> FALSE]}

OneHost == [c \in Containers |-> "w"]
LogOnly == <<LogRule(Containers, 2)>>
MixedRules == <<RestartRule(Containers, 2, 2, 1), StateRule(Containers, 2), LogRule(Containers, 1)>>

(* A restart rule, a state rule and a log rule over one container.          *)
E == INSTANCE EdgeRules WITH enabled <- ruleOn, restarts <- starts

(* Two restart rules, one with a window longer than the retention, over two *)
(* containers.                                                              *)
Both == {d1, d2}
ASSUME LoopsAssumption == "none" \notin Both
LoopRules == <<RestartRule(Both, 2, 2, 0), RestartRule(Both, 3, 2, 0)>>
Symmetry == Permutations(Both)
L == INSTANCE EdgeRules WITH
       Containers <- Both, RuleIds <- {1, 2},
       Rule <- LoopRules,
       Watchers <- {"w"}, Scanners <- {}, WatcherOf <- [c \in Both |-> "w"],
       Actions <- {"start"}, Retention <- 2, AgeCap <- 3, MaxEvents <- 2,
       enabled <- lEnabled, silenced <- lSilenced, started <- lStarted, age <- lAge,
       restarts <- lStarts, cooldowns <- lCooldowns, thread <- lThread, told <- lTold

evars == <<ruleOn, silenced, started, age, starts, cooldowns, thread, told>>
lvars == <<lEnabled, lSilenced, lStarted, lAge, lStarts, lCooldowns, lThread, lTold>>

MCInit == part \in Parts /\ WindowsInit /\ E!Init /\ L!Init

MCNext ==
    /\ UNCHANGED part
    /\ \/ part = "schedule" /\ WindowsNext /\ UNCHANGED <<evars, lvars>>
       \/ part = "edges" /\ E!Next /\ UNCHANGED <<windowVars, lvars>>
       \/ part = "loops" /\ L!Next /\ UNCHANGED <<windowVars, evars>>

MCSpec == MCInit /\ [][MCNext]_<<part, windowVars, evars, lvars>>

-----------------------------------------------------------------------------
(* A window is silent exactly when its schedule says so                      *)
(* (recurringSpanAt).                                                        *)
SilenceIsScheduled == part = "schedule" => SilenceOnlyScheduled /\ OccurrenceIsSilent

(* fire drops an event only when somebody was told within the cooldown, and  *)
(* deliveries of an event rule are at least the cooldown apart.              *)
CooldownHolds == [][E!DropsOnlyTold /\ E!EventsKeepCooldown]_evars

(* A restart rule claims no more starts than happened, the rule with the     *)
(* shortest window counts them exactly, and a remembered start is one of the *)
(* container it is remembered for (recordRestart, restartCount).             *)
RestartsCounted ==
    /\ []((part = "edges" => E!TypeOK) /\ (part = "loops" => L!TypeOK))
    /\ [][E!CountsNoMore /\ E!ShortestCountsExactly]_evars
    /\ [][L!CountsNoMore /\ L!ShortestCountsExactly]_lvars

-----------------------------------------------------------------------------
(* What the documentation says and TLC refutes (README, section 6).          *)

(* Every restart rule counts the starts inside its own window exactly        *)
(* (restartCount, recordRestart).                                            *)
EveryWindowIsExact == L!EveryWindowIsExact

(* Two deliveries of a log rule are a cooldown apart (fire, called by both   *)
(* scanners of a follower).                                                  *)
LogCooldownKept == E!LogCooldownKept
=============================================================================
