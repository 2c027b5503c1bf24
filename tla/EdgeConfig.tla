---------------------------- MODULE EdgeConfig ----------------------------
(* What EdgeRules is about: the containers and their hosts, the rules and    *)
(* the threads that evaluate them (internal/monitor/monitor.go,              *)
(* internal/store/alerts.go).                                                *)
EXTENDS Integers

CONSTANTS
    Containers,
    RuleIds,     \* rule ids, in the order ListAlertRules returns them
    Rule,        \* [RuleIds -> RuleShapes]
    Watchers,    \* event threads, one for each host
    Scanners,    \* log threads: the two streams of a follower
    WatcherOf,   \* [Containers -> Watchers]: whose events a container's are
    Actions,     \* container events that may arrive
    Retention,   \* restartRetention
    AgeCap,      \* ages beyond every window and cooldown are alike
    MaxEvents    \* bound on the starts observed

StartActions == {"start", "restart"}

(* AlertRule with its parsed config, as far as an edge rule uses it.        *)
RuleShapes ==
    [type : {"state", "restart", "log"}, containers : SUBSET Containers,
     events : SUBSET Actions, window : Nat \ {0}, count : Nat \ {0}, cooldown : Nat]

ASSUME ContainersAssumption == "none" \notin Containers
ASSUME RulesAssumption ==
    /\ RuleIds \subseteq Nat /\ Rule \in [RuleIds -> RuleShapes]
    /\ WatcherOf \in [Containers -> Watchers]
    /\ Watchers \cap Scanners = {}
ASSUME AgesAssumption ==
    /\ AgeCap \in Nat /\ Retention \in 1..AgeCap /\ MaxEvents \in Nat
    /\ \A r \in RuleIds : Rule[r].window <= AgeCap /\ Rule[r].cooldown <= AgeCap
=============================================================================
