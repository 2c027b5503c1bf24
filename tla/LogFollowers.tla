---------------------------- MODULE LogFollowers ----------------------------
(***************************************************************************)
(* The log followers of the alert engine: logReconcileLoop,                *)
(* reconcileLogFollowers, ensureFollower, runFollower, stopAllFollowers    *)
(* (internal/monitor/monitor.go).                                          *)
(*                                                                         *)
(* A follower belongs to a key, a log rule with a container.  The table    *)
(* m.logCancels has at most one entry for a key and is the only way to     *)
(* cancel a follower.  A pass works from a list of rules and one list of   *)
(* containers for each host; a follower's cleanup runs on the follower's   *)
(* own goroutine, whenever its stream has returned.                        *)
(***************************************************************************)
EXTENDS Integers, FiniteSets

CONSTANTS
    Keys,        \* ruleKey(rule, container)
    Hosts,
    HostOf,      \* [Keys -> Hosts]
    Followers,   \* follower goroutines, reused once they are gone
    NoFollower,
    MaxChanges,  \* bound on the changes of rules and containers
    MaxFaults    \* bound on the listings that fail

ASSUME HostsAssumption == HostOf \in [Keys -> Hosts]
ASSUME FollowersAssumption == NoFollower \notin Followers
ASSUME BoundsAssumption == MaxChanges \in Nat /\ MaxFaults \in Nat

VARIABLES
    enabled,     \* keys whose log rule is enabled
    running,     \* keys whose container runs
    version,     \* [Keys -> what the rule says, counted]
    logCancels,  \* [Keys -> the follower whose cancel function it holds]
    follower,    \* [Followers -> key, the rule it was given, where it is]
    cancelled,   \* followers whose context was cancelled through the table
    ctxDone,     \* the monitor's own context was cancelled
    pass,        \* the reconcile pass in progress
    changes, faults,
    late         \* observer: keys that lost an entry to another's cleanup

rules == <<enabled, running, version>>
table == <<logCancels, follower, cancelled, late>>
bounds == <<changes, faults>>
vars == <<rules, table, ctxDone, pass, bounds>>

Free == [key |-> "none", ver |-> 0, st |-> "free"]
Versions == 0..MaxChanges
Live(f) == follower[f].st # "free"

NoPass(pc) == [pc |-> pc, rules |-> {}, ver |-> [k \in Keys |-> 0],
               hosts |-> {}, todo |-> {}, want |-> {}]

(* A follower's goroutine: the rule it captured, and how far it is.         *)
Goroutines == [key : Keys, ver : Versions, st : {"streaming", "ended"}]

(* What a pass has read and what it has still to do.                        *)
Passes == [pc : {"idle", "walk", "stopped"}, rules : SUBSET Keys,
           ver : [Keys -> Versions], hosts : SUBSET Hosts,
           todo : SUBSET Keys, want : SUBSET Keys]

TypeOK ==
    /\ enabled \subseteq Keys /\ running \subseteq Keys /\ late \subseteq Keys
    /\ version \in [Keys -> Versions]
    /\ logCancels \in [Keys -> Followers \cup {NoFollower}]
    /\ follower \in [Followers -> Goroutines \cup {Free}]
    /\ cancelled \subseteq Followers
    /\ ctxDone \in BOOLEAN
    /\ pass \in Passes
    /\ changes \in 0..MaxChanges /\ faults \in 0..MaxFaults

Init ==
    /\ enabled \in SUBSET Keys /\ running \in SUBSET Keys
    /\ version = [k \in Keys |-> 0]
    /\ logCancels = [k \in Keys |-> NoFollower]
    /\ follower = [f \in Followers |-> Free]
    /\ cancelled = {} /\ late = {}
    /\ ctxDone = FALSE
    /\ pass = NoPass("idle")
    /\ changes = 0 /\ faults = 0

-----------------------------------------------------------------------------
(* A pass of reconcileLogFollowers.                                         *)

(* A listing fails: a fault, or the monitor's context is done.              *)
Fails ==
    \/ ctxDone /\ UNCHANGED bounds
    \/ faults < MaxFaults /\ faults' = faults + 1 /\ UNCHANGED changes

(* Mutant: rules are read from a cache an edit drops them from.             *)
ReadRulesCached ==
    /\ pass.pc = "idle" /\ ~ctxDone
    /\ \/ /\ pass' = [NoPass("walk") EXCEPT !.rules = {k \in enabled : version[k] = 0},
                                            !.ver = version, !.hosts = Hosts]
          /\ UNCHANGED bounds
       \/ Fails /\ UNCHANGED pass
    /\ UNCHANGED <<rules, table, ctxDone>>

(* ListAlertRules; without it there is no pass.                             *)
ReadRules ==
    /\ pass.pc = "idle" /\ ~ctxDone
    /\ \/ /\ pass' = [NoPass("walk") EXCEPT !.rules = enabled, !.ver = version,
                                            !.hosts = Hosts]
          /\ UNCHANGED bounds
       \/ Fails /\ UNCHANGED pass
    /\ UNCHANGED <<rules, table, ctxDone>>

(* ListContainers of a host; a host that fails is skipped.                  *)
ListHost(h) ==
    /\ pass.pc = "walk" /\ pass.todo = {} /\ h \in pass.hosts
    /\ \/ /\ pass' = [pass EXCEPT !.hosts = @ \ {h}, !.todo =
                        {k \in pass.rules : HostOf[k] = h /\ k \in running}]
          /\ UNCHANGED bounds
       \/ pass' = [pass EXCEPT !.hosts = @ \ {h}] /\ Fails
    /\ UNCHANGED <<rules, table, ctxDone>>

(* Mutant: the test for an entry is left out.                               *)
EnsureFollowerAlways(k) ==
    /\ pass.pc = "walk" /\ k \in pass.todo
    /\ pass' = [pass EXCEPT !.todo = @ \ {k}, !.want = @ \cup {k}]
    /\ \E f \in Followers :
         /\ ~Live(f)
         /\ follower' = [follower EXCEPT ![f] =
                           [key |-> k, ver |-> pass.ver[k], st |-> "streaming"]]
         /\ logCancels' = [logCancels EXCEPT ![k] = f]
         /\ UNCHANGED <<cancelled, late>>
    /\ UNCHANGED <<rules, ctxDone, bounds>>

ensureFollower(k) ==
    /\ pass.pc = "walk" /\ k \in pass.todo
    /\ pass' = [pass EXCEPT !.todo = @ \ {k}, !.want = @ \cup {k}]
    /\ \/ logCancels[k] # NoFollower /\ UNCHANGED table
       \/ \E f \in Followers :
            /\ logCancels[k] = NoFollower /\ ~Live(f)
            /\ follower' = [follower EXCEPT ![f] =
                              [key |-> k, ver |-> pass.ver[k], st |-> "streaming"]]
            /\ logCancels' = [logCancels EXCEPT ![k] = f]
            /\ UNCHANGED <<cancelled, late>>
    /\ UNCHANGED <<rules, ctxDone, bounds>>

(* cancel() and delete for the keys S of the table, under logMu.            *)
CancelKeys(S) ==
    /\ cancelled' = cancelled \cup ({logCancels[k] : k \in S} \ {NoFollower})
    /\ logCancels' = [k \in Keys |-> IF k \in S THEN NoFollower ELSE logCancels[k]]
    /\ UNCHANGED <<follower, late>>

(* "Stop followers no longer wanted."                                       *)
StopUnwanted ==
    /\ pass.pc = "walk" /\ pass.hosts = {} /\ pass.todo = {}
    /\ CancelKeys(Keys \ pass.want)
    /\ pass' = NoPass("idle")
    /\ UNCHANGED <<rules, ctxDone, bounds>>

stopAllFollowers ==
    /\ pass.pc = "idle" /\ ctxDone
    /\ CancelKeys(Keys)
    /\ pass' = NoPass("stopped")
    /\ UNCHANGED <<rules, ctxDone, bounds>>

Reconcile ==
    \/ ReadRules \/ StopUnwanted \/ stopAllFollowers
    \/ \E h \in Hosts : ListHost(h)
    \/ \E k \in Keys : ensureFollower(k)

-----------------------------------------------------------------------------
(* A follower's goroutine: runFollower.                                     *)

(* Every follower's context is a child of the monitor's.                    *)
Stopped(f) == f \in cancelled \/ ctxDone

(* StreamLogs returns: cancelled, the container stopped, or an error.       *)
StreamReturns(f) ==
    /\ follower[f].st = "streaming"
    /\ follower' = [follower EXCEPT ![f].st = "ended"]
    /\ UNCHANGED <<rules, logCancels, cancelled, late, ctxDone, pass, bounds>>

(* The deferred cleanup: it deletes whatever entry its key has by now.      *)
cleanup(f) ==
    /\ follower[f].st = "ended"
    /\ LET k == follower[f].key
       IN  /\ logCancels' = [logCancels EXCEPT ![k] = NoFollower]
           /\ late' = IF logCancels[k] \in {NoFollower, f} THEN late ELSE late \cup {k}
    /\ follower' = [follower EXCEPT ![f] = Free]
    /\ cancelled' = cancelled \ {f}
    /\ UNCHANGED <<rules, ctxDone, pass, bounds>>

-----------------------------------------------------------------------------
(* The surroundings.                                                        *)

Change ==
    /\ changes < MaxChanges /\ changes' = changes + 1
    /\ UNCHANGED <<table, ctxDone, pass, faults>>

ToggleRule(k) ==
    /\ enabled' = IF k \in enabled THEN enabled \ {k} ELSE enabled \cup {k}
    /\ Change /\ UNCHANGED <<running, version>>

EditRule(k) ==
    /\ version[k] < MaxChanges
    /\ version' = [version EXCEPT ![k] = @ + 1]
    /\ Change /\ UNCHANGED <<enabled, running>>

ContainerChanges(k) ==
    /\ running' = IF k \in running THEN running \ {k} ELSE running \cup {k}
    /\ Change /\ UNCHANGED <<enabled, version>>

Shutdown ==
    /\ ~ctxDone /\ ctxDone' = TRUE
    /\ UNCHANGED <<rules, table, pass, bounds>>

Done ==
    /\ pass.pc = "stopped" /\ \A f \in Followers : ~Live(f)
    /\ UNCHANGED vars

Next ==
    \/ Reconcile
    \/ \E f \in Followers : StreamReturns(f) \/ cleanup(f)
    \/ \E k \in Keys : ToggleRule(k) \/ EditRule(k) \/ ContainerChanges(k)
    \/ Shutdown \/ Done

Spec == Init /\ [][Next]_vars

(* The ticker drives pass after pass; a cancelled stream, or that of a      *)
(* stopped container, returns; a goroutine runs its deferred cleanup.       *)
Fairness ==
    /\ WF_vars(ReadRules /\ pass'.pc = "walk")
    /\ WF_vars(\E h \in Hosts : ListHost(h))
    /\ WF_vars(StopUnwanted) /\ WF_vars(stopAllFollowers)
    /\ WF_vars(\E k \in Keys : ensureFollower(k))
    /\ \A f \in Followers :
         /\ WF_vars((Stopped(f) \/ follower[f].key \notin running) /\ StreamReturns(f))
         /\ WF_vars(cleanup(f))

FairSpec == Spec /\ Fairness

-----------------------------------------------------------------------------
(* Properties.                                                              *)

Follows(f, k) == follower[f].st = "streaming" /\ follower[f].key = k /\ ~Stopped(f)
Wanted(k) == k \in enabled /\ k \in running

(***************************************************************************)
(* An entry of the table never outlives its follower, which would keep     *)
(* ensureFollower from ever starting another, whatever the order of        *)
(* cancels, cleanups and restarts.                                         *)
(***************************************************************************)
EntryIsAlive ==
    \A k \in Keys : logCancels[k] # NoFollower =>
        /\ follower[logCancels[k]].st # "free"
        /\ follower[logCancels[k]].key = k

(***************************************************************************)
(* A follower nobody cancelled is the one its key's entry can cancel,      *)
(* except where a late cleanup took that entry away: duplicates and        *)
(* unreachable followers have no other source.                             *)
(***************************************************************************)
OrphansAreLate ==
    \A f \in Followers : Live(f) /\ f \notin cancelled =>
        logCancels[follower[f].key] = f \/ follower[f].key \in late

(***************************************************************************)
(* The table and the goroutines agree, but for what a late cleanup took.   *)
(***************************************************************************)
FollowersOwned == EntryIsAlive /\ OrphansAreLate

(***************************************************************************)
(* A key that stays wanted is followed again and again, through passes     *)
(* that fail, streams that end and cleanups that come late.                *)
(***************************************************************************)
WantedIsFollowed ==
    \A k \in Keys :
        []<>(~Wanted(k) \/ ctxDone \/ \E f \in Followers : Follows(f, k))

(***************************************************************************)
(* When the monitor's context ends every follower ends, the unreachable    *)
(* ones too (a context that is done stays done).                           *)
(***************************************************************************)
ShutdownEndsAll == []<>(~ctxDone \/ \A f \in Followers : ~Live(f))

(***************************************************************************)
(* monitor.go:972: "Stop followers no longer wanted."  A key whose rule is *)
(* disabled for good is in the end not followed.                           *)
(***************************************************************************)
UnwantedStops ==
    \A k \in Keys : <>[](k \notin enabled) => <>[](\A f \in Followers : ~Follows(f, k))

(***************************************************************************)
(* docs/alerts.md:47: "Rules can be created, edited, enabled/disabled".    *)
(* A follower in the end uses the rule as it was last saved.               *)
(***************************************************************************)
EditTakesEffect ==
    \A k \in Keys :
        []<>(~Wanted(k) \/ ctxDone \/ \A f \in Followers : Follows(f, k)
                => follower[f].ver = version[k])

=============================================================================
