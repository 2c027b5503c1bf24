----------------------------- MODULE HostWatch -----------------------------
(* Host reachability and the Docker-event watchers (monitor.go: healthLoop,  *)
(* recordHealth, fireHostAlert, NotifySystem, watchManagerLoop, watchHost,   *)
(* monitoredHosts).  Two loops read the hosts table on their own clocks: the *)
(* health loop pings the hosts of one reading in turn, the watch manager     *)
(* reconciles one watcher goroutine per host.  Both fall back to host 0 when *)
(* the table cannot be read or is empty.                                     *)
EXTENDS Naturals, FiniteSets

CONSTANTS
    Hosts,        \* ids in the hosts table
    MaxWatchers,  \* bound: watchers started
    MaxEdits,     \* bound: changes of the table
    MaxFlips,     \* bound: hosts going down or up
    MaxFaults,    \* bound: readings of the table that fail
    MinBackoff, MaxBackoff

Default == 0
Monitored == Hosts \cup {Default}
Watchers == 1 .. MaxWatchers

VARIABLES
    table,        \* host -> "on", "off" or "gone"
    up,           \* the host answers
    round,        \* hosts of the health round still to ping
    health,       \* Monitor.health: host -> "unknown", "up" or "down"
    map,          \* watchManagerLoop's map: host -> watcher, 0 is none
    watcher,      \* watcher goroutines: [pc, host, cancelled, backoff]
    started,      \* watchers started
    alert,        \* history: host -> last alert: "none", "offline" or "recovered"
    seen,         \* history: host -> every observation recorded
    edits, flips, faults

wvars == <<table, up, round, health, map, watcher, started, alert, seen, edits, flips, faults>>

NoWatcher == [pc |-> "none", host |-> Default, cancelled |-> FALSE, backoff |-> MinBackoff]
On == {h \in Hosts : table[h] = "on"}

Init ==
    /\ table = [h \in Hosts |-> "on"]
    /\ up = [h \in Monitored |-> TRUE]
    /\ round = {}
    /\ health = [h \in Monitored |-> "unknown"]
    /\ map = [h \in Monitored |-> 0]
    /\ watcher = [w \in Watchers |-> NoWatcher]
    /\ started = 0
    /\ alert = [h \in Monitored |-> "none"]
    /\ seen = [h \in Monitored |-> {}]
    /\ edits = 0 /\ flips = 0 /\ faults = 0

(* monitoredHosts: the hosts that are not disabled; host 0 when the table    *)
(* cannot be read or has no rows.                                            *)
MonitoredHosts(ok) ==
    IF ~ok \/ \A h \in Hosts : table[h] = "gone" THEN {Default} ELSE On
Reads(ok) == (ok \/ faults < MaxFaults) /\ faults' = IF ok THEN faults ELSE faults + 1

-----------------------------------------------------------------------------
(* checkAllHosts reads the table for a round.                                *)
StartRound(ok) ==
    /\ round = {}
    /\ Reads(ok)
    /\ round' = MonitoredHosts(ok)
    /\ round' # {}
    /\ UNCHANGED <<table, up, health, map, watcher, started, alert, seen, edits, flips>>

Observed(h) == IF up[h] THEN "up" ELSE "down"

(* recordHealth's transition: seen before, and otherwise.                    *)
Transition(h) == health[h] # "unknown" /\ health[h] # Observed(h)

(* Ping and recordHealth, and fireHostAlert on a transition.                 *)
CheckHost(h) ==
    /\ h \in round
    /\ round' = round \ {h}
    /\ health' = [health EXCEPT ![h] = Observed(h)]
    /\ seen' = [seen EXCEPT ![h] = @ \cup {Observed(h)}]
    /\ alert' = IF Transition(h)
                THEN [alert EXCEPT ![h] = IF up[h] THEN "recovered" ELSE "offline"] ELSE alert
    /\ UNCHANGED <<table, up, map, watcher, started, edits, flips, faults>>

-----------------------------------------------------------------------------
(* The watchers of the hosts in hs, cancelled.                               *)
CancelFor(hs) == {map[h] : h \in hs} \ {0}

(* watchManagerLoop leaving the watchers of removed hosts alone.             *)
UnseenNone(hosts) == {}

(* Hosts with a watcher that this reading does not have.                     *)
Unseen(hosts) == {h \in Monitored : map[h] # 0} \ hosts

(* watchManagerLoop starting a watcher for every host it sees.               *)
NewAlways(hosts) == hosts

(* Hosts without a watcher that it has.                                      *)
New(hosts) == {h \in hosts : map[h] = 0}

(* Watchers numbered for the new hosts.                                      *)
Numbered(new) == CHOOSE f \in [new -> started + 1 .. started + Cardinality(new)] :
                     \A a, b \in new : a # b => f[a] # f[b]

(* One pass of watchManagerLoop.                                             *)
Reconcile(ok) ==
    LET hosts == MonitoredHosts(ok)
        new   == New(hosts)
        num   == Numbered(new)
    IN  /\ new # {} \/ Unseen(hosts) # {}
        /\ started + Cardinality(new) <= MaxWatchers
        /\ Reads(ok)
        /\ started' = started + Cardinality(new)
        /\ map' = [h \in Monitored |-> IF h \in new THEN num[h] ELSE IF h \in Unseen(hosts) THEN 0 ELSE map[h]]
        /\ watcher' = [w \in Watchers |->
                         IF \E h \in new : num[h] = w
                         THEN [NoWatcher EXCEPT !.pc = "watch", !.host = CHOOSE h \in new : num[h] = w]
                         ELSE IF w \in CancelFor(Unseen(hosts)) THEN [watcher[w] EXCEPT !.cancelled = TRUE]
                         ELSE watcher[w]]
        /\ UNCHANGED <<table, up, round, health, alert, seen, edits, flips>>

(* WatchEvents returns: the stream broke after a while (long) or at once.    *)
StreamEnds(w, long) ==
    /\ watcher[w].pc = "watch"
    /\ watcher' = [watcher EXCEPT ![w] =
                     IF watcher[w].cancelled THEN [@ EXCEPT !.pc = "done"]
                     ELSE [@ EXCEPT !.pc = "wait", !.backoff = IF long THEN MinBackoff ELSE watcher[w].backoff]]
    /\ UNCHANGED <<table, up, round, health, map, started, alert, seen, edits, flips, faults>>

(* watchHost's backoff, doubled up to its ceiling.                           *)
Doubled(b) == IF b >= MaxBackoff THEN b ELSE IF 2 * b > MaxBackoff THEN MaxBackoff ELSE 2 * b

(* watchHost waits its backoff out, or its context ends it.                  *)
Retry(w) ==
    /\ watcher[w].pc = "wait"
    /\ watcher' = [watcher EXCEPT ![w] =
                     IF watcher[w].cancelled THEN [@ EXCEPT !.pc = "done"]
                     ELSE [@ EXCEPT !.pc = "watch", !.backoff = Doubled(watcher[w].backoff)]]
    /\ UNCHANGED <<table, up, round, health, map, started, alert, seen, edits, flips, faults>>

-----------------------------------------------------------------------------
(* SetHostDisabled and DeleteHost (CreateHost makes a new id).               *)
EditTable(h, to) ==
    /\ edits < MaxEdits /\ edits' = edits + 1
    /\ table[h] # "gone" /\ table[h] # to
    /\ table' = [table EXCEPT ![h] = to]
    /\ UNCHANGED <<up, round, health, map, watcher, started, alert, seen, flips, faults>>

Flip(h) ==
    /\ flips < MaxFlips /\ flips' = flips + 1
    /\ up' = [up EXCEPT ![h] = ~@]
    /\ UNCHANGED <<table, round, health, map, watcher, started, alert, seen, edits, faults>>

Next ==
    \/ \E ok \in BOOLEAN : StartRound(ok) \/ Reconcile(ok)
    \/ \E h \in Monitored : CheckHost(h) \/ Flip(h)
    \/ \E w \in Watchers : Retry(w) \/ \E long \in BOOLEAN : StreamEnds(w, long)
    \/ \E h \in Hosts : \E to \in {"on", "off", "gone"} : EditTable(h, to)

Spec == Init /\ [][Next]_wvars

(* Tickers fire and goroutines run; a cancelled stream returns.              *)
Fairness ==
    /\ WF_wvars(Reconcile(TRUE))
    /\ \A w \in Watchers : WF_wvars(Retry(w))
                           /\ WF_wvars(watcher[w].cancelled /\ \E long \in BOOLEAN : StreamEnds(w, long))
FairSpec == Spec /\ Fairness

-----------------------------------------------------------------------------
(* What the theorems assume of the constants.                                *)
BoundsOK ==
    /\ IsFiniteSet(Hosts) /\ MaxWatchers \in Nat
    /\ MinBackoff \in Nat \ {0} /\ MaxBackoff \in Nat /\ MinBackoff <= MaxBackoff

TypeOK ==
    /\ table \in [Hosts -> {"on", "off", "gone"}] /\ up \in [Monitored -> BOOLEAN]
    /\ round \subseteq Monitored
    /\ health \in [Monitored -> {"unknown", "up", "down"}]
    /\ map \in [Monitored -> 0 .. started] /\ started \in 0 .. MaxWatchers
    /\ watcher \in [Watchers -> [pc : {"none", "watch", "wait", "done"}, host : Monitored,
                                 cancelled : BOOLEAN, backoff : Nat]]
    /\ alert \in [Monitored -> {"none", "offline", "recovered"}]

(* The last alert about a host says what the API shows for it, and a host    *)
(* that was only ever seen one way has caused none: across rounds that skip  *)
(* it, disabling, and readings that fail (recordHealth).                     *)
AlertMatchesHealth ==
    \A h \in Monitored :
        /\ alert[h] = "offline" => health[h] = "down"
        /\ alert[h] = "recovered" => health[h] = "up"
        /\ alert[h] = "none" <=> Cardinality(seen[h]) <= 1

(* A watcher that nobody cancelled is the one in the map, so a host has one  *)
(* at most and the next pass can stop it; its wait stays within the limits.  *)
WatcherIsOwned ==
    \A w \in Watchers :
        /\ watcher[w].pc \in {"watch", "wait"} /\ ~watcher[w].cancelled => map[watcher[w].host] = w
        /\ watcher[w].backoff \in MinBackoff .. MaxBackoff

(* A host alert says what was last seen of the host, and every watcher that  *)
(* runs is the one the table can cancel (recordHealth, watchManagerLoop).    *)
WatchFollowsHosts == TypeOK /\ AlertMatchesHealth /\ WatcherIsOwned

(* Once the table stops changing every enabled host is watched and no other  *)
(* host is, for as long as passes can still be counted.                      *)
WatchersSettle ==
    <>[](started < MaxWatchers - Cardinality(Hosts) /\ \E h \in Hosts : table[h] # "gone") =>
        <>[](\A h \in Monitored :
                (h \in On) <=> \E w \in Watchers : watcher[w].pc \in {"watch", "wait"}
                                                   /\ watcher[w].host = h)
=============================================================================
