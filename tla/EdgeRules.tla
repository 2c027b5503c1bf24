----------------------------- MODULE EdgeRules -----------------------------
(***************************************************************************)
(* The edge-triggered rules of the alert engine: handleEvent with its      *)
(* restart counting, log lines, and fire with its cooldown                 *)
(* (internal/monitor/monitor.go).                                          *)
(*                                                                         *)
(* A watcher thread handles one container event at a time, rule by rule in *)
(* the order of ListAlertRules.  A log follower has two scanners, stdout   *)
(* and stderr, that call fire on their own (internal/docker/stream.go,     *)
(* demuxLines).  Instants are kept as ages, up to AgeCap.                  *)
(***************************************************************************)
EXTENDS EdgeConfig, FiniteSets, FiniteSetsExt

Threads == Watchers \cup Scanners
Starts == 1..MaxEvents
Keys == RuleIds \X Containers          \* ruleKey
Never == -1
Ages == {Never} \cup 0..AgeCap

VARIABLES
    enabled,    \* the rules that are enabled
    silenced,   \* keys a maintenance window covers
    started,    \* [Starts -> container or none]: the starts that happened
    age,        \* [Starts -> age]
    restarts,   \* m.restarts: [Containers -> starts remembered]
    cooldowns,  \* m.cooldowns: [Keys -> age of the last firing]
    thread,     \* [Threads -> where it is]
    told        \* observer: [Keys -> age of the last delivered firing]

clocks == <<started, age, restarts>>
vars == <<enabled, silenced, clocks, cooldowns, thread, told>>

NoContainer == "none"
NoRule == -1
Idle == [pc |-> "idle", cont |-> NoContainer, action |-> "none", todo |-> {},
         rule |-> NoRule, n |-> 0]

TypeOK ==
    /\ enabled \subseteq RuleIds
    /\ silenced \subseteq Keys
    /\ started \in [Starts -> Containers \cup {NoContainer}]
    /\ age \in [Starts -> 0..AgeCap]
    /\ restarts \in [Containers -> SUBSET Starts]
    /\ \A c \in Containers, e \in Starts : e \in restarts[c] => started[e] = c
    /\ cooldowns \in [Keys -> Ages]
    /\ told \in [Keys -> Ages]
    /\ thread \in [Threads ->
         [pc : {"idle", "rules", "counted", "fire", "emit", "store"},
          cont : Containers \cup {NoContainer}, action : Actions \cup {"none", "line"},
          todo : SUBSET RuleIds, rule : RuleIds \cup {NoRule}, n : 0..MaxEvents]]

Init ==
    /\ enabled = RuleIds
    /\ silenced = {}
    /\ started = [e \in Starts |-> NoContainer]
    /\ age = [e \in Starts |-> 0]
    /\ restarts = [c \in Containers |-> {}]
    /\ cooldowns = [k \in Keys |-> Never]
    /\ thread = [t \in Threads |-> Idle]
    /\ told = [k \in Keys |-> Never]

Key(t) == <<thread[t].rule, thread[t].cont>>

-----------------------------------------------------------------------------
(* Container events.                                                        *)

(* Mutant: retention one step too short.                                    *)
RecordRestartShort(c, e) ==
    /\ started' = [started EXCEPT ![e] = c]
    /\ age' = [age EXCEPT ![e] = 0]
    /\ restarts' = [restarts EXCEPT ![c] = {s \in @ : age[s] + 1 < Retention} \cup {e}]

(* recordRestart: forget what is older than Retention, add this start.      *)
recordRestart(c, e) ==
    /\ started' = [started EXCEPT ![e] = c]
    /\ age' = [age EXCEPT ![e] = 0]
    /\ restarts' = [restarts EXCEPT ![c] = {s \in @ : age[s] < Retention} \cup {e}]

FreshStarts == {e \in Starts : started[e] = NoContainer}

(* The rules of the list that concern event a of container c.               *)
Concerned(c, a) ==
    {r \in enabled :
        /\ c \in Rule[r].containers
        /\ \/ Rule[r].type = "state" /\ a \in Rule[r].events
           \/ Rule[r].type = "restart" /\ a \in StartActions}

handleEvent(t, c, a) ==
    /\ thread[t] = Idle /\ WatcherOf[c] = t
    /\ IF a \in StartActions
       THEN FreshStarts # {} /\ recordRestart(c, Min(FreshStarts))
       ELSE UNCHANGED clocks
    /\ \E listed \in {{}, Concerned(c, a)} :    \* {}: ListAlertRules failed
         thread' = [thread EXCEPT ![t] =
           [Idle EXCEPT !.pc = "rules", !.cont = c, !.action = a, !.todo = listed]]
    /\ UNCHANGED <<enabled, silenced, cooldowns, told>>

Within(c, w) == {s \in restarts[c] : age[s] < w}

(* The loop over the rules; restartCount also forgets what its window lost. *)
NextRule(t) ==
    LET th == thread[t]
        r == Min(th.todo)
    IN  /\ th.pc = "rules" /\ th.todo # {}
        /\ \/ /\ Rule[r].type = "state"
              /\ thread' = [thread EXCEPT ![t].pc = "fire", ![t].rule = r, ![t].todo = @ \ {r}]
              /\ UNCHANGED restarts
           \/ /\ Rule[r].type = "restart"
              /\ restarts' = [restarts EXCEPT ![th.cont] = Within(th.cont, Rule[r].window)]
              /\ thread' = [thread EXCEPT ![t].pc = "counted", ![t].rule = r,
                              ![t].todo = @ \ {r},
                              ![t].n = Cardinality(Within(th.cont, Rule[r].window))]
        /\ UNCHANGED <<enabled, silenced, started, age, cooldowns, told>>

Decide(t) ==
    /\ thread[t].pc = "counted"
    /\ thread' = [thread EXCEPT ![t].n = 0, ![t].pc =
                    IF thread[t].n >= Rule[thread[t].rule].count THEN "fire" ELSE "rules"]
    /\ UNCHANGED <<enabled, silenced, clocks, cooldowns, told>>

EventDone(t) ==
    /\ thread[t].pc = "rules" /\ thread[t].todo = {}
    /\ thread' = [thread EXCEPT ![t] = Idle]
    /\ UNCHANGED <<enabled, silenced, clocks, cooldowns, told>>

(* A line that matches a log rule, read by one of the follower's scanners.  *)
(* The follower holds the rule it was started with, enabled or not.         *)
LogLine(t, r, c) ==
    /\ thread[t] = Idle
    /\ Rule[r].type = "log" /\ c \in Rule[r].containers
    /\ thread' = [thread EXCEPT ![t] =
         [Idle EXCEPT !.pc = "fire", !.cont = c, !.action = "line", !.rule = r]]
    /\ UNCHANGED <<enabled, silenced, clocks, cooldowns, told>>

-----------------------------------------------------------------------------
(* fire.                                                                    *)

Return(t) == [thread EXCEPT ![t].pc = "rules", ![t].rule = NoRule]

Cooling(k) == cooldowns[k] # Never /\ cooldowns[k] < Rule[k[1]].cooldown

FireCheck(t) ==
    /\ thread[t].pc = "fire"
    /\ thread' = IF Cooling(Key(t)) THEN Return(t) ELSE [thread EXCEPT ![t].pc = "emit"]
    /\ UNCHANGED <<enabled, silenced, clocks, cooldowns, told>>

(* Mutant: a suppressed emit is followed by cooldowns.Store as well.        *)
FireEmitAlwaysStores(t) ==
    /\ thread[t].pc = "emit"
    /\ thread' = [thread EXCEPT ![t].pc = "store"]
    /\ told' = IF Key(t) \in silenced THEN told ELSE [told EXCEPT ![Key(t)] = 0]
    /\ UNCHANGED <<enabled, silenced, clocks, cooldowns>>

(* emit: a window suppresses the delivery, and then fire keeps the cooldown.*)
FireEmit(t) ==
    /\ thread[t].pc = "emit"
    /\ \/ /\ Key(t) \in silenced
          /\ thread' = Return(t)
          /\ UNCHANGED told
       \/ /\ Key(t) \notin silenced
          /\ thread' = [thread EXCEPT ![t].pc = "store"]
          /\ told' = [told EXCEPT ![Key(t)] = 0]
    /\ UNCHANGED <<enabled, silenced, clocks, cooldowns>>

FireStore(t) ==
    /\ thread[t].pc = "store"
    /\ cooldowns' = [cooldowns EXCEPT ![Key(t)] = 0]
    /\ thread' = Return(t)
    /\ UNCHANGED <<enabled, silenced, clocks, told>>

-----------------------------------------------------------------------------
(* The surroundings.                                                        *)

ToggleRule(r) ==
    /\ enabled' = IF r \in enabled THEN enabled \ {r} ELSE enabled \cup {r}
    /\ UNCHANGED <<silenced, clocks, cooldowns, thread, told>>

WindowChanges(k) ==
    /\ silenced' = IF k \in silenced THEN silenced \ {k} ELSE silenced \cup {k}
    /\ UNCHANGED <<enabled, clocks, cooldowns, thread, told>>

Older(a) == IF a = Never THEN Never ELSE IF a < AgeCap THEN a + 1 ELSE AgeCap

(* Nothing but a call return lies between a delivery and cooldowns.Store.   *)
Tick ==
    /\ \A t \in Threads : thread[t].pc # "store"
    /\ age' = [e \in Starts |-> IF started[e] = NoContainer THEN 0 ELSE Older(age[e])]
    /\ cooldowns' = [k \in Keys |-> Older(cooldowns[k])]
    /\ told' = [k \in Keys |-> Older(told[k])]
    /\ UNCHANGED <<enabled, silenced, started, restarts, thread>>

ThreadStep(t) ==
    \/ NextRule(t) \/ Decide(t) \/ EventDone(t)
    \/ FireCheck(t) \/ FireEmit(t) \/ FireStore(t)

Next ==
    \/ \E t \in Watchers, c \in Containers, a \in Actions : handleEvent(t, c, a)
    \/ \E t \in Scanners, r \in RuleIds, c \in Containers : LogLine(t, r, c)
    \/ \E t \in Threads : ThreadStep(t)
    \/ \E r \in RuleIds : ToggleRule(r)
    \/ \E k \in Keys : WindowChanges(k)
    \/ Tick

Spec == Init /\ [][Next]_vars

-----------------------------------------------------------------------------
(* Properties.                                                              *)

Counts(t) == thread[t].pc = "rules" /\ thread'[t].pc = "counted"
Delivers(t) == thread[t].pc = "emit" /\ thread'[t].pc = "store"
Drops(t) == thread[t].pc = "fire" /\ thread'[t].pc = "rules"

(* The starts of container c that lie within the last w.                    *)
Truly(c, w) == {e \in Starts : started[e] = c /\ age[e] < w}

(* Every other restart rule that may look at c has a window as long.        *)
Shortest(r, c) ==
    \A q \in RuleIds : Rule[q].type = "restart" /\ c \in Rule[q].containers
        => Rule[q].window >= Rule[r].window

(***************************************************************************)
(* restartCount and recordRestart prune the same list, for every rule and  *)
(* every start: the rule with the shortest window still sees exactly the   *)
(* starts of its window, no start lost and none counted twice.             *)
(***************************************************************************)
ShortestCountsExactly ==
    \A t \in Threads :
        LET r == thread'[t].rule
            c == thread[t].cont
        IN  /\ Counts(t) /\ Shortest(r, c) /\ Rule[r].window <= Retention
            => thread'[t].n = Cardinality(Truly(c, Rule[r].window))
ShortestWindowIsExact == [][ShortestCountsExactly]_vars

(***************************************************************************)
(* A restart rule never claims more starts than happened in its window.    *)
(***************************************************************************)
CountsNoMore ==
    \A t \in Threads : Counts(t) =>
        thread'[t].n <= Cardinality(Truly(thread[t].cont, Rule[thread'[t].rule].window))
NeverOvercounts == [][CountsNoMore]_vars

(***************************************************************************)
(* fire drops an event only when somebody was told within the cooldown:    *)
(* a firing a window suppressed does not silence the next one.             *)
(***************************************************************************)
DropsOnlyTold ==
    \A t \in Threads : Drops(t) =>
        told[Key(t)] # Never /\ told[Key(t)] < Rule[Key(t)[1]].cooldown
DropMeansTold == [][DropsOnlyTold]_vars

(***************************************************************************)
(* For state and restart rules, whose events one thread handles, two       *)
(* deliveries of a rule for a container are at least the cooldown apart.   *)
(***************************************************************************)
EventsKeepCooldown ==
    \A t \in Watchers : Delivers(t) =>
        told[Key(t)] = Never \/ told[Key(t)] >= Rule[Key(t)[1]].cooldown
EventCooldownKept == [][EventsKeepCooldown]_vars

(***************************************************************************)
(* docs/alerts.md:24: "Cooldown keeps a noisy container from sending one   *)
(* alert per line."  Two deliveries of a log rule for a container are at   *)
(* least the cooldown apart.                                               *)
(***************************************************************************)
LogCooldownKept ==
    [][\A t \in Scanners : Delivers(t) =>
          told[Key(t)] = Never \/ told[Key(t)] >= Rule[Key(t)[1]].cooldown]_vars

(***************************************************************************)
(* docs/alerts.md:65: "A container restarts too often within a window".    *)
(* Every restart rule counts the starts of its own window.                 *)
(***************************************************************************)
EveryWindowIsExact ==
    [][\A t \in Threads : Counts(t) =>
          thread'[t].n = Cardinality(Truly(thread[t].cont, Rule[thread'[t].rule].window))]_vars

=============================================================================
