------------------------------- MODULE MCLive -------------------------------
(* What must eventually happen, for TLC: the loops of the monitor and the    *)
(* streams of a socket.  A behaviour is of one of six modules, chosen at the *)
(* start, and the fairness is that of its module.                            *)
EXTENDS LogFollowers, TLC

CONSTANTS Parts, h1, h2, c1, c2, d1, d2

VARIABLES part
VARIABLES
    aWorld, aReachable, aRules, aWindows, aOverSince, aSnapshot, aRows,
    aRowRule, aSeverity, aNotified, aDue, aPhase, aWinners, aSampled,
    aUnmeasured, aTodo, aCleared, aRestarts, aEdits, aLast, aTold, aQuiet,
    aFeedOpen, aUnsaved, aUpAge, aOverNow, aFailedNow
VARIABLES
    dPc, dResult, dEvent, dQueue, dBatch, dCurrent, dStep, dSilenced, dTries,
    dAcks, dQuiet, dReopened, dFaults
VARIABLES
    wNow, wRows, wNextId, wReq, wKnown, wFirst, wRestarts, wEndedIds
VARIABLES
    hTable, hUp, hRound, hHealth, hMap, hWatcher, hStarted, hAlert, hSeen,
    hEdits, hFlips, hFaults
VARIABLES
    sOpen, sRights, sLoaded, sSubs, sGen, sStreams, sReader, sLate, sWrongEnd

-----------------------------------------------------------------------------
OneHost == [k \in Keys |-> "h1"]

(* A host that comes and goes, a rate that cannot always be read.            *)
RateWarning ==
    [metric |-> "netrx_rate", op |-> ">", threshold |-> 0, dwell |-> 1, severity |-> 2,
     cooldown |-> 2, target |-> {c1}]

(* Two days of three units, for the races between requests.                  *)
OneOff(from, to) ==
    [recurring |-> FALSE, starts |-> from, ends |-> to, days |-> {},
     tod |-> 0, duration |-> 0, ended |-> FALSE]
Daily(from, tod, duration) ==
    [recurring |-> TRUE, starts |-> from, ends |-> -1, days |-> {0, 1},
     tod |-> tod, duration |-> duration, ended |-> FALSE]
RaceBodies == {OneOff(1, 3), Daily(1, 1, 3), Daily(2, 0, 2),
               OneOff(2, 2)}

A == INSTANCE AlertConditions WITH
       Hosts <- {h1}, Containers <- {c1}, HostOf <- [c \in {c1} |-> h1],
       Metrics <- {"netrx_rate"}, Levels <- 0..1, RuleIds <- {1},
       Configs <- {RateWarning}, SavedRules <- (1 :> RateWarning),
       Scopes <- {{c1} \X {1} \X (1..3)}, AgeCap <- 2, MaxRestarts <- 0,
       MaxEdits <- 1, world <- aWorld, reachable <- aReachable,
       rules <- aRules, windows <- aWindows, overSince <- aOverSince,
       snapshot <- aSnapshot, rows <- aRows, rowRule <- aRowRule,
       severity <- aSeverity, notified <- aNotified, due <- aDue,
       phase <- aPhase, winners <- aWinners, sampled <- aSampled,
       unmeasured <- aUnmeasured, todo <- aTodo, cleared <- aCleared,
       restarts <- aRestarts, edits <- aEdits, last <- aLast, told <- aTold,
       quiet <- aQuiet, feedOpen <- aFeedOpen, unsaved <- aUnsaved,
       upAge <- aUpAge, overNow <- aOverNow, failedNow <- aFailedNow

D == INSTANCE DeliveryRetry WITH
       Deliveries <- {d1, d2}, MaxRetries <- 2, Base <- 1, MaxGap <- 1,
       Late <- 1, Batch <- 1, MaxFaults <- 0, pc <- dPc, result <- dResult,
       event <- dEvent, queue <- dQueue, batch <- dBatch, current <- dCurrent,
       step <- dStep, silenced <- dSilenced, tries <- dTries, acks <- dAcks,
       quiet <- dQuiet, reopened <- dReopened, faults <- dFaults

W == INSTANCE MaintenanceWindows WITH
       DayLen <- <<3, 3>>, DayUnits <- 3, ChangeAt <- 1, Weekdays <- <<0, 1>>,
       Ids <- {1}, Handlers <- {h1, h2}, Bodies <- RaceBodies, Grace <- 1,
       MaxRestarts <- 1, now <- wNow, rows <- wRows, nextId <- wNextId,
       req <- wReq, known <- wKnown, first <- wFirst, restarts <- wRestarts,
       endedIds <- wEndedIds

H == INSTANCE HostWatch WITH
       Hosts <- {1}, MaxWatchers <- 4, MaxEdits <- 2, MaxFlips <- 0,
       MaxFaults <- 1, MinBackoff <- 2, MaxBackoff <- 3, table <- hTable,
       up <- hUp, round <- hRound, health <- hHealth, map <- hMap,
       watcher <- hWatcher, started <- hStarted, alert <- hAlert,
       seen <- hSeen, edits <- hEdits, flips <- hFlips, faults <- hFaults

S == INSTANCE StreamHub WITH
       Ids <- {c1, c2}, Rights <- {[admin |-> TRUE, granted |-> TRUE]},
       MaxGen <- 2, open <- sOpen, rights <- sRights, loaded <- sLoaded,
       subs <- sSubs, gen <- sGen, streams <- sStreams, reader <- sReader,
       late <- sLate, wrongEnd <- sWrongEnd

avars == <<
    aWorld, aReachable, aRules, aWindows, aOverSince, aSnapshot, aRows,
    aRowRule, aSeverity, aNotified, aDue, aPhase, aWinners, aSampled,
    aUnmeasured, aTodo, aCleared, aRestarts, aEdits, aLast, aTold, aQuiet,
    aFeedOpen, aUnsaved, aUpAge, aOverNow, aFailedNow>>
dvars == <<
    dPc, dResult, dEvent, dQueue, dBatch, dCurrent, dStep, dSilenced, dTries,
    dAcks, dQuiet, dReopened, dFaults>>
wvars == <<
    wNow, wRows, wNextId, wReq, wKnown, wFirst, wRestarts, wEndedIds>>
hvars == <<
    hTable, hUp, hRound, hHealth, hMap, hWatcher, hStarted, hAlert, hSeen,
    hEdits, hFlips, hFaults>>
svars == <<
    sOpen, sRights, sLoaded, sSubs, sGen, sStreams, sReader, sLate, sWrongEnd>>

MCInit == part \in Parts /\ Init /\ A!Init /\ D!Init /\ W!WindowsInit /\ H!Init /\ S!Init
          /\ (part # "followers" => enabled = {} /\ running = {})

MCNext ==
    /\ UNCHANGED part
    /\ \/ part = "followers" /\ Next /\ UNCHANGED <<avars, dvars, wvars, hvars, svars>>
       \/ part = "conditions" /\ A!Next /\ UNCHANGED <<vars, dvars, wvars, hvars, svars>>
       \/ part = "delivery" /\ D!Next /\ UNCHANGED <<vars, avars, wvars, hvars, svars>>
       \/ part = "windows" /\ W!WindowsNext /\ UNCHANGED <<vars, avars, dvars, hvars, svars>>
       \/ part = "watch" /\ H!Next /\ UNCHANGED <<vars, avars, dvars, wvars, svars>>
       \/ part = "streams" /\ S!Next /\ UNCHANGED <<vars, avars, dvars, wvars, hvars>>

(* The fairness of the six modules, each in its own behaviours.              *)
FollowersFair ==
    /\ WF_vars(part = "followers" /\ ReadRules /\ pass'.pc = "walk")
    /\ WF_vars(part = "followers" /\ \E h \in Hosts : ListHost(h))
    /\ WF_vars(part = "followers" /\ StopUnwanted)
    /\ WF_vars(part = "followers" /\ stopAllFollowers)
    /\ WF_vars(part = "followers" /\ \E k \in Keys : ensureFollower(k))
    /\ \A f \in Followers :
         /\ WF_vars(part = "followers" /\ (Stopped(f) \/ follower[f].key \notin running) /\ StreamReturns(f))
         /\ WF_vars(part = "followers" /\ cleanup(f))
ConditionsFair ==
    WF_avars(part = "conditions" /\ A!Tick) /\ WF_avars(part = "conditions" /\ A!StatsLoop)
DeliveryFair ==
    /\ WF_dvars(part = "delivery" /\ D!sweepDeliveryRetries)
    /\ WF_dvars(part = "delivery" /\ D!retryOne)
    /\ WF_dvars(part = "delivery" /\ D!Tick)
WindowsFair == WF_wvars(part = "windows" /\ W!LogPass)
WatchFair ==
    /\ WF_hvars(part = "watch" /\ H!Reconcile(TRUE))
    /\ \A w \in 1..4 :
         /\ WF_hvars(part = "watch" /\ H!Retry(w))
         /\ WF_hvars(part = "watch" /\ hWatcher[w].cancelled /\ \E long \in BOOLEAN : H!StreamEnds(w, long))
StreamsFair ==
    \A g \in 1..2 :
        /\ \A e \in S!AllEmitters :
             /\ WF_svars(part = "streams" /\ S!Write(g, e))
             /\ WF_svars(part = "streams" /\ sStreams[g].cancelled /\ S!EmitterEnds(g, e))
        /\ WF_svars(part = "streams" /\ \E f \in BOOLEAN : S!Return(g, f))
        /\ WF_svars(part = "streams" /\ S!WriteError(g))
        /\ WF_svars(part = "streams" /\ S!Finish(g)) /\ WF_svars(part = "streams" /\ S!WriteEnd(g))

MCSpec ==
    /\ MCInit /\ [][MCNext]_<<part, vars, avars, dvars, wvars, hvars, svars>>
    /\ FollowersFair /\ ConditionsFair /\ DeliveryFair /\ WindowsFair /\ WatchFair /\ StreamsFair

-----------------------------------------------------------------------------
(* A key that stays wanted is followed again and again, and shutdown ends    *)
(* every follower (reconcileLogFollowers, stopAllFollowers).                 *)
FollowersSettle == WantedIsFollowed /\ ShutdownEndsAll

(* Ending a window is final, the SQL filter loses no active window, and the  *)
(* log of windows agrees with the windows in the end (EndMaintenanceWindow,  *)
(* FindActiveMaintenanceWindow, LogPass).                                    *)
WindowsHold ==
    /\ [](part = "windows" => W!WindowsTypeOK /\ W!EndedStaysEnded /\ W!FilterLosesNothing)
    /\ W!LogCatchesUp

(* A lasting condition is delivered once the windows close, a lasting calm   *)
(* is resolved, and what a poll did not see does not move                    *)
(* (evalResourceRules).                                                      *)
ConditionsSettle ==
    A!TroubleIsDelivered /\ A!CalmIsResolved /\ [][A!KeepsBlindRows]_avars

(* Every queued retry leaves the queue (sweepDeliveryRetries).               *)
QueueDrains == D!QueueDrains

(* Every monitored host has a watcher in the end (watchManagerLoop).         *)
WatchersSettle == []<>(part = "watch") => H!WatchersSettle

(* A closed socket ends every stream (closeAll).                             *)
ClosedSocketEndsStreams == S!ClosedSocketEndsStreams

-----------------------------------------------------------------------------
(* What the documentation says and TLC refutes (README, section 6).          *)

(* A closed window is not edited (UpdateMaintenanceWindow).                  *)
ClosedIsHistory == W!ClosedIsHistory

(* A running window is not deleted (handleDeleteMaintenanceWindow).          *)
RunningIsNotDeleted == W!RunningIsNotDeleted
=============================================================================
