------------------------ MODULE MaintenanceWindows ------------------------
(***************************************************************************)
(* The life of a maintenance window: the create, update, end and delete    *)
(* handlers (internal/api/maintenance_handlers.go) over the                *)
(* maintenance_windows rows (internal/store/maintenance.go), the silence a *)
(* deploy opens, and the loop that logs windows coming and going           *)
(* (internal/monitor/maintenance_log.go).                                  *)
(*                                                                         *)
(* Update, end and delete load the row, check it, and write in a second    *)
(* statement; other requests and the clock run in between.  Whether the    *)
(* caller's grant covers the hosts is left to the environment: a refused   *)
(* request changes nothing.                                                *)
(***************************************************************************)
EXTENDS RecurringSpan, FiniteSets

CONSTANTS
    Ids,         \* window ids, in the order AUTOINCREMENT hands them out
    Handlers,    \* concurrent requests
    Bodies,      \* request bodies, valid or not
    Grace,       \* DeploySilenceGrace, 0 disables it
    MaxRestarts  \* bound on process restarts

ASSUME IdsAssumption == Ids \subseteq Nat
ASSUME BodiesAssumption == Bodies \subseteq Windows /\ \A b \in Bodies : ~b.ended
ASSUME WindowBounds == Grace \in Nat /\ MaxRestarts \in Nat

VARIABLES
    now,        \* the clock
    rows,       \* maintenance_windows: a function id -> Windows
    nextId,     \* ids handed out so far (AUTOINCREMENT never reuses one)
    req,        \* [Handlers -> request in flight]
    known,      \* what the log loop saw active: a function id -> span (memory)
    first,      \* the log loop has not completed a pass yet
    restarts,
    endedIds    \* observer: ids an operator was told are ended

windowVars == <<now, rows, nextId, req, known, first, restarts, endedIds>>

Idle == [op |-> "idle"]
None == [x \in {} |-> x]

Requests ==
    {Idle} \cup [op : {"update"}, id : Ids, body : Bodies]
           \cup [op : {"end", "delete"}, id : Ids]

WindowsTypeOK ==
    /\ now \in Instants
    /\ DOMAIN rows \subseteq Ids
    /\ \A i \in DOMAIN rows : rows[i] \in Windows
    /\ nextId \in Nat
    /\ \A i \in DOMAIN rows : i < nextId
    /\ req \in [Handlers -> Requests]
    /\ DOMAIN known \subseteq Ids
    /\ first \in BOOLEAN
    /\ restarts \in 0..MaxRestarts
    /\ endedIds \subseteq Ids

WindowsInit ==
    /\ now = 0
    /\ rows = None
    /\ nextId = 1
    /\ req = [h \in Handlers |-> Idle]
    /\ known = None
    /\ first = TRUE
    /\ restarts = 0
    /\ endedIds = {}

(* The ids whose window covers instant t.                                   *)
ActiveIds(t) == {i \in DOMAIN rows : Active(rows[i], t)}

-----------------------------------------------------------------------------
(* validateMaintenanceWindow, as far as the schedule goes.                  *)
validateMaintenanceWindow(b) ==
    IF b.recurring
    THEN /\ b.days # {}
         /\ b.tod < DayUnits              \* time.Parse("15:04")
         /\ 0 < b.duration /\ b.duration <= DayUnits
         /\ b.ends # NoEnd => b.ends > b.starts
    ELSE b.ends > b.starts

(* CreateMaintenanceWindow                                                  *)
Insert(w) ==
    /\ nextId \in Ids
    /\ rows' = [i \in DOMAIN rows \cup {nextId} |-> IF i = nextId THEN w ELSE rows[i]]
    /\ nextId' = nextId + 1

handleCreateMaintenanceWindow(b) ==
    /\ validateMaintenanceWindow(b)
    /\ Insert(b)
    /\ UNCHANGED <<now, req, known, first, restarts, endedIds>>

(* A successful deploy silences its project for the grace period.           *)
autoSilenceForDeploy ==
    /\ Grace > 0
    /\ Insert([recurring |-> FALSE, starts |-> now, ends |-> now + Grace,
               days |-> {}, tod |-> 0, duration |-> 0, ended |-> FALSE])
    /\ UNCHANGED <<now, req, known, first, restarts, endedIds>>

(* The first half of each handler: decode, load the row, check it.          *)
UpdateChecks(h, i, b) ==
    /\ req[h] = Idle
    /\ validateMaintenanceWindow(b)
    /\ i \in DOMAIN rows
    /\ ~Closed(rows[i], now)
    /\ req' = [req EXCEPT ![h] = [op |-> "update", id |-> i, body |-> b]]
    /\ UNCHANGED <<now, rows, nextId, known, first, restarts, endedIds>>

EndChecks(h, i) ==
    /\ req[h] = Idle
    /\ i \in DOMAIN rows
    /\ req' = [req EXCEPT ![h] = [op |-> "end", id |-> i]]
    /\ UNCHANGED <<now, rows, nextId, known, first, restarts, endedIds>>

(* Only a plan or a closed window may go.                                   *)
Deletable(w, t) == t < w.starts \/ Closed(w, t)

DeleteChecks(h, i) ==
    /\ req[h] = Idle
    /\ i \in DOMAIN rows
    /\ Deletable(rows[i], now)
    /\ req' = [req EXCEPT ![h] = [op |-> "delete", id |-> i]]
    /\ UNCHANGED <<now, rows, nextId, known, first, restarts, endedIds>>

(* Mutant: the update writes the whole row, the ended flag included.        *)
UpdatedWhole(w, b) == b

(* UpdateMaintenanceWindow's SET list: everything but ended.                *)
Updated(w, b) == [b EXCEPT !.ended = w.ended]

UpdateWrites(h) ==
    /\ req[h].op = "update"
    /\ LET i == req[h].id IN
         rows' = IF i \in DOMAIN rows
                 THEN [rows EXCEPT ![i] = Updated(@, req[h].body)]
                 ELSE rows
    /\ req' = [req EXCEPT ![h] = Idle]
    /\ UNCHANGED <<now, nextId, known, first, restarts, endedIds>>

EndWrites(h) ==
    /\ req[h].op = "end"
    /\ LET i == req[h].id IN
         IF i \in DOMAIN rows
         THEN /\ rows' = [rows EXCEPT ![i].ended = TRUE]
              /\ endedIds' = endedIds \cup {i}
         ELSE UNCHANGED <<rows, endedIds>>
    /\ req' = [req EXCEPT ![h] = Idle]
    /\ UNCHANGED <<now, nextId, known, first, restarts>>

DeleteWrites(h) ==
    /\ req[h].op = "delete"
    /\ rows' = [i \in DOMAIN rows \ {req[h].id} |-> rows[i]]
    /\ req' = [req EXCEPT ![h] = Idle]
    /\ UNCHANGED <<now, nextId, known, first, restarts, endedIds>>

-----------------------------------------------------------------------------
(* maintenanceLogLoop.                                                      *)

(* activeCandidateMaintenanceWindows: ended = 0 AND (recurring OR ends > t) *)
candidate(w, t) == ~w.ended /\ (w.recurring \/ w.ends > t)

(* MaintenanceWindowsForLog, then logMaintenanceTransitions: the new set.   *)
Fetched == {i \in DOMAIN rows : candidate(rows[i], now) \/ i \in DOMAIN known}

SeenActive == {i \in Fetched : Active(rows[i], now)}

LogPass ==
    /\ known' = [i \in SeenActive |-> ActiveSpan(rows[i], now)]
    /\ first' = FALSE
    /\ UNCHANGED <<now, rows, nextId, req, restarts, endedIds>>

(* FindActiveMaintenanceWindow: what silences alerts now.                   *)
Silencing(t) == {i \in DOMAIN rows : candidate(rows[i], t) /\ Active(rows[i], t)}

Tick ==
    /\ now + 1 \in Instants
    /\ now' = now + 1
    /\ UNCHANGED <<rows, nextId, req, known, first, restarts, endedIds>>

(* Requests in flight are lost; the rows are not.                           *)
Restart ==
    /\ restarts < MaxRestarts
    /\ restarts' = restarts + 1
    /\ req' = [h \in Handlers |-> Idle]
    /\ known' = None
    /\ first' = TRUE
    /\ UNCHANGED <<now, rows, nextId, endedIds>>

WindowsNext ==
    \/ \E b \in Bodies : handleCreateMaintenanceWindow(b)
    \/ autoSilenceForDeploy
    \/ \E h \in Handlers, i \in Ids :
          \/ \E b \in Bodies : UpdateChecks(h, i, b)
          \/ EndChecks(h, i)
          \/ DeleteChecks(h, i)
    \/ \E h \in Handlers : UpdateWrites(h) \/ EndWrites(h) \/ DeleteWrites(h)
    \/ LogPass
    \/ Tick
    \/ Restart

WindowsSpec == WindowsInit /\ [][WindowsNext]_windowVars

(* The log loop is a ticker of its own with a bounded query.                *)
WindowsFairSpec == WindowsSpec /\ WF_windowVars(LogPass)

-----------------------------------------------------------------------------
(* Properties.                                                              *)

(***************************************************************************)
(* Ending a window is final: once the end handler has written, no update   *)
(* that was in flight, and no edit that follows, lets it silence again.    *)
(***************************************************************************)
EndedStaysEnded == \A i \in endedIds : i \notin Silencing(now)

(***************************************************************************)
(* The cheap SQL filter loses nothing: whatever covers this instant is     *)
(* among the rows emit and the log loop look at.                           *)
(***************************************************************************)
FilterLosesNothing == Silencing(now) = ActiveIds(now)

(***************************************************************************)
(* A recurring window silences only inside an occurrence of its schedule.  *)
(***************************************************************************)
SilenceOnlyScheduled ==
    \A i \in DOMAIN rows :
        rows[i].recurring /\ Active(rows[i], now) => InSomeOccurrence(rows[i], now)

(***************************************************************************)
(* An occurrence silences all of its span, on every day that does not      *)
(* follow a day shortened by a change of clocks.                           *)
(***************************************************************************)
OccurrenceIsSilent ==
    \A i \in DOMAIN rows :
        LET w == rows[i] IN
        /\ w.recurring /\ ~w.ended /\ InSomeOccurrence(w, now)
        /\ \A d \in Days : d = DayOf(now) - 1 => DayLen[d] >= DayUnits
        => Active(w, now)

(***************************************************************************)
(* What the log announced as active is eventually reported over, once it   *)
(* is over for good; and what stays active is eventually announced.        *)
(***************************************************************************)
LogCatchesUp ==
    \A i \in Ids :
        /\ <>[](i \notin ActiveIds(now)) => <>[](i \notin DOMAIN known)
        /\ <>[](i \in ActiveIds(now)) => <>[](i \in DOMAIN known)

(***************************************************************************)
(* internal/store/maintenance.go:63, Closed: "A closed window is history - *)
(* it can be read and deleted but not edited, since changing it would      *)
(* rewrite a record of what was silenced."                                 *)
(***************************************************************************)
ClosedIsHistory ==
    [][\A i \in DOMAIN rows : Closed(rows[i], now) /\ i \in DOMAIN rows'
          => [rows'[i] EXCEPT !.ended = FALSE] = [rows[i] EXCEPT !.ended = FALSE]]_windowVars

(***************************************************************************)
(* handleDeleteMaintenanceWindow: "A window that is running is ended       *)
(* first: deleting it would silence alerts and then leave no trace that it *)
(* did."  A delete request is not accepted for a window that silences      *)
(* alerts at that moment.                                                  *)
(***************************************************************************)
RunningIsNotDeleted ==
    [][\A h \in Handlers : req[h] = Idle /\ req'[h].op = "delete"
          => req'[h].id \notin Silencing(now)]_windowVars

(***************************************************************************)
(* recurringSpanAt: "any occurrence that could still cover 'now' therefore *)
(* started within the last 24h, which both candidate days together always  *)
(* contain."                                                               *)
(***************************************************************************)
LookbackSuffices ==
    \A i \in DOMAIN rows :
        rows[i].recurring /\ ~rows[i].ended /\ InSomeOccurrence(rows[i], now)
            => Active(rows[i], now)

=============================================================================
