---------------------------- MODULE ImageUpdates ----------------------------
(* The image update poller for one project (api/image_update_poller.go,      *)
(* store/project_image_updates.go, and monitor.go's NotifySystem).  A poll   *)
(* takes a preview of the services, reads what was last notified, clears     *)
(* what is resolved and notifies what is new, one service at a time; every   *)
(* statement of it can fail, and the services go on changing meanwhile.      *)
EXTENDS Naturals

CONSTANTS
    Services,    \* services of the project
    Digests,     \* digests an image can have
    MaxMoves,    \* bound: deploys and pushes
    MaxFaults    \* bound: statements that fail

VARIABLES
    running,     \* digest each service runs
    registry,    \* digest its tag has in the registry
    stored,      \* project_image_update_state: service -> digest, or Absent
    poll,        \* the poll under way: [pc, drift, confirmed, last, todo, at], and (history)
                 \* same, the services that had no drift when the preview was taken
    moves, faults,
    told,        \* history: digest last told of since the service was last seen resolved
    faulty,      \* history: services whose bookkeeping met a fault
    again,       \* history: services told of one digest twice running
    missed       \* history: services whose new drift a finished poll kept quiet about

ivars == <<running, registry, stored, poll, moves, faults, told, faulty, again, missed>>

Absent == "absent"
Cleared == "cleared"
NoDrift == "nodrift"
Between == [pc |-> "idle"]
PollTo(to) == poll' = to

Init ==
    /\ running \in [Services -> Digests] /\ registry = running
    /\ stored = [s \in Services |-> Absent]
    /\ poll = Between
    /\ moves = 0 /\ faults = 0
    /\ told = [s \in Services |-> NoDrift]
    /\ faulty = {} /\ again = {} /\ missed = {}

(* A statement fails, or not.                                                *)
Ok(ok) == (ok \/ faults < MaxFaults) /\ faults' = IF ok THEN faults ELSE faults + 1
Blame(ok, ss) == faulty' = IF ok THEN faulty ELSE faulty \cup ss

-----------------------------------------------------------------------------
(* The image of a service is pushed, or the service deployed from the tag or *)
(* rolled back.                                                              *)
Push(s, d) ==
    /\ moves < MaxMoves /\ moves' = moves + 1
    /\ d # registry[s]
    /\ registry' = [registry EXCEPT ![s] = d]
    /\ UNCHANGED <<running, stored, poll, faults, told, faulty, again, missed>>

Deploy(s, d) ==
    /\ moves < MaxMoves /\ moves' = moves + 1
    /\ d # running[s]
    /\ running' = [running EXCEPT ![s] = d]
    /\ UNCHANGED <<registry, stored, poll, faults, told, faulty, again, missed>>

(* AugmentDigestDriftChecked taking a failed lookup for "no drift".          *)
ConfirmedUnlessDrift(answered) == {s \in Services : ~(s \in answered /\ registry[s] # running[s])}

(* AugmentDigestDriftChecked: both digests resolved, and equal.              *)
ConfirmedUnchanged(answered) == {s \in answered : registry[s] = running[s]}

(* buildProjectImagePreviewChecked: answered are the services whose digests  *)
(* the registry and the daemon both gave.                                    *)
Preview(answered) ==
    /\ poll = Between
    /\ PollTo([pc |-> "last",
               drift |-> [s \in Services |-> IF s \in answered /\ registry[s] # running[s]
                                             THEN registry[s] ELSE NoDrift],
               confirmed |-> ConfirmedUnchanged(answered),
               same |-> {s \in answered : registry[s] = running[s]}])
    /\ UNCHANGED <<running, registry, stored, moves, faults, told, faulty, again, missed>>

(* LastNotifiedImageDigests; an error reads as nothing notified yet.         *)
ReadLast(ok) ==
    /\ poll.pc = "last"
    /\ Ok(ok) /\ Blame(ok, Services)
    /\ PollTo([pc |-> "clear", drift |-> poll.drift, confirmed |-> poll.confirmed, same |-> poll.same,
               last |-> IF ok THEN stored ELSE [s \in Services |-> Absent],
               todo |-> poll.confirmed])
    /\ UNCHANGED <<running, registry, stored, moves, told, again, missed>>

(* A resolved service with a row gets it cleared.                            *)
Clears(s) == poll.last[s] # Absent

(* The loop that clears dedup state; its error is not looked at.             *)
Clear(s, ok) ==
    /\ poll.pc = "clear" /\ s \in poll.todo
    /\ IF Clears(s)
       THEN /\ Ok(ok) /\ Blame(ok, {s})
            /\ stored' = IF ok THEN [stored EXCEPT ![s] = Cleared] ELSE stored
       ELSE ok /\ UNCHANGED <<stored, faults, faulty>>
    /\ told' = IF s \in poll.same THEN [told EXCEPT ![s] = NoDrift] ELSE told
    /\ PollTo([poll EXCEPT !.todo = @ \ {s}])
    /\ UNCHANGED <<running, registry, moves, again, missed>>

(* imageUpdatesToNotify: the drift differs from what was last notified.      *)
ToNotify(s) == poll.drift[s] # NoDrift /\ poll.last[s] # poll.drift[s]

(* The clearing is done; the notifications follow.                           *)
Cleared2Notify ==
    /\ poll.pc = "clear" /\ poll.todo = {}
    /\ PollTo([poll EXCEPT !.pc = "notify", !.todo = {s \in Services : ToNotify(s)}])
    /\ missed' = missed \cup {s \in Services : /\ poll.drift[s] # NoDrift /\ ~ToNotify(s)
                                              /\ poll.drift[s] # told[s]}
    /\ UNCHANGED <<running, registry, stored, moves, faults, told, faulty, again>>

(* A digest is marked only once its event is in the alert log.               *)
Marks(recorded) == recorded

(* NotifySystem: the event is in the alert log, or it is not and the poller  *)
(* goes on to the next service.                                              *)
Notify(s, recorded) ==
    /\ poll.pc = "notify" /\ s \in poll.todo
    /\ Ok(recorded)
    /\ told' = IF recorded THEN [told EXCEPT ![s] = poll.drift[s]] ELSE told
    /\ again' = IF recorded /\ poll.drift[s] = told[s] THEN again \cup {s} ELSE again
    /\ PollTo(IF Marks(recorded)
              THEN [pc |-> "mark", drift |-> poll.drift, confirmed |-> poll.confirmed, same |-> poll.same,
                    last |-> poll.last, todo |-> poll.todo \ {s}, at |-> s]
              ELSE [poll EXCEPT !.todo = @ \ {s}])
    /\ UNCHANGED <<running, registry, stored, moves, faulty, missed>>

(* SetLastNotifiedImageDigest.                                               *)
SetLastNotified(ok) ==
    /\ poll.pc = "mark"
    /\ Ok(ok) /\ Blame(ok, {poll.at})
    /\ stored' = IF ok THEN [stored EXCEPT ![poll.at] = poll.drift[poll.at]] ELSE stored
    /\ PollTo([pc |-> "notify", drift |-> poll.drift, confirmed |-> poll.confirmed, same |-> poll.same,
               last |-> poll.last, todo |-> poll.todo])
    /\ UNCHANGED <<running, registry, moves, told, again, missed>>

EndPoll ==
    /\ poll.pc = "notify" /\ poll.todo = {}
    /\ PollTo(Between)
    /\ UNCHANGED <<running, registry, stored, moves, faults, told, faulty, again, missed>>

(* The process dies in the middle of a poll and starts again.                *)
Restart ==
    /\ poll # Between
    /\ PollTo(Between)
    /\ faulty' = IF poll.pc = "mark" THEN faulty \cup {poll.at} ELSE faulty
    /\ UNCHANGED <<running, registry, stored, moves, faults, told, again, missed>>

Step ==
    \/ \E answered \in SUBSET Services : Preview(answered)
    \/ \E ok \in BOOLEAN : ReadLast(ok) \/ SetLastNotified(ok)
    \/ \E s \in Services : \E ok \in BOOLEAN : Clear(s, ok) \/ Notify(s, ok)
    \/ Cleared2Notify \/ EndPoll

Next ==
    \/ \E s \in Services : \E d \in Digests : Push(s, d) \/ Deploy(s, d)
    \/ Step \/ Restart

Spec == Init /\ [][Next]_ivars

-----------------------------------------------------------------------------
(* What the theorems assume of the constants: a digest is none of the marks. *)
BoundsOK == Absent \notin Digests /\ Cleared \notin Digests /\ NoDrift \notin Digests

Drifts == [Services -> Digests \cup {NoDrift}]
Rows == [Services -> Digests \cup {Absent, Cleared}]
Previewed == [pc : {"last"}, drift : Drifts, confirmed : SUBSET Services, same : SUBSET Services]
Telling == [pc : {"clear", "notify"}, drift : Drifts, confirmed : SUBSET Services, same : SUBSET Services,
            last : Rows, todo : SUBSET Services]
Marking == [pc : {"mark"}, drift : Drifts, confirmed : SUBSET Services, same : SUBSET Services,
            last : Rows, todo : SUBSET Services, at : Services]

TypeOK ==
    /\ running \in [Services -> Digests] /\ registry \in [Services -> Digests]
    /\ stored \in Rows /\ told \in Drifts
    /\ poll = Between \/ poll \in Previewed \/ poll \in Telling \/ poll \in Marking
    /\ faulty \subseteq Services /\ again \subseteq Services /\ missed \subseteq Services

(* A drift is told of once: without a failed statement for it and without a  *)
(* restart before its mark, no service is told of the same digest again      *)
(* before it was seen resolved or had moved to another one.                  *)
ToldOnce == again \subseteq faulty

(* A drift is told of at all: a poll that sees a new digest and keeps quiet  *)
(* has told of it since the service was last seen resolved, unless a         *)
(* statement failed (NotifySystem's comment: the notification must not be    *)
(* "permanently and silently" lost).                                         *)
NothingMissed == missed \subseteq faulty

(* An image update is told of, and once.                                     *)
UpdatesAreTold == TypeOK /\ ToldOnce /\ NothingMissed
=============================================================================
