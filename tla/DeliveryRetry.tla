--------------------------- MODULE DeliveryRetry ---------------------------
(***************************************************************************)
(* Delivering an alert event by webhook or e-mail and retrying what failed *)
(* (internal/monitor/webhook.go, email.go, delivery_retry.go and           *)
(* internal/store/delivery_retry.go).                                      *)
(*                                                                         *)
(* A delivery is one event on one channel.  Its first attempt runs in a    *)
(* goroutine of its own: send, record the outcome, queue a retry.  A       *)
(* single sweep then works through the rows of alert_delivery_retries that *)
(* are due, one after the other.  Every store call may fail by itself and  *)
(* the process may stop anywhere; each such fault is counted against the   *)
(* deliveries it touches.                                                  *)
(***************************************************************************)
EXTENDS Integers, FiniteSets, TLC

CONSTANTS
    Deliveries,
    MaxRetries,  \* maxDeliveryRetries
    Base,        \* deliveryRetryBase, in ticks
    MaxGap,      \* deliveryRetryMaxGap
    Batch,       \* retrySweepBatch
    Late,        \* bound on how late the sweep gets to a row that is due
    MaxFaults    \* bound on the faults one delivery meets

ASSUME RetryAssumption ==
    /\ MaxRetries \in Nat \ {0} /\ Base \in Nat \ {0} /\ MaxGap \in Nat \ {0}
    /\ Batch \in Nat \ {0} /\ Late \in Nat /\ MaxFaults \in Nat

VARIABLES
    pc,        \* where the goroutine of the first attempt is
    result,    \* what the last attempt of a delivery came back with
    event,     \* the alert_events row the delivery points at
    queue,     \* alert_delivery_retries: a function delivery -> [attempt, due]
    batch,     \* the rows left of the sweep's snapshot: delivery -> row
    current,   \* the delivery retryOne has in hand
    step,      \* where retryOne is with it; "load" when it has none
    silenced,  \* deliveries an active maintenance window covers
    (* Observers *)
    tries, acks,  \* attempts made, and answered with a success
    quiet,        \* time since the last attempt, up to MaxGap
    reopened,     \* a window opened since retryOne looked for one
    faults

sweep == <<batch, current, step, reopened>>
observers == <<tries, acks, quiet, faults>>
vars == <<pc, result, event, queue, sweep, silenced, observers>>

Results == {"none", "ok", "transient", "permanent"}
Row == [attempt : 0..MaxRetries - 1, due : -Late..MaxGap]

NoRows == [d \in {} |-> d]
Nobody == "nobody"

TypeOK ==
    /\ pc \in [Deliveries -> {"new", "send", "record", "enqueue", "done"}]
    /\ result \in [Deliveries -> Results]
    /\ event \in [Deliveries -> {"stored", "unstored", "purged"}]
    /\ DOMAIN queue \subseteq Deliveries
    /\ \A d \in DOMAIN queue : queue[d] \in Row
    /\ DOMAIN batch \subseteq Deliveries
    /\ \A d \in DOMAIN batch : batch[d] \in Row
    /\ step \in {"load", "check", "send", "record", "finish"}
    /\ step # "load" => current \in DOMAIN batch
    /\ silenced \subseteq Deliveries
    /\ tries \in [Deliveries -> Nat] /\ acks \in [Deliveries -> Nat]
    /\ quiet \in [Deliveries -> 0..MaxGap]
    /\ reopened \in BOOLEAN
    /\ faults \in [Deliveries -> Nat]

Init ==
    /\ pc = [d \in Deliveries |-> "new"]
    /\ result = [d \in Deliveries |-> "none"]
    /\ event = [d \in Deliveries |-> "stored"]
    /\ queue = NoRows
    /\ batch = NoRows /\ current = Nobody /\ step = "load" /\ reopened = FALSE
    /\ silenced = {}
    /\ tries = [d \in Deliveries |-> 0] /\ acks = [d \in Deliveries |-> 0]
    /\ quiet = [d \in Deliveries |-> MaxGap]
    /\ faults = [d \in Deliveries |-> 0]

-----------------------------------------------------------------------------
backoffFor(attempt) ==
    LET d == Base * 2^attempt IN IF d \in 1..MaxGap THEN d ELSE MaxGap

MayFault(d) == faults[d] < MaxFaults
Fault(d) == faults' = [faults EXCEPT ![d] = @ + 1]
Without(rows, d) == [e \in DOMAIN rows \ {d} |-> rows[e]]

(* A store call that works, or one that fails and leaves the table alone.   *)
StoreCall(d, after) ==
    \/ queue' = after /\ UNCHANGED faults
    \/ MayFault(d) /\ Fault(d) /\ UNCHANGED queue

(* One attempt: dispatcher.attempt or attemptEmail.                         *)
Attempt(d, r) ==
    /\ result' = [result EXCEPT ![d] = r]
    /\ tries' = [tries EXCEPT ![d] = @ + 1]
    /\ acks' = IF r = "ok" THEN [acks EXCEPT ![d] = @ + 1] ELSE acks
    /\ quiet' = [quiet EXCEPT ![d] = 0]

-----------------------------------------------------------------------------
(* The first attempt.                                                       *)

(* emit: a silenced event is not delivered at all.  When InsertAlertEvent   *)
(* fails the event keeps the id 0.                                          *)
Emit(d) ==
    /\ pc[d] = "new" /\ d \notin silenced
    /\ pc' = [pc EXCEPT ![d] = "send"]
    /\ \/ UNCHANGED <<event, faults>>
       \/ MayFault(d) /\ Fault(d) /\ event' = [event EXCEPT ![d] = "unstored"]
    /\ UNCHANGED <<result, queue, sweep, silenced, tries, acks, quiet>>

dispatchSend(d) ==
    /\ pc[d] = "send"
    /\ \E r \in {"ok", "transient", "permanent"} : Attempt(d, r)
    /\ pc' = [pc EXCEPT ![d] = "record"]
    /\ UNCHANGED <<event, queue, sweep, silenced, faults>>

(* record is best effort; only a transient failure goes on to the queue.    *)
dispatchRecord(d) ==
    /\ pc[d] = "record"
    /\ pc' = [pc EXCEPT ![d] = IF result[d] = "transient" THEN "enqueue" ELSE "done"]
    /\ UNCHANGED <<result, event, queue, sweep, silenced, observers>>

enqueueRetry(d) ==
    /\ pc[d] = "enqueue"
    /\ StoreCall(d, [e \in DOMAIN queue \cup {d} |->
                       IF e = d THEN [attempt |-> 0, due |-> backoffFor(0)] ELSE queue[e]])
    /\ pc' = [pc EXCEPT ![d] = "done"]
    /\ UNCHANGED <<result, event, sweep, silenced, tries, acks, quiet>>

-----------------------------------------------------------------------------
(* The sweep.                                                               *)

Due == {d \in DOMAIN queue : queue[d].due <= 0}

(* DueAlertDeliveryRetries: ORDER BY next_attempt_at ASC LIMIT Batch.       *)
OldestDue(S) ==
    /\ Cardinality(S) = Batch \/ (S = Due /\ Cardinality(S) < Batch)
    /\ \A d \in Due \ S, e \in S : queue[e].due <= queue[d].due

sweepDeliveryRetries ==
    /\ step = "load" /\ batch = NoRows /\ Due # {}
    /\ \E S \in SUBSET Due : OldestDue(S) /\ batch' = [d \in S |-> queue[d]]
    /\ UNCHANGED <<pc, result, event, queue, current, step, reopened, silenced, observers>>

(* retryOne returns: the sweep goes on with what is left of its snapshot.   *)
NextRow(d) ==
    /\ batch' = Without(batch, d)
    /\ current' = Nobody /\ step' = "load" /\ reopened' = FALSE

(* retryOne with the oldest row left.  AlertEventByID: a missing (or        *)
(* unreadable) event drops the row.                                         *)
LoadEvent(d) ==
    /\ step = "load"
    /\ d \in DOMAIN batch
    /\ \A e \in DOMAIN batch : batch[d].due <= batch[e].due
    /\ \/ /\ event[d] = "stored"
          /\ current' = d /\ step' = "check"
          /\ UNCHANGED <<batch, reopened, queue, faults>>
       \/ /\ event[d] # "stored"
          /\ StoreCall(d, Without(queue, d))
          /\ NextRow(d)
       \/ /\ MayFault(d) /\ Fault(d)
          /\ queue' = Without(queue, d)
          /\ NextRow(d)
    /\ UNCHANGED <<pc, result, event, silenced, tries, acks, quiet>>

(* r.Attempt of the row in hand, as the snapshot read it.                   *)
CurrentAttempt == batch[current].attempt

(* RescheduleAlertDeliveryRetry: an UPDATE, which a row purged meanwhile    *)
(* does not meet.                                                           *)
Rescheduled(d, attempt) ==
    IF d \in DOMAIN queue
    THEN [queue EXCEPT ![d] = [attempt |-> attempt, due |-> backoffFor(attempt)]]
    ELSE queue

(* Mutant: a window uses up an attempt.                                     *)
WaitOutBurning(d) ==
    StoreCall(d, Rescheduled(d, IF CurrentAttempt + 1 < MaxRetries
                                THEN CurrentAttempt + 1 ELSE CurrentAttempt))

(* Mutant: a window leaves the row as it is, due now.                       *)
WaitOutInPlace(d) == StoreCall(d, queue)

WaitOut(d) == StoreCall(d, Rescheduled(d, CurrentAttempt))

(* Mutant: a row that has been postponed once is not checked again.         *)
CheckWindowFirstOnly ==
    /\ step = "check"
    /\ \/ /\ current \in silenced /\ CurrentAttempt = 0
          /\ WaitOut(current)
          /\ NextRow(current)
       \/ /\ current \notin silenced \/ CurrentAttempt > 0
          /\ step' = "send" /\ reopened' = FALSE
          /\ UNCHANGED <<batch, current, queue, faults>>
    /\ UNCHANGED <<pc, result, event, silenced, tries, acks, quiet>>

(* An active window postpones the retry; a lookup error lets it through.    *)
CheckWindow ==
    /\ step = "check"
    /\ \/ /\ current \in silenced
          /\ WaitOut(current)
          /\ NextRow(current)
       \/ /\ current \notin silenced
          /\ step' = "send" /\ reopened' = FALSE
          /\ UNCHANGED <<batch, current, queue, faults>>
       \/ /\ MayFault(current) /\ Fault(current)
          /\ step' = "send" /\ reopened' = FALSE
          /\ UNCHANGED <<batch, current, queue>>
    /\ UNCHANGED <<pc, result, event, silenced, tries, acks, quiet>>

SendRetry ==
    /\ step = "send"
    /\ \E r \in {"ok", "transient", "permanent"} : Attempt(current, r)
    /\ step' = "record"
    /\ UNCHANGED <<pc, event, queue, batch, current, reopened, silenced, faults>>

RecordRetry ==
    /\ step = "record"
    /\ step' = "finish"
    /\ UNCHANGED <<pc, result, event, queue, batch, current, reopened, silenced, observers>>

GivesUp(d) == result[d] = "permanent" \/ CurrentAttempt + 1 >= MaxRetries

Drops(d) == result[d] = "ok" \/ GivesUp(d)

AttemptAfter == CurrentAttempt + 1

FinishRetry ==
    /\ step = "finish"
    /\ StoreCall(current, IF Drops(current) THEN Without(queue, current)
                          ELSE Rescheduled(current, AttemptAfter))
    /\ NextRow(current)
    /\ UNCHANGED <<pc, result, event, silenced, tries, acks, quiet>>

-----------------------------------------------------------------------------
(* The surroundings: windows, the clock, retention and the process.         *)

WindowOpens(d) ==
    /\ d \notin silenced
    /\ silenced' = silenced \cup {d}
    /\ reopened' = (reopened \/ (step = "send" /\ current = d))
    /\ UNCHANGED <<pc, result, event, queue, batch, current, step, observers>>

WindowCloses(d) ==
    /\ d \in silenced
    /\ silenced' = silenced \ {d}
    /\ UNCHANGED <<pc, result, event, queue, sweep, observers>>

Tick ==
    /\ \A d \in DOMAIN queue : queue[d].due > -Late
    /\ queue' = [d \in DOMAIN queue |-> [queue[d] EXCEPT !.due = @ - 1]]
    /\ quiet' = [d \in Deliveries |-> IF quiet[d] < MaxGap THEN quiet[d] + 1 ELSE MaxGap]
    /\ UNCHANGED <<pc, result, event, sweep, silenced, tries, acks, faults>>

(* PurgeAlertEvents: old events first, then rows left without one.          *)
PurgeEvent(d) ==
    /\ event[d] = "stored" /\ pc[d] = "done"
    /\ event' = [event EXCEPT ![d] = "purged"]
    /\ UNCHANGED <<pc, result, queue, sweep, silenced, observers>>

PurgeOrphans ==
    /\ \E d \in DOMAIN queue : event[d] # "stored"
    /\ queue' = [d \in {e \in DOMAIN queue : event[e] = "stored"} |-> queue[d]]
    /\ UNCHANGED <<pc, result, event, sweep, silenced, observers>>

(* Goroutines and the sweep's snapshot are gone; the queue is not.          *)
InHand(d) == pc[d] \in {"send", "record", "enqueue"} \/ (step # "load" /\ current = d)

Crash ==
    /\ \E d \in Deliveries : InHand(d)
    /\ \A d \in Deliveries : InHand(d) => MayFault(d)
    /\ pc' = [d \in Deliveries |-> IF pc[d] = "new" THEN "new" ELSE "done"]
    /\ batch' = NoRows
    /\ current' = Nobody /\ step' = "load" /\ reopened' = FALSE
    /\ faults' = [d \in Deliveries |-> IF InHand(d) THEN faults[d] + 1 ELSE faults[d]]
    /\ UNCHANGED <<result, event, queue, silenced, tries, acks, quiet>>

Goroutine(d) == Emit(d) \/ dispatchSend(d) \/ dispatchRecord(d) \/ enqueueRetry(d)
retryOne ==
    \/ \E d \in Deliveries : LoadEvent(d)
    \/ CheckWindow \/ SendRetry \/ RecordRetry \/ FinishRetry

Next ==
    \/ \E d \in Deliveries :
          \/ Goroutine(d) \/ WindowOpens(d) \/ WindowCloses(d) \/ PurgeEvent(d)
    \/ sweepDeliveryRetries
    \/ retryOne
    \/ Tick
    \/ PurgeOrphans
    \/ Crash

Spec == Init /\ [][Next]_vars

(* The sweep is a ticker loop, every send and store call has a deadline,    *)
(* and the clock moves.                                                     *)
FairSpec ==
    /\ Spec
    /\ WF_vars(sweepDeliveryRetries)
    /\ WF_vars(retryOne)
    /\ WF_vars(Tick)

-----------------------------------------------------------------------------
(* Properties.                                                              *)

(***************************************************************************)
(* A delivery gets its first attempt and at most MaxRetries more, however  *)
(* often windows postpone it; only a fault that hid an attempt from the    *)
(* queue row can add one.                                                  *)
(***************************************************************************)
RetriesBounded == \A d \in Deliveries : tries[d] <= 1 + MaxRetries + faults[d]

(***************************************************************************)
(* A delivery whose success was seen is not sent again, except where a     *)
(* fault came between the answer and the row's removal.                    *)
(***************************************************************************)
NoResend == \A d \in Deliveries : acks[d] <= 1 + faults[d]

(***************************************************************************)
(* Nothing is dropped quietly: a delivery that is neither in hand nor      *)
(* queued was delivered, refused for good, out of attempts, without an     *)
(* event to send, or hit by a fault.                                       *)
(***************************************************************************)
NoSilentLoss ==
    \A d \in Deliveries :
        pc[d] = "done" /\ d \notin DOMAIN queue /\ ~InHand(d)
            => \/ result[d] \in {"ok", "permanent"}
               \/ tries[d] >= 1 + MaxRetries
               \/ event[d] # "stored"
               \/ faults[d] > 0

(***************************************************************************)
(* Retries keep the backoff: when the sweep is about to send, the time     *)
(* since the previous attempt is at least backoffFor of the row's attempt. *)
(***************************************************************************)
BackoffKept ==
    step = "send" /\ faults[current] = 0 => quiet[current] >= backoffFor(CurrentAttempt)

(***************************************************************************)
(* No hole in the silence: a retry goes out under a window only when the   *)
(* window opened after retryOne's own lookup for that row, not merely      *)
(* after the sweep read its batch.                                         *)
(***************************************************************************)
RetrySilenced ==
    step = "send" /\ current \in silenced /\ faults[current] = 0 => reopened

(***************************************************************************)
(* Every attempt is accounted for: within the budget, not repeated after a *)
(* success, and not given up quietly.                                      *)
(***************************************************************************)
AttemptsAccounted == RetriesBounded /\ NoResend /\ NoSilentLoss

(***************************************************************************)
(* A retry goes out neither before its backoff nor into a silence.         *)
(***************************************************************************)
RetriesWellTimed == BackoffKept /\ RetrySilenced

(***************************************************************************)
(* Every queued retry leaves the queue, the batch limit and other rows     *)
(* notwithstanding, unless a window keeps covering it now and again.       *)
(***************************************************************************)
QueueDrains ==
    \A d \in Deliveries : []<>(d \notin DOMAIN queue \/ d \in silenced)

(***************************************************************************)
(* docs/alerts.md:191: "Transient failures are retried".  A queued         *)
(* delivery leaves the queue only after a retry was made, unless retention *)
(* removed its event.                                                      *)
(***************************************************************************)
TransientIsRetried ==
    [][\A d \in DOMAIN queue :
          d \notin DOMAIN queue' /\ event[d] # "purged" => tries[d] > 1]_vars

-----------------------------------------------------------------------------
(* Two deliveries are interchangeable: the model checker looks at one order. *)
DeliverySymmetry == Permutations(Deliveries)
=============================================================================
