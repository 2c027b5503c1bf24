------------------------ MODULE DeliveryRetryProofs ------------------------
(***************************************************************************)
(* The retry queue's safety properties for any number of deliveries, any   *)
(* budget, backoff and batch size.                                         *)
(*                                                                         *)
(* None of them is inductive: each needs to know how a queue row, the      *)
(* sweep's snapshot of it and the attempts really made belong together.    *)
(* RowsCount and BatchCount say it: a row's attempt is one less than the   *)
(* attempts made, plus one while the sweep holds a result it has not       *)
(* written back, plus what faults hid.                                     *)
(***************************************************************************)
EXTENDS DeliveryRetry, TLAPS

Sent == step \in {"record", "finish"}

(* attempt a of d's row stands for n more attempts than it says             *)
Counts(d, a, n) ==
    /\ 1 + a + n <= tries[d]
    /\ tries[d] <= 1 + a + n + faults[d]

(* What is left of row r's backoff is at most its due time.                 *)
Waits(d, r) ==
    \/ quiet[d] >= backoffFor(r.attempt)
    \/ r.due > 0 /\ quiet[d] + r.due >= backoffFor(r.attempt)

(* The first attempt's goroutine.                                           *)
FirstAttempt ==
    \A d \in Deliveries :
        /\ pc[d] \in {"new", "send"} => tries[d] = 0 /\ acks[d] = 0
        /\ pc[d] \in {"record", "enqueue"} => tries[d] = 1
        /\ pc[d] = "record" => result[d] # "none" /\ acks[d] <= 1
        /\ pc[d] = "record" /\ result[d] # "ok" => acks[d] = 0
        /\ pc[d] = "enqueue" => result[d] = "transient" /\ acks[d] = 0
        /\ pc[d] # "done" => d \notin DOMAIN queue

(* A row without a result waiting to be written back.                       *)
RowsCount ==
    \A d \in DOMAIN queue :
        ~(Sent /\ d = current)
            => /\ Counts(d, queue[d].attempt, 0)
               /\ acks[d] <= faults[d]
               /\ faults[d] = 0 => Waits(d, queue[d])

(* A row of the snapshot.                                                   *)
BatchRows ==
    \A d \in DOMAIN batch :
        /\ pc[d] = "done"
        /\ d \in DOMAIN queue => queue[d].attempt = batch[d].attempt
        /\ d \notin DOMAIN queue => event[d] # "stored"

BatchWaits ==
    \A d \in DOMAIN batch :
        ~(Sent /\ d = current)
            => /\ Counts(d, batch[d].attempt, 0)
               /\ acks[d] <= faults[d]
               /\ faults[d] = 0 => quiet[d] >= backoffFor(batch[d].attempt)

(* The row in hand, once it was sent.                                       *)
BatchSent ==
    Sent => /\ Counts(current, CurrentAttempt, 1)
            /\ acks[current] <= 1 + faults[current]
            /\ result[current] # "none"
            /\ result[current] # "ok" => acks[current] <= faults[current]

IndInv ==
    /\ TypeOK
    /\ FirstAttempt
    /\ RowsCount
    /\ BatchRows
    /\ BatchWaits
    /\ BatchSent
    /\ RetriesBounded
    /\ NoResend
    /\ NoSilentLoss
    /\ RetrySilenced

USE RetryAssumption

-----------------------------------------------------------------------------
(* Helpers.                                                                 *)

(* backoffFor is capped and never zero.                                     *)
LEMMA BackoffRange == \A a : backoffFor(a) \in 1..MaxGap
  BY DEF backoffFor

(* The initial state satisfies the inductive invariant.                     *)
LEMMA InitInv == Init => IndInv
<1> SUFFICES ASSUME Init PROVE IndInv
  OBVIOUS
<1>1. TypeOK
  <2>1. DOMAIN queue = {} /\ DOMAIN batch = {} /\ silenced = {} /\ step = "load"
    BY DEF Init, NoRows
  <2>2. /\ quiet \in [Deliveries -> 0..MaxGap]
        /\ tries \in [Deliveries -> Nat] /\ acks \in [Deliveries -> Nat]
        /\ faults \in [Deliveries -> Nat]
    BY DEF Init
  <2>4. reopened \in BOOLEAN
    BY DEF Init
  <2>3. /\ pc \in [Deliveries -> {"new", "send", "record", "enqueue", "done"}]
        /\ result \in [Deliveries -> Results]
        /\ event \in [Deliveries -> {"stored", "unstored", "purged"}]
    BY DEF Init, Results
  <2> QED
    BY <2>1, <2>2, <2>3, <2>4 DEF TypeOK
<1>2. FirstAttempt /\ RowsCount /\ BatchRows /\ BatchWaits /\ BatchSent
  BY DEF Init, FirstAttempt, RowsCount, BatchRows, BatchWaits, BatchSent, Sent,
     NoRows
<1>3. RetriesBounded /\ NoResend /\ NoSilentLoss /\ RetrySilenced
  BY DEF Init, RetriesBounded, NoResend, NoSilentLoss, RetrySilenced
<1> QED
  BY <1>1, <1>2, <1>3 DEF IndInv

-----------------------------------------------------------------------------
(* The first attempt: its delivery is neither queued nor in the snapshot.   *)

LEMMA FirstOutOfSweep ==
  ASSUME IndInv, NEW d \in Deliveries, pc[d] # "done"
  PROVE  /\ d \notin DOMAIN queue
         /\ d \notin DOMAIN batch
         /\ step # "load" => current # d
  BY DEF IndInv, FirstAttempt, BatchRows, TypeOK

(* Emitting starts the goroutine, with or without a stored event.           *)
LEMMA EmitInv ==
  ASSUME IndInv, NEW d \in Deliveries, Emit(d)
  PROVE  IndInv'
<1> USE DEF IndInv, TypeOK, Emit, Fault, sweep
<1>0. pc[d] # "done"
  OBVIOUS
<1>1. TypeOK' /\ FirstAttempt'
  BY <1>0, FirstOutOfSweep DEF FirstAttempt, Row
<1>2. RowsCount' /\ BatchRows' /\ BatchWaits' /\ BatchSent'
  BY <1>0, FirstOutOfSweep DEF RowsCount, BatchRows, BatchWaits, BatchSent, Row, Sent,
     Counts, Waits, CurrentAttempt
<1>3. RetriesBounded' /\ NoResend' /\ RetrySilenced'
  BY <1>0, FirstOutOfSweep DEF RetriesBounded, NoResend, RetrySilenced
<1>4. NoSilentLoss'
  BY <1>0, FirstOutOfSweep DEF NoSilentLoss, FirstAttempt, BatchRows, InHand
<1> QED
  BY <1>1, <1>2, <1>3, <1>4

(* The first attempt.                                                       *)
LEMMA DispatchSendInv ==
  ASSUME IndInv, NEW d \in Deliveries, dispatchSend(d)
  PROVE  IndInv'
<1> USE DEF IndInv
<1>0. pc[d] # "done"
  BY DEF dispatchSend
<1>1. TypeOK'
  BY <1>0, FirstOutOfSweep DEF dispatchSend, Attempt, sweep, TypeOK, Row, Results
<1>2. FirstAttempt'
  BY <1>0, FirstOutOfSweep DEF dispatchSend, Attempt, sweep, FirstAttempt, TypeOK
<1>3. RowsCount'
  BY <1>0, FirstOutOfSweep DEF dispatchSend, Attempt, sweep, RowsCount, TypeOK,
     Row, Sent, Counts, Waits, BatchRows
<1>4. BatchRows'
  BY <1>0, FirstOutOfSweep DEF dispatchSend, Attempt, sweep, BatchRows, TypeOK
<1>5. BatchWaits'
  BY <1>0, FirstOutOfSweep DEF dispatchSend, Attempt, sweep, BatchWaits,
     BatchRows, TypeOK, Row, Sent, Counts
<1>6. BatchSent'
  BY <1>0, FirstOutOfSweep DEF dispatchSend, Attempt, sweep, BatchSent,
     BatchWaits, BatchRows, TypeOK, Row, Sent, Counts, CurrentAttempt
<1>7. RetriesBounded' /\ NoResend'
  BY <1>0, FirstOutOfSweep DEF dispatchSend, Attempt, sweep, RetriesBounded,
     NoResend, RowsCount, BatchWaits, BatchSent, FirstAttempt, TypeOK, Row, Sent,
     Counts, CurrentAttempt
<1>8. NoSilentLoss'
  BY <1>0, FirstOutOfSweep DEF dispatchSend, Attempt, sweep, NoSilentLoss,
     BatchRows, BatchSent, FirstAttempt, TypeOK, InHand, Sent, Counts, Row,
     CurrentAttempt
<1>9. RetrySilenced'
  BY <1>0, FirstOutOfSweep DEF dispatchSend, Attempt, sweep, RetrySilenced, TypeOK
<1> QED
  BY <1>1, <1>2, <1>3, <1>4, <1>5, <1>6, <1>7, <1>8, <1>9

(* Only a transient failure stays in the goroutine's hands.                 *)
LEMMA DispatchRecordInv ==
  ASSUME IndInv, NEW d \in Deliveries, dispatchRecord(d)
  PROVE  IndInv'
<1> USE DEF IndInv, TypeOK, dispatchRecord, sweep, observers, Results
<1>0. pc[d] # "done"
  OBVIOUS
<1>1. TypeOK' /\ FirstAttempt'
  BY <1>0, FirstOutOfSweep DEF FirstAttempt, Row
<1>2. RowsCount' /\ BatchRows' /\ BatchWaits' /\ BatchSent'
  BY <1>0, FirstOutOfSweep DEF RowsCount, BatchRows, BatchWaits, BatchSent, Row, Sent,
     Counts, Waits, CurrentAttempt
<1>3. RetriesBounded' /\ NoResend' /\ RetrySilenced'
  BY <1>0, FirstOutOfSweep DEF RetriesBounded, NoResend, RetrySilenced
<1>4. NoSilentLoss'
  BY <1>0, FirstOutOfSweep DEF NoSilentLoss, FirstAttempt, BatchRows, InHand
<1> QED
  BY <1>1, <1>2, <1>3, <1>4

(* The new row owes exactly the attempt just made.                          *)
LEMMA EnqueueInv ==
  ASSUME IndInv, NEW d \in Deliveries, enqueueRetry(d)
  PROVE  IndInv'
<1> USE DEF IndInv
<1>0. pc[d] # "done"
  BY DEF enqueueRetry
<1>1. TypeOK'
  BY <1>0, FirstOutOfSweep, BackoffRange DEF enqueueRetry, StoreCall, Fault,
     MayFault, sweep, TypeOK, Row, Results
<1>2. FirstAttempt'
  BY <1>0, FirstOutOfSweep, BackoffRange DEF enqueueRetry, StoreCall, Fault,
     MayFault, sweep, FirstAttempt, TypeOK
<1>3. RowsCount'
  <2> SUFFICES ASSUME NEW e \in DOMAIN queue', ~(Sent' /\ e = current')
               PROVE  /\ Counts(e, queue[e].attempt, 0)'
                      /\ acks'[e] <= faults'[e]
                      /\ faults'[e] = 0 => Waits(e, queue[e])'
    BY DEF RowsCount
  <2>1. CASE e = d
    BY <2>1, <1>0, FirstOutOfSweep, BackoffRange
       DEF enqueueRetry, StoreCall, Fault, sweep, FirstAttempt, TypeOK, Counts, Waits
  <2>2. CASE e # d
    BY <2>2 DEF enqueueRetry, StoreCall, Fault, sweep, RowsCount, TypeOK, Row,
         Sent, Counts, Waits
  <2> QED
    BY <2>1, <2>2
<1>4. BatchRows'
  BY <1>0, FirstOutOfSweep, BackoffRange DEF enqueueRetry, StoreCall, Fault,
     MayFault, sweep, BatchRows, TypeOK
<1>5. BatchWaits'
  BY <1>0, FirstOutOfSweep, BackoffRange DEF enqueueRetry, StoreCall, Fault,
     MayFault, sweep, BatchWaits, BatchRows, TypeOK, Row, Sent, Counts
<1>6. BatchSent'
  BY <1>0, FirstOutOfSweep, BackoffRange DEF enqueueRetry, StoreCall, Fault,
     MayFault, sweep, BatchSent, BatchWaits, BatchRows, TypeOK, Row, Sent, Counts,
     CurrentAttempt
<1>7. RetriesBounded' /\ NoResend'
  BY <1>0, FirstOutOfSweep, BackoffRange DEF enqueueRetry, StoreCall, Fault,
     MayFault, sweep, RetriesBounded, NoResend, RowsCount, BatchWaits, BatchSent,
     FirstAttempt, TypeOK, Row, Sent, Counts, CurrentAttempt
<1>8. NoSilentLoss'
  BY <1>0, FirstOutOfSweep, BackoffRange DEF enqueueRetry, StoreCall, Fault,
     MayFault, sweep, NoSilentLoss, BatchRows, BatchSent, FirstAttempt, TypeOK,
     InHand, Sent, Counts, Row, CurrentAttempt
<1>9. RetrySilenced'
  BY <1>0, FirstOutOfSweep, BackoffRange DEF enqueueRetry, StoreCall, Fault,
     MayFault, sweep, RetrySilenced, TypeOK
<1> QED
  BY <1>1, <1>2, <1>3, <1>4, <1>5, <1>6, <1>7, <1>8, <1>9

-----------------------------------------------------------------------------

(* The sweep reads its batch: what is due has waited its backoff.           *)
LEMMA SweepInv ==
  ASSUME IndInv, sweepDeliveryRetries
  PROVE  IndInv'
<1> USE DEF IndInv
<1>1. TypeOK'
  BY DEF sweepDeliveryRetries, Due, NoRows, observers, TypeOK, Row, Results
<1>2. FirstAttempt'
  BY DEF sweepDeliveryRetries, Due, NoRows, observers, FirstAttempt, TypeOK
<1>3. RowsCount'
  BY DEF sweepDeliveryRetries, Due, NoRows, observers, RowsCount, TypeOK, Row,
     Sent, Counts, Waits, BatchRows
<1>4. BatchRows'
  BY DEF sweepDeliveryRetries, Due, observers, BatchRows, FirstAttempt, TypeOK
<1>5. BatchWaits'
  BY DEF sweepDeliveryRetries, Due, observers, BatchWaits, RowsCount, TypeOK, Row,
       Sent, Counts, Waits
<1>6. BatchSent'
  BY DEF sweepDeliveryRetries, Due, NoRows, observers, BatchSent, BatchWaits,
     BatchRows, TypeOK, Row, Sent, Counts, CurrentAttempt
<1>7. RetriesBounded' /\ NoResend'
  BY DEF sweepDeliveryRetries, Due, NoRows, observers, RetriesBounded, NoResend,
     RowsCount, BatchWaits, BatchSent, FirstAttempt, TypeOK, Row, Sent, Counts,
     CurrentAttempt
<1>8. NoSilentLoss'
  BY DEF sweepDeliveryRetries, Due, NoRows, observers, NoSilentLoss, BatchRows,
     BatchSent, FirstAttempt, TypeOK, InHand, Sent, Counts, Row, CurrentAttempt
<1>9. RetrySilenced'
  BY DEF sweepDeliveryRetries, Due, NoRows, observers, RetrySilenced, TypeOK
<1> QED
  BY <1>1, <1>2, <1>3, <1>4, <1>5, <1>6, <1>7, <1>8, <1>9

(* A row whose event is gone leaves the queue and the snapshot.             *)
LEMMA LoadEventInv ==
  ASSUME IndInv, NEW d \in Deliveries, LoadEvent(d)
  PROVE  IndInv'
<1> USE DEF IndInv
<1>1. TypeOK'
  <2>1. DOMAIN queue' \subseteq DOMAIN queue /\ \A e \in DOMAIN queue' : queue'[e] \in Row
    BY DEF LoadEvent, StoreCall, Without, TypeOK
  <2>2. DOMAIN batch' \subseteq DOMAIN batch /\ \A e \in DOMAIN batch' : batch'[e] = batch[e]
    BY DEF LoadEvent, NextRow, Without
  <2>3. faults' \in [Deliveries -> Nat]
    BY DEF LoadEvent, StoreCall, WaitOut, Fault, TypeOK
  <2>4. step' \in {"load", "check", "send", "record", "finish"} /\ reopened' \in BOOLEAN
    BY DEF LoadEvent, NextRow, TypeOK
  <2>5. step' # "load" => current' \in DOMAIN batch'
    BY DEF LoadEvent, NextRow, TypeOK
  <2> QED
    BY <2>1, <2>2, <2>3, <2>4, <2>5 DEF LoadEvent, TypeOK
<1>2. FirstAttempt'
  BY DEF LoadEvent, StoreCall, NextRow, Without, Fault, MayFault, FirstAttempt,
     TypeOK
<1>3. RowsCount'
  BY DEF LoadEvent, StoreCall, NextRow, Without, Fault, MayFault, RowsCount,
     TypeOK, Row, Sent, Counts, Waits, BatchRows
<1>4. BatchRows'
  BY DEF LoadEvent, StoreCall, NextRow, Without, Fault, MayFault, BatchRows, TypeOK
<1>5. BatchWaits'
  BY DEF LoadEvent, StoreCall, NextRow, Without, Fault, MayFault, BatchWaits,
     BatchRows, TypeOK, Row, Sent, Counts
<1>6. BatchSent'
  BY DEF LoadEvent, StoreCall, NextRow, Without, Fault, MayFault, BatchSent,
     BatchWaits, BatchRows, TypeOK, Row, Sent, Counts, CurrentAttempt
<1>7. RetriesBounded' /\ NoResend'
  BY DEF LoadEvent, StoreCall, NextRow, Without, Fault, MayFault,
     RetriesBounded, NoResend, RowsCount, BatchWaits, BatchSent, FirstAttempt,
     TypeOK, Row, Sent, Counts, CurrentAttempt
<1>8. NoSilentLoss'
  BY DEF LoadEvent, StoreCall, NextRow, Without, Fault, MayFault, NoSilentLoss,
     BatchRows, BatchSent, FirstAttempt, TypeOK, InHand, Sent, Counts, Row,
     CurrentAttempt
<1>9. RetrySilenced'
  BY DEF LoadEvent, StoreCall, NextRow, Without, Fault, MayFault, RetrySilenced,
     TypeOK
<1> QED
  BY <1>1, <1>2, <1>3, <1>4, <1>5, <1>6, <1>7, <1>8, <1>9

(* Waiting out a window starts the row's backoff again.                     *)
LEMMA CheckWindowInv ==
  ASSUME IndInv, CheckWindow
  PROVE  IndInv'
<1> USE DEF IndInv
<1>1. TypeOK'
  <2>1. DOMAIN queue' \subseteq DOMAIN queue /\ \A e \in DOMAIN queue' : queue'[e] \in Row
    BY BackoffRange DEF CheckWindow, WaitOut, StoreCall, Rescheduled,
       CurrentAttempt, TypeOK, Row
  <2>2. DOMAIN batch' \subseteq DOMAIN batch /\ \A e \in DOMAIN batch' : batch'[e] = batch[e]
    BY DEF CheckWindow, NextRow, Without
  <2>3. faults' \in [Deliveries -> Nat]
    BY DEF CheckWindow, StoreCall, WaitOut, Fault, TypeOK
  <2>4. step' \in {"load", "check", "send", "record", "finish"} /\ reopened' \in BOOLEAN
    BY DEF CheckWindow, NextRow, TypeOK
  <2>5. step' # "load" => current' \in DOMAIN batch'
    BY DEF CheckWindow, NextRow, TypeOK
  <2> QED
    BY <2>1, <2>2, <2>3, <2>4, <2>5 DEF CheckWindow, TypeOK
<1>2. FirstAttempt'
  BY BackoffRange DEF CheckWindow, WaitOut, StoreCall, Rescheduled,
     CurrentAttempt, NextRow, Without, Fault, MayFault, FirstAttempt, TypeOK
<1>3. RowsCount'
  BY BackoffRange DEF CheckWindow, WaitOut, StoreCall, Rescheduled,
     CurrentAttempt, NextRow, Without, Fault, MayFault, RowsCount, TypeOK, Row,
     Sent, Counts, Waits, BatchRows
<1>4. BatchRows'
  BY BackoffRange DEF CheckWindow, WaitOut, StoreCall, Rescheduled,
     CurrentAttempt, NextRow, Without, Fault, MayFault, BatchRows, TypeOK
<1>5. BatchWaits'
  BY BackoffRange DEF CheckWindow, WaitOut, StoreCall, Rescheduled,
     CurrentAttempt, NextRow, Without, Fault, MayFault, BatchWaits, BatchRows,
     TypeOK, Row, Sent, Counts
<1>6. BatchSent'
  BY BackoffRange DEF CheckWindow, WaitOut, StoreCall, Rescheduled,
     CurrentAttempt, NextRow, Without, Fault, MayFault, BatchSent, BatchWaits,
     BatchRows, TypeOK, Row, Sent, Counts, CurrentAttempt
<1>7. RetriesBounded' /\ NoResend'
  BY BackoffRange DEF CheckWindow, WaitOut, StoreCall, Rescheduled,
     CurrentAttempt, NextRow, Without, Fault, MayFault, RetriesBounded, NoResend,
     RowsCount, BatchWaits, BatchSent, FirstAttempt, TypeOK, Row, Sent, Counts,
     CurrentAttempt
<1>8. NoSilentLoss'
  BY BackoffRange DEF CheckWindow, WaitOut, StoreCall, Rescheduled,
     CurrentAttempt, NextRow, Without, Fault, MayFault, NoSilentLoss, BatchRows,
     BatchSent, FirstAttempt, TypeOK, InHand, Sent, Counts, Row, CurrentAttempt
<1>9. RetrySilenced'
  BY BackoffRange DEF CheckWindow, WaitOut, StoreCall, Rescheduled,
     CurrentAttempt, NextRow, Without, Fault, MayFault, RetrySilenced, TypeOK
<1> QED
  BY <1>1, <1>2, <1>3, <1>4, <1>5, <1>6, <1>7, <1>8, <1>9

(* The attempt is made; the row does not know it yet.                       *)
LEMMA SendRetryInv ==
  ASSUME IndInv, SendRetry
  PROVE  IndInv'
<1> USE DEF IndInv
<1>1. TypeOK'
  BY BackoffRange DEF SendRetry, Attempt, TypeOK, Row, Results
<1>2. FirstAttempt'
  BY DEF SendRetry, Attempt, FirstAttempt, BatchRows, TypeOK
<1>3. RowsCount'
  BY BackoffRange DEF SendRetry, Attempt, RowsCount, TypeOK, Row, Sent, Counts,
     Waits, BatchRows
<1>4. BatchRows'
  BY BackoffRange DEF SendRetry, Attempt, BatchRows, TypeOK
<1>5. BatchWaits'
  BY BackoffRange DEF SendRetry, Attempt, BatchWaits, BatchRows, TypeOK, Row,
     Sent, Counts
<1>6. BatchSent'
  BY BackoffRange DEF SendRetry, Attempt, BatchSent, BatchWaits, BatchRows,
     TypeOK, Row, Sent, Counts, CurrentAttempt
<1>7. RetriesBounded' /\ NoResend'
  BY BackoffRange DEF SendRetry, Attempt, RetriesBounded, NoResend, RowsCount,
     BatchWaits, BatchSent, FirstAttempt, TypeOK, Row, Sent, Counts, CurrentAttempt
<1>8. NoSilentLoss'
  BY BackoffRange DEF SendRetry, Attempt, NoSilentLoss, BatchRows, BatchSent,
     FirstAttempt, TypeOK, InHand, Sent, Counts, Row, CurrentAttempt
<1>9. RetrySilenced'
  BY BackoffRange DEF SendRetry, Attempt, RetrySilenced, TypeOK
<1> QED
  BY <1>1, <1>2, <1>3, <1>4, <1>5, <1>6, <1>7, <1>8, <1>9

(* Recording the outcome changes no row.                                    *)
LEMMA RecordRetryInv ==
  ASSUME IndInv, RecordRetry
  PROVE  IndInv'
<1> USE DEF IndInv, TypeOK, RecordRetry, observers
<1>1. TypeOK' /\ FirstAttempt'
  BY DEF FirstAttempt, Row
<1>2. RowsCount' /\ BatchRows' /\ BatchWaits' /\ BatchSent'
  BY DEF RowsCount, BatchRows, BatchWaits, BatchSent, Row, Sent,
     Counts, Waits, CurrentAttempt
<1>3. RetriesBounded' /\ NoResend' /\ RetrySilenced'
  BY DEF RetriesBounded, NoResend, RetrySilenced
<1>4. NoSilentLoss'
  BY DEF NoSilentLoss, FirstAttempt, BatchRows, InHand
<1> QED
  BY <1>1, <1>2, <1>3, <1>4

(* The row catches up with the attempt, or leaves.                          *)
LEMMA FinishRetryInv ==
  ASSUME IndInv, FinishRetry
  PROVE  IndInv'
<1> USE DEF IndInv
<1>1. TypeOK'
  <2>1. DOMAIN queue' \subseteq DOMAIN queue /\ \A e \in DOMAIN queue' : queue'[e] \in Row
    BY BackoffRange DEF FinishRetry, StoreCall, Rescheduled, Drops, GivesUp,
       AttemptAfter, CurrentAttempt, Without, TypeOK, Row
  <2>2. DOMAIN batch' \subseteq DOMAIN batch /\ \A e \in DOMAIN batch' : batch'[e] = batch[e]
    BY DEF FinishRetry, NextRow, Without
  <2>3. faults' \in [Deliveries -> Nat]
    BY DEF FinishRetry, StoreCall, WaitOut, Fault, TypeOK
  <2>4. step' \in {"load", "check", "send", "record", "finish"} /\ reopened' \in BOOLEAN
    BY DEF FinishRetry, NextRow, TypeOK
  <2>5. step' # "load" => current' \in DOMAIN batch'
    BY DEF FinishRetry, NextRow, TypeOK
  <2> QED
    BY <2>1, <2>2, <2>3, <2>4, <2>5 DEF FinishRetry, TypeOK
<1>2. FirstAttempt'
  BY BackoffRange DEF FinishRetry, StoreCall, Rescheduled, Drops, GivesUp,
     AttemptAfter, CurrentAttempt, NextRow, Without, Fault, MayFault, FirstAttempt,
     TypeOK
<1>3. RowsCount'
  <2> SUFFICES ASSUME NEW e \in DOMAIN queue'
               PROVE  /\ Counts(e, queue[e].attempt, 0)'
                      /\ acks'[e] <= faults'[e]
                      /\ faults'[e] = 0 => Waits(e, queue[e])'
    BY DEF RowsCount
  <2>0. e \in DOMAIN queue /\ current \in DOMAIN batch /\ Sent
    BY DEF FinishRetry, StoreCall, Rescheduled, Without, TypeOK, Sent
  <2>1. CASE e # current
    BY <2>0, <2>1 DEF FinishRetry, StoreCall, Rescheduled, Without, Fault,
       RowsCount,
         TypeOK, Row, Sent, Counts, Waits
  <2>2. CASE e = current /\ queue' = queue /\ Fault(current)
    BY <2>0, <2>2 DEF FinishRetry, Fault, BatchSent, BatchRows, TypeOK, Row, Sent,
         Counts, CurrentAttempt
  <2>3. CASE e = current /\ ~Drops(current) /\ UNCHANGED faults
             /\ queue' = Rescheduled(current, AttemptAfter)
    BY <2>0, <2>3, BackoffRange DEF FinishRetry, Rescheduled, Drops, AttemptAfter,
         BatchSent, BatchRows, TypeOK, Row, Sent, Counts, Waits, CurrentAttempt
  <2> QED
    BY <2>0, <2>1, <2>2, <2>3 DEF FinishRetry, StoreCall, Without
<1>4. BatchRows'
  BY BackoffRange DEF FinishRetry, StoreCall, Rescheduled, Drops, GivesUp,
     AttemptAfter, CurrentAttempt, NextRow, Without, Fault, MayFault, BatchRows,
     TypeOK
<1>5. BatchWaits'
  BY BackoffRange DEF FinishRetry, StoreCall, Rescheduled, Drops, GivesUp,
     AttemptAfter, CurrentAttempt, NextRow, Without, Fault, MayFault, BatchWaits,
     BatchRows, TypeOK, Row, Sent, Counts
<1>6. BatchSent'
  BY BackoffRange DEF FinishRetry, StoreCall, Rescheduled, Drops, GivesUp,
     AttemptAfter, CurrentAttempt, NextRow, Without, Fault, MayFault, BatchSent,
     BatchWaits, BatchRows, TypeOK, Row, Sent, Counts, CurrentAttempt
<1>7. RetriesBounded' /\ NoResend'
  BY BackoffRange DEF FinishRetry, StoreCall, Rescheduled, Drops, GivesUp,
     AttemptAfter, CurrentAttempt, NextRow, Without, Fault, MayFault,
     RetriesBounded, NoResend, RowsCount, BatchWaits, BatchSent, FirstAttempt,
     TypeOK, Row, Sent, Counts, CurrentAttempt
<1>8. NoSilentLoss'
  BY BackoffRange DEF FinishRetry, StoreCall, Rescheduled, Drops, GivesUp,
     AttemptAfter, CurrentAttempt, NextRow, Without, Fault, MayFault, NoSilentLoss,
     BatchRows, BatchSent, FirstAttempt, TypeOK, InHand, Sent, Counts, Row,
     CurrentAttempt
<1>9. RetrySilenced'
  BY BackoffRange DEF FinishRetry, StoreCall, Rescheduled, Drops, GivesUp,
     AttemptAfter, CurrentAttempt, NextRow, Without, Fault, MayFault,
     RetrySilenced, TypeOK
<1> QED
  BY <1>1, <1>2, <1>3, <1>4, <1>5, <1>6, <1>7, <1>8, <1>9

-----------------------------------------------------------------------------

(* Windows touch no row.                                                    *)
LEMMA WindowOpensInv ==
  ASSUME IndInv, NEW d \in Deliveries, WindowOpens(d)
  PROVE  IndInv'
<1> USE DEF IndInv, TypeOK, WindowOpens, observers
<1>1. TypeOK' /\ FirstAttempt'
  BY DEF FirstAttempt, Row
<1>2. RowsCount' /\ BatchRows' /\ BatchWaits' /\ BatchSent'
  BY DEF RowsCount, BatchRows, BatchWaits, BatchSent, Row, Sent,
     Counts, Waits, CurrentAttempt
<1>3. RetriesBounded' /\ NoResend' /\ RetrySilenced'
  BY DEF RetriesBounded, NoResend, RetrySilenced
<1>4. NoSilentLoss'
  BY DEF NoSilentLoss, FirstAttempt, BatchRows, InHand
<1> QED
  BY <1>1, <1>2, <1>3, <1>4

(* Windows touch no row.                                                    *)
LEMMA WindowClosesInv ==
  ASSUME IndInv, NEW d \in Deliveries, WindowCloses(d)
  PROVE  IndInv'
<1> USE DEF IndInv, TypeOK, WindowCloses, observers, sweep
<1>1. TypeOK' /\ FirstAttempt'
  BY DEF FirstAttempt, Row
<1>2. RowsCount' /\ BatchRows' /\ BatchWaits' /\ BatchSent'
  BY DEF RowsCount, BatchRows, BatchWaits, BatchSent, Row, Sent,
     Counts, Waits, CurrentAttempt
<1>3. RetriesBounded' /\ NoResend' /\ RetrySilenced'
  BY DEF RetriesBounded, NoResend, RetrySilenced
<1>4. NoSilentLoss'
  BY DEF NoSilentLoss, FirstAttempt, BatchRows, InHand
<1> QED
  BY <1>1, <1>2, <1>3, <1>4

(* The clock moves due times and the time waited alike.                     *)
LEMMA TickInv ==
  ASSUME IndInv, Tick
  PROVE  IndInv'
<1> USE DEF IndInv
<1>1. TypeOK'
  BY BackoffRange DEF Tick, sweep, TypeOK, Row, Results
<1>2. FirstAttempt'
  BY BackoffRange DEF Tick, sweep, FirstAttempt, TypeOK
<1>3. RowsCount'
  BY BackoffRange DEF Tick, sweep, RowsCount, TypeOK, Row, Sent, Counts, Waits,
     BatchRows
<1>4. BatchRows'
  BY BackoffRange DEF Tick, sweep, BatchRows, TypeOK
<1>5. BatchWaits'
  BY BackoffRange DEF Tick, sweep, BatchWaits, BatchRows, TypeOK, Row, Sent, Counts
<1>6. BatchSent'
  BY BackoffRange DEF Tick, sweep, BatchSent, BatchWaits, BatchRows, TypeOK,
     Row, Sent, Counts, CurrentAttempt
<1>7. RetriesBounded' /\ NoResend'
  BY BackoffRange DEF Tick, sweep, RetriesBounded, NoResend, RowsCount,
     BatchWaits, BatchSent, FirstAttempt, TypeOK, Row, Sent, Counts, CurrentAttempt
<1>8. NoSilentLoss'
  BY BackoffRange DEF Tick, sweep, NoSilentLoss, BatchRows, BatchSent,
     FirstAttempt, TypeOK, InHand, Sent, Counts, Row, CurrentAttempt
<1>9. RetrySilenced'
  BY BackoffRange DEF Tick, sweep, RetrySilenced, TypeOK
<1> QED
  BY <1>1, <1>2, <1>3, <1>4, <1>5, <1>6, <1>7, <1>8, <1>9

(* Retention takes an event.                                                *)
LEMMA PurgeEventInv ==
  ASSUME IndInv, NEW d \in Deliveries, PurgeEvent(d)
  PROVE  IndInv'
<1> USE DEF IndInv, TypeOK, PurgeEvent, sweep, observers
<1>1. TypeOK' /\ FirstAttempt'
  BY DEF FirstAttempt, Row
<1>2. RowsCount' /\ BatchRows' /\ BatchWaits' /\ BatchSent'
  BY DEF RowsCount, BatchRows, BatchWaits, BatchSent, Row, Sent,
     Counts, Waits, CurrentAttempt
<1>3. RetriesBounded' /\ NoResend' /\ RetrySilenced'
  BY DEF RetriesBounded, NoResend, RetrySilenced
<1>4. NoSilentLoss'
  BY DEF NoSilentLoss, FirstAttempt, BatchRows, InHand
<1> QED
  BY <1>1, <1>2, <1>3, <1>4

(* Retention takes rows without an event.                                   *)
LEMMA PurgeOrphansInv ==
  ASSUME IndInv, PurgeOrphans
  PROVE  IndInv'
<1> USE DEF IndInv, TypeOK, PurgeOrphans, sweep, observers
<1>1. TypeOK' /\ FirstAttempt'
  BY DEF FirstAttempt, Row
<1>2. RowsCount' /\ BatchRows' /\ BatchWaits' /\ BatchSent'
  BY DEF RowsCount, BatchRows, BatchWaits, BatchSent, Row, Sent,
     Counts, Waits, CurrentAttempt
<1>3. RetriesBounded' /\ NoResend' /\ RetrySilenced'
  BY DEF RetriesBounded, NoResend, RetrySilenced
<1>4. NoSilentLoss'
  BY DEF NoSilentLoss, FirstAttempt, BatchRows, InHand
<1> QED
  BY <1>1, <1>2, <1>3, <1>4

(* What a crash hides from a row it adds to the row's faults.               *)
LEMMA CrashInv ==
  ASSUME IndInv, Crash
  PROVE  IndInv'
<1> USE DEF IndInv
<1>1. TypeOK'
  <2>1. DOMAIN batch' = {} /\ step' = "load" /\ reopened' = FALSE
    BY DEF Crash, NoRows
  <2>2. pc' \in [Deliveries -> {"new", "send", "record", "enqueue", "done"}]
    BY DEF Crash, TypeOK
  <2>3. faults' \in [Deliveries -> Nat]
    BY DEF Crash, TypeOK
  <2> QED
    BY <2>1, <2>2, <2>3 DEF Crash, TypeOK
<1>2. FirstAttempt'
  BY DEF Crash, NoRows, InHand, FirstAttempt, TypeOK
<1>3. RowsCount'
  <2> SUFFICES ASSUME NEW d \in DOMAIN queue
               PROVE  /\ Counts(d, queue[d].attempt, 0)'
                      /\ acks[d] <= faults'[d]
                      /\ faults'[d] = 0 => Waits(d, queue[d])'
    BY DEF Crash, RowsCount
  <2>0. d \in Deliveries /\ faults[d] \in Nat /\ tries[d] \in Nat /\ acks[d] \in Nat
    BY DEF TypeOK
  <2>1. faults'[d] = IF InHand(d) THEN faults[d] + 1 ELSE faults[d]
    BY <2>0 DEF Crash
  <2>2. CASE Sent /\ d = current
    <3>1. InHand(d) /\ current \in DOMAIN batch
      BY <2>2 DEF InHand, Sent, TypeOK
    <3>2. queue[d].attempt = CurrentAttempt /\ CurrentAttempt \in Nat
      BY <2>2, <3>1 DEF BatchRows, CurrentAttempt, TypeOK, Row
    <3> QED
      BY <2>0, <2>1, <2>2, <3>1, <3>2 DEF BatchSent, Counts, Crash
  <2>3. CASE ~(Sent /\ d = current)
    <3>1. queue[d].attempt \in Nat
      BY DEF TypeOK, Row
    <3> QED
      BY <2>0, <2>1, <2>3, <3>1 DEF RowsCount, Counts, Waits, Crash
  <2> QED
    BY <2>2, <2>3
<1>4. BatchRows'
  BY DEF Crash, NoRows, InHand, BatchRows, TypeOK
<1>5. BatchWaits'
  BY DEF Crash, NoRows, InHand, BatchWaits, BatchRows, TypeOK, Row, Sent, Counts
<1>6. BatchSent'
  BY DEF Crash, NoRows, InHand, BatchSent, BatchWaits, BatchRows, TypeOK, Row,
     Sent, Counts, CurrentAttempt
<1>7. RetriesBounded' /\ NoResend'
  <2>1. \A d \in Deliveries : faults[d] <= faults'[d]
    BY DEF Crash, TypeOK
  <2> QED
    BY <1>1, <2>1 DEF Crash, RetriesBounded, NoResend, TypeOK
<1>8. NoSilentLoss'
  BY DEF Crash, NoRows, InHand, NoSilentLoss, BatchRows, BatchSent,
     FirstAttempt, TypeOK, InHand, Sent, Counts, Row, CurrentAttempt
<1>9. RetrySilenced'
  BY DEF Crash, NoRows, InHand, RetrySilenced, TypeOK
<1> QED
  BY <1>1, <1>2, <1>3, <1>4, <1>5, <1>6, <1>7, <1>8, <1>9

-----------------------------------------------------------------------------
(* The invariant holds of every behaviour.                                  *)
THEOREM Invariance == Spec => []IndInv
<1>1. IndInv /\ UNCHANGED vars => IndInv'
  BY DEF IndInv, vars, sweep, observers, TypeOK, FirstAttempt, RowsCount, BatchRows,
         BatchWaits, BatchSent, RetriesBounded, NoResend, NoSilentLoss,
         RetrySilenced, Sent, Counts, Waits, InHand, CurrentAttempt
<1>2. IndInv /\ Next => IndInv'
  BY EmitInv, DispatchSendInv, DispatchRecordInv, EnqueueInv, SweepInv,
     LoadEventInv, CheckWindowInv, SendRetryInv, RecordRetryInv, FinishRetryInv,
     WindowOpensInv, WindowClosesInv, TickInv, PurgeEventInv, PurgeOrphansInv,
     CrashInv
     DEF Next, Goroutine, retryOne
<1> QED
  BY <1>1, <1>2, InitInv, PTL DEF Spec

(* The types, the row's budget included: a queued row has always an attempt *)
(* left (retryOne gives up at maxDeliveryRetries).                          *)
THEOREM TypeCorrect == Spec => []TypeOK
  BY Invariance, PTL DEF IndInv

(* retryOne's budget: the first attempt, MaxRetries more, and one for each  *)
(* fault that hid an attempt.                                               *)
THEOREM BudgetHolds == Spec => []RetriesBounded
  BY Invariance, PTL DEF IndInv

(* A delivery known to have arrived is sent again only after a fault.       *)
THEOREM DeliveredOnce == Spec => []NoResend
  BY Invariance, PTL DEF IndInv

(* dispatch, the sweep and retention together drop nothing without one of   *)
(* the reasons NoSilentLoss lists.                                          *)
THEOREM NothingIsLost == Spec => []NoSilentLoss
  BY Invariance, PTL DEF IndInv

(* The sweep sends a row no sooner than its backoff after the last attempt. *)
THEOREM BackoffHolds == Spec => []BackoffKept
<1>1. IndInv => BackoffKept
  BY DEF IndInv, BackoffKept, BatchWaits, Sent, TypeOK, CurrentAttempt
<1> QED
  BY <1>1, Invariance, PTL

(* retryOne looks for a window itself, for each row of the batch.           *)
THEOREM SilenceHolds == Spec => []RetrySilenced
  BY Invariance, PTL DEF IndInv

(* Every attempt is accounted for: within the budget, not repeated after a  *)
(* success, and not given up quietly.                                       *)
THEOREM AttemptsAccount == Spec => []AttemptsAccounted
  BY BudgetHolds, DeliveredOnce, NothingIsLost, PTL DEF AttemptsAccounted

(* A retry goes out neither before its backoff nor into a silence.          *)
THEOREM RetriesInTime == Spec => []RetriesWellTimed
  BY BackoffHolds, SilenceHolds, PTL DEF RetriesWellTimed

=============================================================================
