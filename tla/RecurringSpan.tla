--------------------------- MODULE RecurringSpan ---------------------------
(***************************************************************************)
(* When a maintenance window covers an instant: MaintenanceWindow.Active,  *)
(* ActiveSpan, Closed and recurringSpanAt (internal/store/maintenance.go). *)
(*                                                                         *)
(* Instants are integers.  The calendar is that of the window's timezone:  *)
(* day d begins at DayStart[d] and lasts DayLen[d]; a day on which clocks  *)
(* change is shorter or longer than DayUnits.                              *)
(***************************************************************************)
EXTENDS Integers, Sequences

CONSTANTS
    DayLen,     \* sequence: the length of each day of the calendar
    DayUnits,   \* the length of an ordinary day, and the longest occurrence
    ChangeAt,   \* wall-clock time at which a change of clocks happens
    Weekdays    \* Weekdays[d]: the weekday of day d

ASSUME CalendarAssumption ==
    /\ DayLen \in Seq(Nat \ {0}) /\ DayLen # <<>>
    /\ DayUnits \in Nat \ {0} /\ ChangeAt \in 0..DayUnits - 1
    /\ Weekdays \in [1..Len(DayLen) -> 0..6]

(* What a change of clocks skips lies within the day it shortens.           *)
ASSUME ClocksAssumption ==
    \A d \in 1..Len(DayLen) : ChangeAt + (DayUnits - DayLen[d]) <= DayLen[d]

Days == 1..Len(DayLen)

(* time.Date(y, m, d, 0, 0, 0, 0, loc) of day d; day Len+1 bounds the last.  *)
DayStart[d \in 1..Len(DayLen) + 1] ==
    IF d = 1 THEN 0 ELSE DayStart[d - 1] + DayLen[d - 1]

Horizon == DayStart[Len(DayLen) + 1]
Instants == 0..Horizon - 1

(* now.In(loc).Date()                                                       *)
DayOf(t) == CHOOSE d \in Days : DayStart[d] <= t /\ t < DayStart[d + 1]

(* time.Date(y, m, d, hh, mm, 0, 0, loc): the wall clock runs with the day  *)
(* up to the change and is off by the change after it.  A time the change   *)
(* skips is carried past it.                                                *)
WallClock(d, tod) ==
    LET shift == DayLen[d] - DayUnits
        gap == IF shift < 0 THEN -shift ELSE 0
    IN  DayStart[d] + (IF tod < ChangeAt + gap THEN tod ELSE tod + shift)

NoEnd == -1                    \* the zero EndsAt of an endless series
NoSpan == <<>>

Windows ==
    [recurring : BOOLEAN, starts : Int, ends : Int, days : SUBSET (0..6),
     tod : Nat, duration : Nat, ended : BOOLEAN]

Closed(w, t) == w.ended \/ (w.ends # NoEnd /\ t >= w.ends)

SeriesDay(w) == DayOf(w.starts)
InSeries(w, t) ==
    /\ t >= DayStart[SeriesDay(w)]
    /\ w.ends = NoEnd \/ t < w.ends

Occurs(w, d) == d \in Days /\ d >= SeriesDay(w) /\ Weekdays[d] \in w.days

Occurrence(w, d) ==
    <<WallClock(d, w.tod), WallClock(d, w.tod) + w.duration>>

Covers(span, t) == span[1] <= t /\ t < span[2]

(* Mutant: only today's occurrence is looked at.                            *)
recurringSpanToday(w, t) ==
    LET day == DayOf(t)
    IN  IF InSeries(w, t) /\ Occurs(w, day) /\ Covers(Occurrence(w, day), t)
        THEN Occurrence(w, day)
        ELSE NoSpan

(* Today's occurrence, or yesterday's when it runs past midnight.           *)
recurringSpanAt(w, t) ==
    LET day == DayOf(t)
        hit(d) == Occurs(w, d) /\ Covers(Occurrence(w, d), t)
    IN  IF ~InSeries(w, t) THEN NoSpan
        ELSE IF hit(day) THEN Occurrence(w, day)
        ELSE IF hit(day - 1) THEN Occurrence(w, day - 1)
        ELSE NoSpan

ActiveSpan(w, t) ==
    IF w.ended THEN NoSpan
    ELSE IF w.recurring THEN recurringSpanAt(w, t)
    ELSE IF Covers(<<w.starts, w.ends>>, t) THEN <<w.starts, w.ends>>
    ELSE NoSpan

Active(w, t) == ActiveSpan(w, t) # NoSpan

(***************************************************************************)
(* The reference: the series is the set of its occurrences, one on each of *)
(* its weekdays from the day it begins, cut off at the end of the series.  *)
(***************************************************************************)
InSomeOccurrence(w, t) ==
    InSeries(w, t) /\ \E d \in Days : Occurs(w, d) /\ Covers(Occurrence(w, d), t)

=============================================================================
