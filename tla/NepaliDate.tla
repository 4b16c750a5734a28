----------------------------- MODULE NepaliDate -----------------------------
(***************************************************************************)
(* The Bikram Sambat calendar of lib/nepali-date.ts. A Gregorian day is    *)
(* counted from AD_REFERENCE, 14 April 2013, which is day 0 and a Sunday:  *)
(* the time of day is cut off before any of these is asked.                *)
(***************************************************************************)
EXTENDS Integers, Sequences, FiniteSets, FiniteSetsExt

CONSTANT East    \* whether the server's clock is ahead of Greenwich, or on it

FirstYear == 2070
CalendarData == <<
    <<31, 31, 32, 31, 31, 31, 30, 29, 30, 29, 30, 30>>,
    <<31, 31, 32, 31, 32, 30, 30, 29, 30, 29, 30, 30>>,
    <<31, 32, 31, 32, 31, 30, 30, 30, 29, 29, 30, 31>>,
    <<30, 32, 31, 32, 31, 30, 30, 30, 29, 30, 29, 31>>,
    <<31, 31, 32, 31, 31, 31, 30, 29, 30, 29, 30, 30>>,
    <<31, 31, 32, 32, 31, 30, 30, 29, 30, 29, 30, 30>>,
    <<31, 32, 31, 32, 31, 30, 30, 30, 29, 29, 30, 31>>,
    <<30, 32, 31, 32, 31, 31, 29, 30, 30, 29, 29, 31>>,
    <<31, 31, 32, 31, 31, 31, 30, 29, 30, 29, 30, 30>>,
    <<31, 31, 32, 32, 31, 30, 30, 29, 30, 29, 30, 30>>,
    <<31, 32, 31, 32, 31, 30, 30, 30, 29, 29, 30, 31>>,
    <<31, 31, 31, 32, 31, 31, 29, 30, 30, 29, 30, 30>>,
    <<31, 31, 32, 31, 31, 31, 30, 29, 30, 29, 30, 30>>,
    <<31, 31, 32, 32, 31, 30, 30, 29, 30, 29, 30, 30>>,
    <<31, 32, 31, 32, 31, 30, 30, 30, 29, 29, 30, 31>>,
    <<31, 31, 31, 32, 31, 31, 29, 30, 30, 29, 30, 30>>,
    <<31, 31, 32, 31, 31, 31, 30, 29, 30, 29, 30, 30>>,
    <<31, 32, 31, 32, 31, 30, 30, 29, 30, 29, 30, 30>>,
    <<31, 32, 31, 32, 31, 30, 30, 30, 29, 29, 30, 31>>,
    <<31, 31, 31, 32, 31, 31, 30, 29, 30, 29, 30, 30>>,
    <<31, 31, 32, 31, 31, 31, 30, 29, 30, 29, 30, 30>> >>

Years == FirstYear..(FirstYear + Len(CalendarData) - 1)
Months == 1..12
DaysInBSMonth(year, month) == CalendarData[year - FirstYear + 1][month]
IsValidBSDate(bs) ==
  /\ bs.year \in Years /\ bs.month \in Months
  /\ bs.day \in 1..DaysInBSMonth(bs.year, bs.month)

BSDate(year, month, day) == [year |-> year, month |-> month, day |-> day]
OutOfRange == [year |-> 0]    \* the function throws

(* The days from the first of a month are gone through month by month. *)
Walk[n \in Nat, year \in Nat, month \in Months] ==
  IF year \notin Years THEN OutOfRange
  ELSE LET days == DaysInBSMonth(year, month) IN
       IF n < days THEN BSDate(year, month, n + 1)
       ELSE IF month = 12 THEN Walk[n - days, year + 1, 1]
       ELSE Walk[n - days, year, month + 1]

AdToBS(day) == IF day < 0 THEN OutOfRange ELSE Walk[day, FirstYear, 1]

DaysOf(year, months) ==
  MapThenSumSet(LAMBDA m : DaysInBSMonth(year, m), months)

(* For a date that is valid; the function throws for the others. *)
BsToAD(bs) ==
  MapThenSumSet(LAMBDA y : DaysOf(y, Months), FirstYear..(bs.year - 1))
  + DaysOf(bs.year, 1..(bs.month - 1)) + bs.day - 1

Weekday(day) == day % 7    \* getDay: 0 is a Sunday
DaysOfMonth(year, month) ==
  {BsToAD(BSDate(year, month, d)) : d \in 1..DaysInBSMonth(year, month)}

(* What toISOString makes of a local midnight: a day earlier in the East.  *)
IsoDay(day) == IF East THEN day - 1 ELSE day

(* The days of a month on which an organisation works that works on        *)
(* workingDays and is off on the holidays, a set of days: the function     *)
(* counts them. The weekday is the local one.                              *)
EffectiveWorkingDays(year, month, holidays, workingDays) ==
  {d \in DaysOfMonth(year, month) : Weekday(d) \in workingDays /\ IsoDay(d) \notin holidays}
=============================================================================
