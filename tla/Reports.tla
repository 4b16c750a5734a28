------------------------------- MODULE Reports -------------------------------
(***************************************************************************)
(* The figures of the attendance reports of a day, a week and a month      *)
(* (report.service.ts), the days of the duty roster (routes/reports.ts),   *)
(* and who is notified as late (attendance.service.ts).                    *)
(*                                                                         *)
(* A time is in minutes of the server's clock, from the midnight that      *)
(* starts the period. A record has its member, its check-in, its duration  *)
(* if it is closed, and its status. Hours are tenths, as they are shown.   *)
(***************************************************************************)
EXTENDS Integers, FiniteSets, FiniteSetsExt

CONSTANTS
  Offset,     \* the minutes by which the server's clock is ahead of Greenwich
  Staff,      \* the active memberships of the role EMPLOYEE
  WorkStart,  \* organizations.workStartTime, in minutes of the day
  Threshold   \* organizations.lateThresholdMinutes

Minutes == 1440
Round(n, d) == (2 * n + d) \div (2 * d)    \* Math.round: halves go up
Tenths(minutes) == Round(10 * minutes, 60)
Rate(n, d) == IF d > 0 THEN Round(n, d) ELSE 0

Open == -1    \* duration IS NULL
IsClosed(r) == r.duration # Open

LocalDay(time) == time \div Minutes
IsoDay(time) == (time - Offset) \div Minutes   \* toISOString, cut at the day
Midnight(day) == day * Minutes

(* The records of local days; the query does not look at the role of their *)
(* members, nor at whether they still are members.                         *)
OfDays(records, first, last) == {r \in records : LocalDay(r.in) \in first..last}
MembersOf(records) == {r.member : r \in records}
Worked(records) == MapThenSumSet(LAMBDA r : r.duration, {r \in records : IsClosed(r)})

-----------------------------------------------------------------------------
(* The report of a day.                                                    *)
HasStatus(records, status) == {r \in records : r.status = status}
SinceStart(r) == (r.in % Minutes) - WorkStart
Late(r) == SinceStart(r) > Threshold

Daily(records, day) ==
  LET found == OfDays(records, day, day)
      completed == Cardinality(HasStatus(found, "CHECKED_OUT"))
  IN [present |-> MembersOf(found),
      absent |-> Staff \ MembersOf(found),
      clockedIn |-> Cardinality(HasStatus(found, "CHECKED_IN")),
      completed |-> completed,
      minutes |-> Worked(found),
      average |-> Rate(Worked(found), completed),
      rate |-> Rate(100 * Cardinality(MembersOf(found)), Cardinality(Staff)),
      late |-> {r \in found : Late(r)}]

(* A threshold of nil is taken for none by the notification.               *)
Notified(r) == SinceStart(r) > IF Threshold = 0 THEN 10 ELSE Threshold

-----------------------------------------------------------------------------
(* What the reports of a week and of a month have for each employee, and   *)
(* for all of them.                                                        *)
Stats(records) == [m \in Staff |->
  LET mine == {r \in records : r.member = m}
      days == Cardinality({IsoDay(r.in) : r \in mine})
  IN [days |-> days, shifts |-> Cardinality(mine),
      completed |-> Cardinality({r \in mine : IsClosed(r)}),
      minutes |-> Worked(mine),
      averageHours |-> Rate(10 * Worked(mine), 60 * days)]]

Summary(stats) ==
  LET attending == Cardinality({m \in Staff : stats[m].days > 0})
      minutes == MapThenSumSet(LAMBDA m : stats[m].minutes, Staff)
      days == MapThenSumSet(LAMBDA m : stats[m].days, Staff)
  IN [attending |-> attending, minutes |-> minutes,
      averageHours |-> Rate(10 * minutes, 60 * attending),
      averageDays |-> Rate(10 * days, attending)]

(* A day of the week's breakdown: the records are those whose check-in has *)
(* the date of the local midnight, both dates Greenwich's.                 *)
DayRow(found, day) ==
  LET counted == {r \in found : IsoDay(r.in) = IsoDay(Midnight(day))}
      present == Cardinality(MembersOf(counted))
  IN [counted |-> counted, present |-> present, absent |-> Cardinality(Staff) - present,
      hours |-> Tenths(Worked(counted))]

Weekly(records, start) ==
  LET found == OfDays(records, start, start + 6) IN
  [stats |-> Stats(found), summary |-> Summary(Stats(found)),
   rows |-> [i \in 0..6 |-> DayRow(found, start + i)]]

(* A week of the month's breakdown: it ends at the midnight that starts    *)
(* its last day, or, cut, at the last moment of the month.                 *)
WeekEnd(day, last) ==
  IF Midnight(day + 6) > Midnight(last + 1) - 1 THEN Midnight(last + 1) - 1 ELSE Midnight(day + 6)

(* A mistaken form: the last date is left out. *)
InWeekBefore(r, day, last) ==
  IsoDay(r.in) >= IsoDay(Midnight(day)) /\ IsoDay(r.in) < IsoDay(WeekEnd(day, last))

InWeek(r, day, last) ==
  IsoDay(r.in) >= IsoDay(Midnight(day)) /\ IsoDay(r.in) <= IsoDay(WeekEnd(day, last))

WeekRow(found, day, last) ==
  LET counted == {r \in found : InWeek(r, day, last)} IN
  [counted |-> counted, present |-> Cardinality(MembersOf(counted)),
   hours |-> Tenths(Worked(counted))]

Monthly(records, first, days) ==
  LET last == first + days - 1
      found == OfDays(records, first, last)
      stats == Stats(found)
      rates == [m \in Staff |-> Round(100 * stats[m].days, days)]
  IN [stats |-> stats, summary |-> Summary(stats),
      daysAbsent |-> [m \in Staff |-> days - stats[m].days],
      rate |-> Rate(MapThenSumSet(LAMBDA m : rates[m], Staff), Cardinality(Staff)),
      weeks |-> [i \in 0..((days - 1) \div 7) |-> WeekRow(found, first + 7 * i, last)]]

-----------------------------------------------------------------------------
(* The duty roster: its days, counted from a Sunday, 1 January 2023, and   *)
(* those on which a member works. A date is of the server's clock, between *)
(* 2023 and 2099.                                                          *)
DaysInMonth(year, month) ==
  CASE month = 2 -> IF year % 4 = 0 THEN 29 ELSE 28
    [] month \in {4, 6, 9, 11} -> 30
    [] OTHER -> 31
DayNumber(year, month, day) ==
  365 * (year - 2023) + (year - 2021) \div 4
  + MapThenSumSet(LAMBDA m : DaysInMonth(year, m), 1..(month - 1)) + day - 1
DayOf(date) == DayNumber(date.year, date.month, date.day)
Weekday(day) == day % 7

Sunday(date) == DayOf(date) - Weekday(DayOf(date))
YearOfSunday(date) ==
  IF Sunday(date) < DayNumber(date.year, 1, 1) THEN date.year - 1 ELSE date.year

(* The month's roster starts from that Sunday: setDate, then setMonth. *)
RosterStart(period, today) ==
  IF period = "monthly" THEN DayNumber(YearOfSunday(today), today.month, 1) ELSE Sunday(today)
RosterLength(period, today) ==
  CASE period = "monthly" -> DaysInMonth(today.year, today.month)
    [] period = "fortnightly" -> 14
    [] OTHER -> 7
RosterDays(period, today) ==
  LET start == RosterStart(period, today) IN start..(start + RosterLength(period, today) - 1)

(* A page of the month has sixteen days at most. *)
RosterPages(period, today) ==
  LET days == RosterDays(period, today)
      columns == IF period = "monthly" THEN 16 ELSE Cardinality(days)
      page(day) == (day - RosterStart(period, today)) \div columns
  IN [p \in {page(day) : day \in days} |-> {day \in days : page(day) = p}]

(* A member without days of their own works on the organisation's.         *)
Marked(page, own, organisation) ==
  {day \in page : Weekday(day) \in IF own = {} THEN organisation ELSE own}

-----------------------------------------------------------------------------
Ahead == Offset > 0
Early(records) == {r \in records : r.in % Minutes < Offset}

(* A row of the week shows what the report of its day does; in the East    *)
(* that of the day before, so the last day of the week is in no row        *)
(* (report.service.ts:186-203).                                            *)
WeekShowsDays(records) == LET week == Weekly(records, 0) IN
  \A i \in 0..6 :
    LET shown == IF Ahead THEN i - 1 ELSE i
        daily == Daily(records, shown)
    IN Early(records) = {} =>
         IF shown < 0 THEN week.rows[i].counted = {}
         ELSE /\ week.rows[i].counted = OfDays(records, shown, shown)
              /\ week.rows[i].present = Cardinality(daily.present)
              /\ week.rows[i].hours = Tenths(daily.minutes)

(* Every record of a month is in one week of it, but in the East one of    *)
(* the last day of twenty-eight: nothing cuts the last week then, and it   *)
(* ends a day early (report.service.ts:357-372).                           *)
WeeksCover(records, days) ==
  LET weeks == Monthly(records, 0, days).weeks
      found == OfDays(records, 0, days - 1)
      lost == {r \in found : Ahead /\ days = 28 /\ IsoDay(r.in) = 27}
  IN \A r \in found :
       Cardinality({i \in DOMAIN weeks : r \in weeks[i].counted}) = IF r \in lost THEN 0 ELSE 1

(* No employee is present on more days than the month has, unless a        *)
(* check-in early on its first is one of the day before                    *)
(* (report.service.ts:285-293).                                            *)
DaysWithin(records, days) == LET month == Monthly(records, 0, days) IN
  \A m \in Staff : month.daysAbsent[m] < 0 =>
    \E r \in Early(records) : r.member = m /\ LocalDay(r.in) = 0

(* Of the shifts that are over, one was as long as the average of the day, *)
(* unless that counts the minutes of shifts that the job closed but not    *)
(* those shifts (report.service.ts:90-97).                                 *)
AverageBounded(records) ==
  LET daily == Daily(records, 0)
      found == OfDays(records, 0, 0)
      over == {r \in found : IsClosed(r)}
  IN (over # {} /\ \A r \in over : r.duration < daily.average)
       => HasStatus(found, "AUTO_CLOSED") # {}

(* Who is reported late was notified, unless the threshold is nil, which   *)
(* the report takes as it is (report.service.ts:99-108,                    *)
(* attendance.service.ts:1126-1132).                                       *)
LateAgrees(records) ==
  /\ {r \in records : Notified(r)} \subseteq {r \in records : Late(r)}
  /\ Threshold # 0 => {r \in records : Notified(r)} = {r \in records : Late(r)}

(* The reports of the records of a month agree with each other.            *)
ReportsSound(records) ==
  /\ WeekShowsDays(records) /\ AverageBounded(records) /\ LateAgrees(records)
  /\ \A days \in 28..31 : WeeksCover(records, days) /\ DaysWithin(records, days)

(* The roster of a week or two has today in it, that of a month has the    *)
(* days of the month, each on one page, and a week has each working day    *)
(* once. But before the first Sunday of January the days of the month are  *)
(* those of January a year ago (routes/reports.ts:76-117).                 *)
RosterSound(today) ==
  /\ \A period \in {"weekly", "fortnightly"} :
       DayOf(today) \in RosterDays(period, today)
  /\ LET days == {DayNumber(today.year, today.month, d) :
                     d \in 1..DaysInMonth(today.year, today.month)}
         yearAgo == {DayNumber(today.year - 1, 1, d) : d \in 1..31}
         astray == today.month = 1 /\ Sunday(today) < DayNumber(today.year, 1, 1)
     IN RosterDays("monthly", today) = IF astray THEN yearAgo ELSE days
  /\ LET pages == RosterPages("monthly", today) IN
     /\ UNION {pages[p] : p \in DOMAIN pages} = RosterDays("monthly", today)
     /\ \A p \in DOMAIN pages : Cardinality(pages[p]) <= 16
  /\ \A own \in {{}, {1, 3}} : LET organisation == 0..5 IN
       Cardinality(Marked(RosterDays("weekly", today), own, organisation))
       = IF own = {} THEN 6 ELSE 2
=============================================================================
