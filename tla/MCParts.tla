------------------------------- MODULE MCParts -------------------------------
(***************************************************************************)
(* Small instances of the parts for TLC, and of the components that only   *)
(* compute: what these are given is chosen at the start, as a part.        *)
(***************************************************************************)
EXTENDS Parts, MCAttendance

(* Two holidays that Calendarific has on one date, one of them built in as *)
(* well and entered by hand.                                               *)
Calendar == INSTANCE NepaliDate
NewYear == Calendar!BSDate(Year, 1, 1)
HolidayNamed(name) == [bs |-> NewYear, date |-> Calendar!BsToAD(NewYear), name |-> name]
MCPublished == <<[date |-> Calendar!BsToAD(NewYear), name |-> "Nawa Barsha"],
                 [date |-> Calendar!BsToAD(NewYear), name |-> "Baishakh 1"]>>
MCFallback == <<HolidayNamed("Baishakh 1")>>
MCEntered == {HolidayNamed("Baishakh 1")}

(* The two conversions undo each other on every day of the calendar.       *)
ASSUME ConversionsAgree ==
  \A day \in 0..7669 : /\ Calendar!IsValidBSDate(Calendar!AdToBS(day))
                       /\ Calendar!BsToAD(Calendar!AdToBS(day)) = day

(* The holidays built in have a Nepali date that is not the one of their   *)
(* Gregorian date: 16 of 32, 13 of 30 and 15 of 20.                        *)
Lists == INSTANCE NepalHolidays
Misdated(year) == LET list == Lists!BuiltIn(year) IN
  {i \in DOMAIN list : list[i].bs # Calendar!AdToBS(list[i].date)}
ASSUME BuiltInMisdated == [y \in 2081..2083 |-> Cardinality(Misdated(y))] =
  (2081 :> 16 @@ 2082 :> 13 @@ 2083 :> 15)

(* A month of 32 days, and the slabs of the tax at a scale that fits. *)
MCShift == [start |-> 600, end |-> 1080, early |-> 15, late |-> 30]
MCTaxTable ==
  [married |-> 1800000, unmarried |-> 1500000, rate |-> 1,
   slabs |-> <<[limit |-> 600000, rate |-> 10], [limit |-> 0, rate |-> 39]>>]

Clocked(day, in, out) == [day |-> day, in |-> in, out |-> out]
Regular(days) == {Clocked(d, 600, 1080) : d \in 1..days}
OnLeave(start, end, type) == [start |-> start, end |-> end, type |-> type]

(* A whole month, a day, the days before an early one and before a late    *)
(* one; leaves that cross either end of the month.                         *)
PaidMonths ==
  [records : {Regular(31), Regular(1),
              Regular(3) \cup {Clocked(4, 300, 700)},
              Regular(3) \cup {Clocked(4, 590, 1120), Clocked(5, 600, Payslip!Open)}},
   leaves : {{}, {OnLeave(30, 34, "SICK")},
             {OnLeave(10, 11, "ANNUAL"), OnLeave(-2, 2, "UNPAID")}},
   workingDays : {26, 32}, override : {Payslip!NoOverride, 800}, bonusMonth : BOOLEAN,
   s : [basic : {0, 600001}, allowances : {0, 200000}, overtimeRate : {7333},
        ssf : BOOLEAN, ssfRate : {11}, pf : {TRUE}, pfRate : {10}, cit : {100000},
        advance : {400000}, tds : {TRUE}, married : {FALSE}, bonusRate : {100}]]

(* The examples of payroll.service.ts:1265-1267: the code counts 40, 60    *)
(* and no minutes, where they say 10, 30 and none.                         *)
ASSUME OvertimeExamples ==
  /\ Payslip!OvertimeOf(Clocked(1, 590, 1120)) = 40
  /\ Payslip!OvertimeOf(Clocked(1, 600, 1140)) = 60
  /\ Payslip!OvertimeOf(Clocked(1, 600, 1105)) = 0

(* Two employees and one whose record outlives the membership: check-ins   *)
(* before the offset, on the first and on the last day of a week and of a  *)
(* month of 28 days, open ones and ones that the job has closed; one of    *)
(* every day of the month, once with an early one before; an open one only.*)
Shown(who, day, in, duration, status) ==
  [member |-> who, in |-> 1440 * day + in, duration |-> duration, status |-> status]
EveryDay == {Shown("e2", d, 600, 480, "CHECKED_OUT") : d \in 0..27}
Reported == SUBSET
  {Shown("e1", 0, 600, 480, "CHECKED_OUT"), Shown("e1", 0, 1100, 60, "AUTO_CLOSED"),
   Shown("e2", 0, 300, 240, "CHECKED_OUT"), Shown("e2", 5, 1430, 5, "CHECKED_OUT"),
   Shown("e1", 6, 605, -1, "CHECKED_IN"), Shown("left", 6, 616, 30, "CHECKED_OUT"),
   Shown("e1", 27, 340, 500, "AUTO_CLOSED"), Shown("e2", 27, 345, 500, "CHECKED_OUT")}
  \cup {EveryDay, EveryDay \cup {Shown("e2", 0, 300, 240, "CHECKED_OUT")},
        {Shown("e1", 0, 605, -1, "CHECKED_IN")}}

(* In Kathmandu and in Greenwich.                                          *)
Clocks == {[offset |-> 345, threshold |-> 15], [offset |-> 0, threshold |-> 0]}
ReportsAsked ==
  {[records |-> r, offset |-> c.offset, threshold |-> c.threshold] : r \in Reported, c \in Clocks}

(* Every day of years that begin on a Monday, a Wednesday and a Thursday.  *)
RosterDates ==
  {date \in [year : 2024..2026, month : 1..12, day : 1..31] :
     date.day <= Reports!DaysInMonth(date.year, date.month)}

MCInputs ==
  [p \in {"attendance", "membership", "lockout", "qrcodes", "documents", "holidays", "pricing",
          "plancache", "payslip", "reports", "roster"} |->
    CASE p = "payslip" -> PaidMonths
      [] p = "reports" -> ReportsAsked
      [] p = "roster" -> RosterDates
      [] OTHER -> {"none"}]

Symmetry == Permutations(Handlers) \cup Permutations(Attempts) \cup Permutations(Lookups)
=============================================================================
