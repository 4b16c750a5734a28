------------------------------ MODULE Payslip ------------------------------
(***************************************************************************)
(* The figures of one payslip: the days and the overtime counted from the  *)
(* attendance of a month, the days of its leaves, and what is paid and     *)
(* deducted (calculateEmployeePayroll and its helpers, payroll.service.ts).*)
(*                                                                         *)
(* Money is in paisa and hours in hundredths, as the code rounds them, and *)
(* a rate in percent. The arithmetic is exact: the code's floating-point   *)
(* products may be off by a paisa where one ends in half a paisa. Times    *)
(* are minutes of the local day.                                           *)
(***************************************************************************)
EXTENDS Integers, Sequences, FiniteSets, FiniteSetsExt

CONSTANTS
  East,     \* whether the server's clock is ahead of Greenwich, or on it
  Offset,   \* by how many minutes
  Shift,    \* the organisation's hours and grace: [start, end, early, late]
  MonthDays,  \* the days of the month
  TaxTable  \* tds_slabs: [married, unmarried, rate, slabs], rates validated

(* Math.round: halves go up. *)
Round(n, d) == (n + d \div 2) \div d
Ceil(n, d) == -((-n) \div d)
AtLeastNil(n) == Max({0, n})
AtMost(n, limit) == Min({n, limit})
Minutes == 1440

-----------------------------------------------------------------------------
(* The attendance of the month: a record has its day, its times, which may *)
(* still lack a check-out, and nobody checks out on another day.           *)

Open == -1    \* checkOutTime IS NULL
IsClosed(r) == r.out # Open

(* toISOString names the day: in the East a check-in before the offset is  *)
(* one of the day before.                                                  *)
IsoDay(r) == IF East /\ r.in < Offset THEN r.day - 1 ELSE r.day
DaysPresent(records) == Cardinality({IsoDay(r) : r \in records})

(* Minutes before and after the shift count in full once they exceed the   *)
(* grace.                                                                  *)
Beyond(minutes, grace) == IF minutes > grace THEN minutes ELSE 0

OvertimeOf(r) ==
  IF IsClosed(r) /\ r.out > r.in
  THEN Beyond(AtLeastNil(Shift.start - r.in), Shift.early)
       + Beyond(AtLeastNil(r.out - Shift.end), Shift.late)
  ELSE 0
OvertimeHours(records) == Round(100 * MapThenSumSet(OvertimeOf, records), 60)

(* An approved leave is cut at the ends of the month, local times, while   *)
(* its own dates are midnights of Greenwich.                               *)
LeaveTime(day) == day * Minutes + (IF East THEN Offset ELSE 0)
LeaveDays(l) ==
  LET start == Max({LeaveTime(l.start), Minutes})
      end == Min({LeaveTime(l.end), (MonthDays + 1) * Minutes - 1})
  IN Ceil(end - start, Minutes) + 1
PaidLeaveDays(leaves) == MapThenSumSet(LeaveDays, {l \in leaves : l.type # "UNPAID"})

-----------------------------------------------------------------------------
(* The tax of a month (calculateNepalTDS): the year's income goes through  *)
(* the slabs; the slab with limit 0 takes the rest. In rupees, rounded.    *)
Rupee == 100
NoLimit(slab) == slab.limit = 0

Slabs(married, ssf) ==
  <<[limit |-> IF married THEN TaxTable.married ELSE TaxTable.unmarried,
     rate |-> IF ssf THEN 0 ELSE TaxTable.rate]>> \o TaxTable.slabs

TaxThrough(slabs, income) ==
  LET f[i \in 1..(Len(slabs) + 1)] == [remaining \in Int |->
        IF i > Len(slabs) \/ remaining <= 0 THEN 0
        ELSE LET taxable == IF i > 1 /\ NoLimit(slabs[i]) THEN remaining
                            ELSE AtMost(remaining, slabs[i].limit)
             IN taxable * slabs[i].rate + f[i + 1][remaining - taxable]]
  IN f[1][income]

Tds(annual, married, ssf) ==
  Round(TaxThrough(Slabs(married, ssf), annual), 12 * 100 * Rupee) * Rupee

-----------------------------------------------------------------------------
(* What is paid and deducted, for the month m: its records, leaves and     *)
(* working days, the corrected overtime if any, the pay settings s, and    *)
(* whether it is the month of the bonus.                                   *)
NoOverride == -1
Percent(amount, rate) == Round(amount * rate, 100)

EffectivePresent(m) ==
  AtMost(DaysPresent(m.records) + PaidLeaveDays(m.leaves), m.workingDays)
DaysAbsent(m) == AtLeastNil(m.workingDays - EffectivePresent(m))
AbsenceDeduction(m) == Round(m.s.basic, 30) * DaysAbsent(m)
OvertimePay(m) ==
  LET hours == IF m.override = NoOverride THEN OvertimeHours(m.records) ELSE m.override
  IN Round(hours * m.s.overtimeRate, 100)
Gross(m) == m.s.basic + m.s.allowances + OvertimePay(m) - AbsenceDeduction(m)
EffectiveBasic(m) == AtLeastNil(m.s.basic - AbsenceDeduction(m))

IfEarning(m, amount) == IF Gross(m) > 0 THEN amount ELSE 0
EmployeeSsf(m) == IF m.s.ssf THEN IfEarning(m, Percent(EffectiveBasic(m), m.s.ssfRate)) ELSE 0
EmployeePf(m) == IF m.s.pf THEN IfEarning(m, Percent(EffectiveBasic(m), m.s.pfRate)) ELSE 0
Cit(m) == IfEarning(m, m.s.cit)
Advance(m) == IfEarning(m, m.s.advance)
DashainBonus(m) == IF m.bonusMonth THEN Percent(m.s.basic, m.s.bonusRate) ELSE 0
Taxable(m) == Gross(m) + DashainBonus(m) - EmployeeSsf(m) - EmployeePf(m) - Cit(m)
Tax(m) == IF m.s.tds THEN IfEarning(m, Tds(12 * Taxable(m), m.s.married, m.s.ssf)) ELSE 0

RawDeductions(m) == EmployeeSsf(m) + EmployeePf(m) + Cit(m) + Advance(m) + Tax(m)

(* A mistaken form: more may be deducted than is earned. *)
RawTotal(m) == RawDeductions(m)

TotalDeductions(m) == AtMost(RawDeductions(m), Gross(m) + DashainBonus(m))
Net(m) == AtLeastNil(Gross(m) + DashainBonus(m) - TotalDeductions(m))

(* The payslip of a month without a day present has nothing but nils.      *)
Attended(m) == EffectivePresent(m) # 0
NetSalary(m) == IF Attended(m) THEN Net(m) ELSE 0

-----------------------------------------------------------------------------
(* What is paid and what is deducted add up to what was earned, whatever   *)
(* cap or floor was applied, and nothing is added by a deduction unless    *)
(* the absence cost more than was earned (payroll.service.ts:394-433).     *)
AddsUp(m) ==
  /\ Net(m) + TotalDeductions(m) = Gross(m) + DashainBonus(m)
  /\ Gross(m) >= 0 => TotalDeductions(m) >= 0

(* Absence costs no more than the pay of a month, but for one of more than *)
(* thirty days: the divisor is thirty, a month may have 32 working days    *)
(* (payroll.service.ts:392-397). Thirty days may cost fifteen paisa more.  *)
AbsenceBounded(m) == DaysAbsent(m) <= 30 => Gross(m) + 15 >= 0

(* A day of attendance more is never paid a rupee less, the rupee the tax  *)
(* is rounded to, unless the day before earned nothing and so had nothing  *)
(* deducted (payroll.service.ts:400-433).                                  *)
PresencePays(m) == \A r \in m.records :
  LET less == [m EXCEPT !.records = @ \ {r}] IN
  NetSalary(less) < NetSalary(m) + Rupee \/ (Attended(less) /\ Gross(less) <= 0)

(* Who was there on every working day is not absent, unless a check-in of  *)
(* the early morning counted for the day before, and who was not is not    *)
(* present, unless a leave crosses the end of the month, which counts it   *)
(* for a day more (payroll.service.ts:1256, 1305).                         *)
DaysCounted(m) ==
  LET attended == {r.day : r \in m.records}
      onLeave == {d \in 1..MonthDays : \E l \in m.leaves : d \in l.start..l.end /\ l.type # "UNPAID"}
      worked == Cardinality(attended) + Cardinality(onLeave)
      early == {r \in m.records : r.in < Offset}
      crossing == {l \in m.leaves : l.start < 1 \/ l.end > MonthDays}
  IN /\ early = {} => DaysAbsent(m) <= AtLeastNil(m.workingDays - worked)
     /\ crossing = {} => DaysAbsent(m) >= AtLeastNil(m.workingDays - worked)

(* Tax is marginal: a rupee more in the month costs its highest rate and   *)
(* the rounding of two months at most, and never saves any                 *)
(* (payroll.service.ts:78-117).                                            *)
TaxMarginal(m) ==
  LET tax(income) == Tds(12 * income, m.s.married, m.s.ssf)
      highest == Max({Slabs(m.s.married, m.s.ssf)[i].rate : i \in 1..(Len(TaxTable.slabs) + 1)})
      more == tax(Taxable(m) + 10 * Rupee) - tax(Taxable(m))
  IN more >= 0 /\ more <= 10 * highest + Rupee

(* The payslip is consistent with itself, with the month it is of, and     *)
(* with the payslip of the same month with a day less.                     *)
PayslipSound(m) ==
  /\ AddsUp(m) /\ AbsenceBounded(m) /\ PresencePays(m) /\ DaysCounted(m) /\ TaxMarginal(m)
=============================================================================
