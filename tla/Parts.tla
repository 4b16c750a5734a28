-------------------------------- MODULE Parts --------------------------------
(***************************************************************************)
(* The staff on attendance, the membership, and the components that share  *)
(* no state with the others, side by side: which of them runs is chosen at *)
(* the start, and the others stay as they begin. So the states to explore  *)
(* are the sum of theirs, and whatever one does is as if it ran alone.     *)
(***************************************************************************)
EXTENDS Attendance, Membership, Sequences, TLC

CONSTANTS
  Inputs,        \* part -> what it is given, of the parts that run
  Attempts, MaxAttempts, Duration, IdleTTL,
  Scans, StaticDays, MaxCodes, MaxScans, LastDay,
  Docs, DocTypes, Sizes, MaxTotal,
  Year, Published, Fallback, Entered, HolidayTypes, WorkingDays, MaxRows, East,
  Prices, Caps, LastPriceDay, MaxOverrides,
  Orgs, Plans, Terms, Writers, Lookups,
  Offset, Shift, MonthDays, TaxTable, ReportedStaff, WorkStart

ASSUME PartsAssumption ==
  /\ IsFiniteSet(Attempts)
  /\ {MaxAttempts, Duration} \subseteq Nat \ {0}
  /\ IdleTTL \in Nat /\ IdleTTL >= Duration
  /\ LastPriceDay \in Nat /\ MaxOverrides \in Nat
  /\ IsFiniteSet(Scans) /\ StaticDays \subseteq Int
  /\ MaxCodes \in Nat /\ LastDay \in Nat \ {0}
  /\ IsFiniteSet(Docs) /\ Sizes \subseteq Nat /\ MaxTotal \in Nat
  /\ {"NONE", "NOT_CACHED"} \cap Terms = {}

VARIABLES
  part, input,
  guard, withRedis, tick, redis, memory, attempt, guesses, promised, raced, fellBack,
  today, codes, admin, scan, rotating, crowded, clocked, uncounted,
  kinds, going, docs, objects, temp, upload, deletion, strays, cut, left, overlapped,
  given, handling, unchecked, filled, imported,
  terms, priceDay, overriding, found, served, ran, made, agreed, crossed, overtaken,
  subs, features, owed, lookup, cache, slipped

lockoutVars ==
  <<guard, withRedis, tick, redis, memory, attempt, guesses, promised, raced, fellBack>>
qrVars == <<today, codes, admin, scan, rotating, crowded, clocked, uncounted>>
documentVars ==
  <<kinds, going, docs, objects, temp, upload, deletion, strays, cut, left, overlapped>>
holidayVars == <<given, handling, unchecked, filled, imported>>
pricingVars ==
  <<terms, priceDay, overriding, found, served, ran, made, agreed, crossed, overtaken>>
planVars == <<subs, features, owed, lookup, cache, slipped>>
otherVars == <<lockoutVars, qrVars, documentVars, holidayVars, pricingVars, planVars>>

Lockout == INSTANCE Lockout WITH now <- tick
QrCodes == INSTANCE QrCodes WITH Staff <- Handlers
Documents == INSTANCE Documents WITH Types <- DocTypes, Deletions <- Handlers, types <- kinds, rows <- docs
Holidays == INSTANCE Holidays WITH
  Requests <- Handlers, rows <- given, request <- handling, contested <- filled
Pricing == INSTANCE Pricing WITH
  Calls <- Handlers, LastDay <- LastPriceDay, MaxCalls <- MaxOverrides,
  row <- terms, day <- priceDay, call <- overriding, visit <- found
PlanCache == INSTANCE PlanCache WITH rows <- subs
Payslip == INSTANCE Payslip

(* A payslip is of the records and leaves of a month, and of settings with *)
(* amounts and rates that are not negative (payroll.schema.ts).            *)
RecordType == [day : Int, in : Int, out : Int]
LeaveType == [start : Int, end : Int, type : STRING]
FigureSettings ==
  [basic : Nat, allowances : Nat, overtimeRate : Nat, ssf : BOOLEAN, ssfRate : Nat,
   pf : BOOLEAN, pfRate : Nat, cit : Nat, advance : Nat, tds : BOOLEAN,
   married : BOOLEAN, bonusRate : Nat]

IsMonth(m) ==
  /\ m \in [records : SUBSET RecordType, leaves : SUBSET LeaveType, workingDays : Nat,
            override : Nat \cup {Payslip!NoOverride}, bonusMonth : BOOLEAN, s : FigureSettings]
  /\ IsFiniteSet(m.records) /\ IsFiniteSet(m.leaves)

(* What the queries and the handlers let through: a record of a day, and   *)
(* leaves of the month that do not overlap (leave.service.ts:27-36).       *)
OfMonth(l) == l \in LeaveType /\ l.start <= l.end /\ l.start <= MonthDays /\ l.end >= 1
Disjoint(S) == \A k, l \in S : k # l => k.end < l.start \/ l.end < k.start
IsMonthOfOne(m) ==
  /\ \A r, t \in m.records : r.day = t.day => r = t
  /\ \A l \in m.leaves : OfMonth(l)
  /\ Disjoint(m.leaves)

(* SSF and PF together take no more than there is: the schema bounds each. *)
ContributionsFit(s) == (IF s.ssf THEN s.ssfRate ELSE 0) + (IF s.pf THEN s.pfRate ELSE 0) <= 100

(* The slabs as the code validates them (payroll.service.ts:68-77).        *)
Slab == [limit : Nat, rate : Nat]
IsTaxTable(table) ==
  table \in [married : Nat, unmarried : Nat, rate : Nat, slabs : Seq(Slab)]
IsValidated ==
  TaxTable.rate <= 50 /\ \A i \in 1..Len(TaxTable.slabs) : TaxTable.slabs[i].rate <= 50

IsSetting ==
  /\ Shift \in [start : Int, end : Int, early : Nat, late : Nat]
  /\ Offset \in Int /\ MonthDays \in Nat \ {0}
  /\ IsTaxTable(TaxTable)

ASSUME PayslipAssumption ==
  /\ IsSetting /\ IsValidated /\ Offset \in 0..1439
  /\ "payslip" \in DOMAIN Inputs =>
       \A m \in Inputs["payslip"] : IsMonth(m) /\ IsMonthOfOne(m) /\ ContributionsFit(m.s)
(* The reports take the clock and the threshold that they are asked with.  *)
Reports == INSTANCE Reports WITH
  Offset <- input.offset, Threshold <- input.threshold, Staff <- ReportedStaff

(* A record that is not checked out has no duration (RowCoherent).         *)
IsReported(r) ==
  /\ r.status \in {"CHECKED_IN", "CHECKED_OUT", "AUTO_CLOSED"}
  /\ r.in \in Int /\ r.duration \in Nat \cup {Reports!Open}
  /\ r.status = "CHECKED_IN" => ~Reports!IsClosed(r)
IsReport(i) ==
  /\ IsFiniteSet(i.records) /\ \A r \in i.records : IsReported(r)
  /\ i.offset \in 0..1439 /\ i.threshold \in Nat
IsDate(d) ==
  /\ d.year \in 2023..2099 /\ d.month \in 1..12
  /\ d.day \in 1..Reports!DaysInMonth(d.year, d.month)

ASSUME ReportsAssumption ==
  /\ IsFiniteSet(ReportedStaff) /\ WorkStart \in Int
  /\ "reports" \in DOMAIN Inputs => \A i \in Inputs["reports"] : IsReport(i)
  /\ "roster" \in DOMAIN Inputs => \A d \in Inputs["roster"] : IsDate(d)

PartsInit ==
  /\ part \in DOMAIN Inputs /\ input \in Inputs[part]
  /\ Init /\ MembersInit /\ Lockout!Init /\ QrCodes!Init /\ Documents!Init /\ Holidays!Init
  /\ Pricing!Init /\ PlanCache!Init
  /\ part # "lockout" => guard = "login" /\ withRedis

PartsNext ==
  /\ UNCHANGED <<part, input>>
  /\ \/ /\ part = "attendance" /\ Next /\ UNCHANGED <<memberVars, otherVars>>
     \/ /\ part = "membership" /\ MembersNext /\ UNCHANGED <<vars, otherVars>>
     \/ /\ part = "lockout" /\ Lockout!Next
        /\ UNCHANGED <<vars, memberVars, qrVars, documentVars, holidayVars, pricingVars, planVars>>
     \/ /\ part = "qrcodes" /\ QrCodes!Next
        /\ UNCHANGED <<vars, memberVars, lockoutVars, documentVars, holidayVars, pricingVars, planVars>>
     \/ /\ part = "documents" /\ Documents!Next
        /\ UNCHANGED <<vars, memberVars, lockoutVars, qrVars, holidayVars, pricingVars, planVars>>
     \/ /\ part = "holidays" /\ Holidays!Next
        /\ UNCHANGED <<vars, memberVars, lockoutVars, qrVars, documentVars, pricingVars, planVars>>
     \/ /\ part = "pricing" /\ Pricing!Next
        /\ UNCHANGED <<vars, memberVars, lockoutVars, qrVars, documentVars, holidayVars, planVars>>
     \/ /\ part = "plancache" /\ PlanCache!Next
        /\ UNCHANGED <<vars, memberVars, lockoutVars, qrVars, documentVars, holidayVars,
                       pricingVars>>

partsVars == <<part, input, vars, memberVars, otherVars>>
PartsSpec == PartsInit /\ [][PartsNext]_partsVars

-----------------------------------------------------------------------------
(* The variables of the part that runs have the types of its module.      *)
PartsTypeOK ==
  /\ part = "attendance" => TypeOK
  /\ part = "membership" => MembersTypeOK
  /\ part = "lockout" => Lockout!TypeOK
  /\ part = "qrcodes" => QrCodes!TypeOK
  /\ part = "documents" => Documents!TypeOK
  /\ part = "holidays" => Holidays!TypeOK
  /\ part = "pricing" => Pricing!TypeOK
  /\ part = "plancache" => PlanCache!TypeOK

(* A lock comes after a bounded number of guesses, and holds for its time  *)
(* in the store that set it (lockout.ts:45-64, scan-lockout.ts:86-118).    *)
LockoutHolds == part = "lockout" => Lockout!LockoutHolds

(* One rotating and one static code are active at most, and every clocking *)
(* by a code is counted (qr.service.ts:43, attendance.service.ts:1069-1101).*)
CodesKept == part = "qrcodes" => QrCodes!OneOfEachKind /\ QrCodes!ClockingsCounted

(* The rows, the bucket and the disk agree, within the limit of a member   *)
(* (documents.service.ts:75-173, 262-299). *)
DocumentsKept == part = "documents" => Documents!DocumentsKept

(* A date has one national holiday, and an import copies all of them       *)
(* (holiday.service.ts:163-218, routes/holidays.ts:76-161). *)
HolidaysKept == part = "holidays" => Holidays!HolidaysKept

(* The price of an organisation is the one agreed, and reverted when its   *)
(* term is over (superadmin.subscription.service.ts:270-357,               *)
(* price-expiry.job.ts:20-60).                                             *)
PricesKept == part = "pricing" => Pricing!PricesKept

(* The plan that the feature checks see is the one in the database once    *)
(* every update has invalidated it (plan.service.ts:54-115).               *)
PlanCacheFresh == part = "plancache" => PlanCache!CacheFresh

(* What is paid adds up and agrees with the days of the month              *)
(* (payroll.service.ts:78-117, 316-470, 1240-1339).                        *)
PayslipSound == part = "payslip" => Payslip!PayslipSound(input)

(* The reports of a day, a week and a month agree, on either clock, and a  *)
(* roster has the days it is for (report.service.ts, routes/reports.ts).   *)
ReportsSound ==
  /\ part = "reports" => Reports!ReportsSound(input.records)
  /\ part = "roster" => Reports!RosterSound(input)
=============================================================================
