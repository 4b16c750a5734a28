----------------------------- MODULE Attendance -----------------------------
(***************************************************************************)
(* The attendance records of one organisation: the self-service clock      *)
(* action of the kiosk and of the mobile app (one SERIALIZABLE             *)
(* transaction), the manual operations of the staff (each a read, some     *)
(* validation, and an unconditional write by id), and the auto-close job   *)
(* (a snapshot of the open records, then one unconditional write each).    *)
(*                                                                         *)
(* A point in time is a pair of a day and a tick of that day, one tick     *)
(* being the scan cooldown: two instants the cooldown cannot separate are  *)
(* the same tick.                                                          *)
(***************************************************************************)
EXTENDS Integers, FiniteSets

CONSTANTS
  Members,      \* the memberships (employees) of the organisation
  Staff,        \* the concurrent requests of admins and accountants
  Jobs,         \* the concurrent runs of the auto-close job
  RoleOf,       \* the role each staff request is made under
  ShiftEnd,     \* per membership, the tick its shift ends at, on any day
  LastTick,     \* the last tick of a day (23:59:59.999)
  FormTimes,    \* bound: the times a staff form may name
  MaxDay,       \* bound: the last day explored
  MaxRecords    \* bound: how many attendance records are ever created

Roles == {"ORG_ADMIN", "ORG_ACCOUNTANT"}

ASSUME TimeAssumption ==
  /\ LastTick \in Nat
  /\ MaxDay \in Nat
  /\ MaxRecords \in Nat
  /\ ShiftEnd \in [Members -> 0..LastTick]
  /\ FormTimes \subseteq [day : 0..MaxDay, tick : 0..LastTick]
ASSUME StaffAssumption == RoleOf \in [Staff -> Roles]

MAX_DAILY_SCANS == 2

-----------------------------------------------------------------------------
(* Time. *)

Days  == 0..MaxDay
Times == [day : Days, tick : 0..LastTick]

(* The null of a DateTime column; it is no point in time. *)
NoTime == [day |-> -1, tick |-> 0]

Before(s, t) == s.day < t.day \/ (s.day = t.day /\ s.tick < t.tick)

(* What validateTimestamp accepts of a form, its 90-day window apart.      *)
FormTimesUpTo(t) == {s \in FormTimes : ~Before(t, s)}

-----------------------------------------------------------------------------
(* Rows of attendance_records. A duration is kept as the pair of times it  *)
(* was computed from; bsDay stands for the Nepali date columns.            *)

RecordIds == 1..MaxRecords

Statuses == {"CHECKED_IN", "CHECKED_OUT", "AUTO_CLOSED"}

OptTime == Times \cup {NoTime}

Row == [membershipId     : Members,
        status           : Statuses,
        checkInTime      : Times,
        checkOutTime     : OptTime,
        duration         : OptTime \X OptTime,
        bsDay            : Days,
        originalCheckIn  : OptTime,
        originalCheckOut : OptTime,
        reviewed         : BOOLEAN]

NoDuration == <<NoTime, NoTime>>

(* The pending write of a staff request: what it decided from its read. *)
Idle == [op |-> "idle"]
Requests ==
  {Idle}
  \cup [op : {"clockIn"}, membershipId : Members]
  \cup [op : {"clockOut"}, id : RecordIds, readCheckIn : Times]
  \cup [op : {"acknowledge"}, id : RecordIds]
  \cup [op : {"edit"}, id : RecordIds, originalCheckIn : OptTime, originalCheckOut : OptTime,
        checkIn : OptTime, resolvedCheckIn : Times, checkOut : OptTime]
  \cup [op : {"markPresent"}, membershipId : Members, checkIn : Times, checkOut : OptTime]

VARIABLES
  now,        \* the server clock (TZ=Asia/Kathmandu)
  records,    \* record id -> row, for the ids created so far
  request,    \* staff -> pending write, or Idle
  job,        \* job run -> its start time and the snapshot rows left to visit
  flagCalls,  \* payroll flag calls issued and not yet handled by payroll
  manual      \* history: memberships a staff write has touched

vars == <<now, records, request, job, flagCalls, manual>>

Snapshots == [id : RecordIds, checkInTime : Times]
IdleJob == [startedAt |-> [day |-> 0, tick |-> 0], todo |-> {}]
FlagCalls == [membershipId : Members, day : Days]

TypeOK ==
  /\ now \in Times
  /\ DOMAIN records \in SUBSET RecordIds
  /\ records \in [DOMAIN records -> Row]
  /\ request \in [Staff -> Requests]
  /\ job \in [Jobs -> [startedAt : Times, todo : SUBSET Snapshots]]
  /\ flagCalls \in SUBSET FlagCalls
  /\ manual \in SUBSET Members

Init ==
  /\ now = [day |-> 0, tick |-> 0]
  /\ records = [r \in {} |-> {}]
  /\ request = [s \in Staff |-> Idle]
  /\ job = [j \in Jobs |-> IdleJob]
  /\ flagCalls = {}
  /\ manual = {}

-----------------------------------------------------------------------------
(* Queries and row updates. *)

Ids == DOMAIN records

RecordsOf(m) == {r \in Ids : records[r].membershipId = m}
OpenRecords(m) == {r \in RecordsOf(m) : records[r].status = "CHECKED_IN"}
RecordsOn(m, d) == {r \in RecordsOf(m) : records[r].checkInTime.day = d}

(* attendanceRecord.create: the row gets the next id. *)
FreshId(r) == r \in RecordIds \ Ids /\ \A s \in RecordIds \ Ids : r <= s

Extended(table, r, row) ==
  [s \in DOMAIN table \cup {r} |-> IF s = r THEN row ELSE table[s]]

NewRow(m, checkIn, checkOut) ==
  [membershipId     |-> m,
   status           |-> IF checkOut = NoTime THEN "CHECKED_IN" ELSE "CHECKED_OUT",
   checkInTime      |-> checkIn,
   checkOutTime     |-> checkOut,
   duration         |-> IF checkOut = NoTime THEN NoDuration ELSE <<checkIn, checkOut>>,
   bsDay            |-> checkIn.day,
   originalCheckIn  |-> NoTime,
   originalCheckOut |-> NoTime,
   reviewed         |-> FALSE]

(* The update every close writes; the duration is computed from a check-in *)
(* read earlier.                                                           *)
Closed(row, readCheckIn, at, status) ==
  [row EXCEPT !.checkOutTime = at,
              !.duration     = <<readCheckIn, at>>,
              !.status       = status]

ShiftEndOn(m, d) == [day |-> d, tick |-> ShiftEnd[m]]

-----------------------------------------------------------------------------
(* Self-service: performClockActionSafe, one transaction per scan.         *)

CompletedToday(m) ==
  \E r \in RecordsOn(m, now.day) : records[r].status \in {"CHECKED_OUT", "AUTO_CLOSED"}

(* The records the cooldown query returns, and the one it orders first.    *)
Recent(m) ==
  {r \in RecordsOf(m) : now \in {records[r].checkInTime, records[r].checkOutTime}}
NewestOf(S) ==
  {r \in S : \A s \in S : ~Before(records[r].checkInTime, records[s].checkInTime)}
LastAction(r) ==
  IF records[r].checkOutTime # NoTime THEN records[r].checkOutTime ELSE records[r].checkInTime

CooledDown(m) ==
  Recent(m) = {} \/ \E r \in NewestOf(Recent(m)) : LastAction(r) # now

(* Mutant of ScanAllowed: the once-in/once-out guard is dropped. *)
ScanAllowedAgain(m) ==
  /\ Cardinality(RecordsOn(m, now.day)) < MAX_DAILY_SCANS
  /\ CooledDown(m)

ScanAllowed(m) ==
  /\ ~CompletedToday(m)
  /\ Cardinality(RecordsOn(m, now.day)) < MAX_DAILY_SCANS
  /\ CooledDown(m)

ClockInOpen(m) == ~Before(ShiftEndOn(m, now.day), now)

(* Mutants of AutoCloseTime: the cap is the start of today's midnight, one *)
(* tick too late; the cap is the start of yesterday, not its end.          *)
AutoCloseTimeTooLate(row) == [day |-> now.day - 1, tick |-> LastTick + 1]
AutoCloseTimeTooEarly(row) ==
  LET shiftEnd == ShiftEndOn(row.membershipId, row.checkInTime.day)
  IN  IF Before(row.checkInTime, shiftEnd) /\ shiftEnd.day < now.day
      THEN shiftEnd
      ELSE [day |-> now.day - 1, tick |-> 0]

(* Where the scan caps a record left open on an earlier day.               *)
AutoCloseTime(row) ==
  LET shiftEnd == ShiftEndOn(row.membershipId, row.checkInTime.day)
  IN  IF Before(row.checkInTime, shiftEnd) /\ shiftEnd.day < now.day
      THEN shiftEnd
      ELSE [day |-> now.day - 1, tick |-> LastTick]

ClockOut(m) ==
  /\ ScanAllowed(m)
  /\ \E r \in OpenRecords(m) :
       /\ records[r].checkInTime.day = now.day
       /\ records' = [records EXCEPT ![r] = Closed(@, @.checkInTime, now, "CHECKED_OUT")]
  /\ UNCHANGED <<now, request, job, flagCalls, manual>>

(* The scan of a member whose open record is from an earlier day closes it *)
(* and clocks in; after the shift end it throws and closes nothing.        *)
CloseStaleAndClockIn(m) ==
  /\ ScanAllowed(m)
  /\ ClockInOpen(m)
  /\ \E r \in OpenRecords(m), n \in RecordIds :
       /\ records[r].checkInTime.day < now.day
       /\ FreshId(n)
       /\ records' = Extended([records EXCEPT ![r] =
                                 Closed(@, @.checkInTime, AutoCloseTime(@), "AUTO_CLOSED")],
                              n, NewRow(m, now, NoTime))
  /\ UNCHANGED <<now, request, job, flagCalls, manual>>

(* Mutants of ClockIn: it does not look for an open record; it looks for   *)
(* one of today only.                                                      *)
ClockInBlindly(m) ==
  /\ ScanAllowed(m)
  /\ ClockInOpen(m)
  /\ \E n \in RecordIds :
       /\ FreshId(n)
       /\ records' = Extended(records, n, NewRow(m, now, NoTime))
  /\ UNCHANGED <<now, request, job, flagCalls, manual>>
ClockInOverStale(m) ==
  /\ OpenRecords(m) \cap RecordsOn(m, now.day) = {}
  /\ ClockInBlindly(m)

ClockIn(m) ==
  /\ ScanAllowed(m)
  /\ OpenRecords(m) = {}
  /\ ClockInOpen(m)
  /\ \E n \in RecordIds :
       /\ FreshId(n)
       /\ records' = Extended(records, n, NewRow(m, now, NoTime))
  /\ UNCHANGED <<now, request, job, flagCalls, manual>>

SelfService(m) == ClockOut(m) \/ CloseStaleAndClockIn(m) \/ ClockIn(m)

-----------------------------------------------------------------------------
(* Staff: every operation reads and validates, then writes by id.          *)

IsAdmin(s) == RoleOf[s] = "ORG_ADMIN"

Decide(s, req) ==
  /\ request[s] = Idle
  /\ request' = [request EXCEPT ![s] = req]
  /\ UNCHANGED <<now, records, job, flagCalls, manual>>

(* The bookkeeping of a staff write to a row of member m. *)
Commit(s, m) ==
  /\ request' = [request EXCEPT ![s] = Idle]
  /\ manual' = manual \cup {m}
  /\ UNCHANGED <<now, job>>

ManualAttendanceRead(s, m) ==
  /\ IsAdmin(s)
  /\ \/ /\ OpenRecords(m) = {}
        /\ Decide(s, [op |-> "clockIn", membershipId |-> m])
     \/ \E r \in OpenRecords(m) :
          Decide(s, [op |-> "clockOut", id |-> r, readCheckIn |-> records[r].checkInTime])

ManualClockInWrite(s) ==
  /\ request[s].op = "clockIn"
  /\ \E n \in RecordIds :
       /\ FreshId(n)
       /\ records' = Extended(records, n, NewRow(request[s].membershipId, now, NoTime))
  /\ Commit(s, request[s].membershipId)
  /\ UNCHANGED flagCalls

ManualClockOutWrite(s) ==
  LET req == request[s]
  IN  /\ req.op = "clockOut"
      /\ records' = [records EXCEPT ![req.id] =
                       Closed(@, req.readCheckIn, now, "CHECKED_OUT")]
      /\ Commit(s, records[req.id].membershipId)
      /\ UNCHANGED flagCalls

(* What an accountant may do to a row it read: see the role restrictions.  *)
MayEdit(s, row, checkIn) ==
  IsAdmin(s) \/ (row.status = "AUTO_CLOSED" /\ checkIn = NoTime /\ ~row.reviewed)

Resolved(row, checkIn) == IF checkIn = NoTime THEN row.checkInTime ELSE checkIn

(* Mutant of EditRead: the current check-in is saved as the original one   *)
(* on every edit, not only on the first.                                   *)
EditReadResaving(s, r, checkIn, checkOut) ==
  LET row == records[r]
  IN  /\ MayEdit(s, row, checkIn)
      /\ checkOut # NoTime => Before(Resolved(row, checkIn), checkOut)
      /\ Decide(s, [op |-> "edit", id |-> r,
           originalCheckIn  |-> row.checkInTime,
           originalCheckOut |-> IF row.originalCheckOut = NoTime THEN row.checkOutTime ELSE NoTime,
           checkIn |-> checkIn, resolvedCheckIn |-> Resolved(row, checkIn),
           checkOut |-> checkOut])

(* The request holds the patch editAttendance builds from the row it read; *)
(* NoTime is a column the patch leaves alone.                              *)
EditRead(s, r, checkIn, checkOut) ==
  LET row == records[r]
  IN  /\ MayEdit(s, row, checkIn)
      /\ checkOut # NoTime => Before(Resolved(row, checkIn), checkOut)
      /\ Decide(s, [op |-> "edit", id |-> r,
           originalCheckIn  |-> IF row.originalCheckIn = NoTime THEN row.checkInTime ELSE NoTime,
           originalCheckOut |-> IF row.originalCheckOut = NoTime THEN row.checkOutTime ELSE NoTime,
           checkIn |-> checkIn, resolvedCheckIn |-> Resolved(row, checkIn),
           checkOut |-> checkOut])

Patched(col, value) == IF value = NoTime THEN col ELSE value

(* Mutant of Edited: the check-in it replaces is not saved. *)
EditedForgettingCheckIn(row, patch) ==
  LET inTime == [row EXCEPT !.checkInTime = Patched(@, patch.checkIn)]
  IN  IF patch.checkOut = NoTime THEN inTime
      ELSE Closed(inTime, patch.resolvedCheckIn, patch.checkOut, "CHECKED_OUT")

Edited(row, patch) ==
  LET inTime == [row EXCEPT
        !.originalCheckIn  = Patched(@, patch.originalCheckIn),
        !.originalCheckOut = Patched(@, patch.originalCheckOut),
        !.checkInTime      = Patched(@, patch.checkIn)]
  IN  IF patch.checkOut = NoTime THEN inTime
      ELSE Closed(inTime, patch.resolvedCheckIn, patch.checkOut, "CHECKED_OUT")

EditWrite(s) ==
  LET patch == request[s]
      m     == records[patch.id].membershipId
  IN  /\ patch.op = "edit"
      /\ records' = [records EXCEPT ![patch.id] = Edited(@, patch)]
      /\ flagCalls' = flagCalls \cup
           {[membershipId |-> m, day |-> patch.resolvedCheckIn.day]}
      /\ Commit(s, m)

AcknowledgeRead(s, r) ==
  /\ ~IsAdmin(s)
  /\ records[r].status = "AUTO_CLOSED"
  /\ ~records[r].reviewed
  /\ Decide(s, [op |-> "acknowledge", id |-> r])

AcknowledgeWrite(s) ==
  LET id == request[s].id
  IN  /\ request[s].op = "acknowledge"
      /\ records' = [records EXCEPT ![id].reviewed = TRUE]
      /\ Commit(s, records[id].membershipId)
      /\ UNCHANGED flagCalls

(* The duplicate check looks at the date of the form, the row is created   *)
(* at the check-in time of the form: nothing compares the two.             *)
MarkPresentRead(s, m, date, checkIn, checkOut) ==
  /\ IsAdmin(s)
  /\ checkOut # NoTime => Before(checkIn, checkOut)
  /\ RecordsOn(m, date) = {}
  /\ Decide(s, [op |-> "markPresent", membershipId |-> m,
                checkIn |-> checkIn, checkOut |-> checkOut])

MarkPresentWrite(s) ==
  LET req == request[s]
  IN  /\ req.op = "markPresent"
      /\ \E n \in RecordIds :
           /\ FreshId(n)
           /\ records' = Extended(records, n,
                                  NewRow(req.membershipId, req.checkIn, req.checkOut))
      /\ flagCalls' = flagCalls \cup
           {[membershipId |-> req.membershipId, day |-> req.checkIn.day]}
      /\ Commit(s, req.membershipId)

StaffStep(s) ==
  \/ \E m \in Members : ManualAttendanceRead(s, m)
  \/ ManualClockInWrite(s)
  \/ ManualClockOutWrite(s)
  \/ \E r \in Ids, checkIn, checkOut \in FormTimesUpTo(now) \cup {NoTime} :
       EditRead(s, r, checkIn, checkOut)
  \/ EditWrite(s)
  \/ \E r \in Ids : AcknowledgeRead(s, r)
  \/ AcknowledgeWrite(s)
  \/ \E m \in Members, date \in Days, checkIn \in FormTimesUpTo(now),
        checkOut \in FormTimesUpTo(now) \cup {NoTime} :
       MarkPresentRead(s, m, date, checkIn, checkOut)
  \/ MarkPresentWrite(s)

(* payrollService.flagPayrollNeedsRecalculation answers (or fails: the     *)
(* caller only logs it); its effect is in module Payroll.                  *)
FlagHandled(c) ==
  /\ flagCalls' = flagCalls \ {c}
  /\ UNCHANGED <<now, records, request, job, manual>>

-----------------------------------------------------------------------------
(* runAutoClose: at midnight, five seconds after boot, or from the API.    *)

(* Mutant of AutoCloseStart: the snapshot takes today's open records only. *)
AutoCloseStartToday(j) ==
  LET open == {r \in Ids : records[r].status = "CHECKED_IN"
                           /\ records[r].checkInTime.day = now.day}
  IN  /\ job[j].todo = {}
      /\ open # {}
      /\ job' = [job EXCEPT ![j] =
                   [startedAt |-> now,
                    todo |-> {[id |-> r, checkInTime |-> records[r].checkInTime] : r \in open}]]
      /\ UNCHANGED <<now, records, request, flagCalls, manual>>

AutoCloseStart(j) ==
  LET open == {r \in Ids : records[r].status = "CHECKED_IN"}
  IN  /\ job[j].todo = {}
      /\ open # {}
      /\ job' = [job EXCEPT ![j] =
                   [startedAt |-> now,
                    todo |-> {[id |-> r, checkInTime |-> records[r].checkInTime] : r \in open}]]
      /\ UNCHANGED <<now, records, request, flagCalls, manual>>

AutoCloseShiftEnd(x) == ShiftEndOn(records[x.id].membershipId, x.checkInTime.day)

ShiftEndPassed(j, x) ==
  /\ Before(x.checkInTime, AutoCloseShiftEnd(x))
  /\ Before(AutoCloseShiftEnd(x), job[j].startedAt)

Visited(j, x) ==
  LET left == job[j].todo \ {x}
  IN  job' = [job EXCEPT ![j] = IF left = {} THEN IdleJob
                                ELSE [startedAt |-> job[j].startedAt, todo |-> left]]

(* The update names the row by id alone. *)
AutoCloseRecord(j, x) ==
  /\ x \in job[j].todo
  /\ ShiftEndPassed(j, x)
  /\ records' = [records EXCEPT ![x.id] =
                   Closed(@, x.checkInTime, AutoCloseShiftEnd(x), "AUTO_CLOSED")]
  /\ Visited(j, x)
  /\ UNCHANGED <<now, request, flagCalls, manual>>

AutoCloseSkip(j, x) ==
  /\ x \in job[j].todo
  /\ ~ShiftEndPassed(j, x)
  /\ Visited(j, x)
  /\ UNCHANGED <<now, records, request, flagCalls, manual>>

(* The update threw: the run counts it as failed and goes on. *)
AutoCloseFail(j, x) ==
  /\ x \in job[j].todo
  /\ ShiftEndPassed(j, x)
  /\ Visited(j, x)
  /\ UNCHANGED <<now, records, request, flagCalls, manual>>

JobVisit(j) ==
  \E x \in job[j].todo : AutoCloseRecord(j, x) \/ AutoCloseSkip(j, x) \/ AutoCloseFail(j, x)

JobStep(j) == AutoCloseStart(j) \/ JobVisit(j)

-----------------------------------------------------------------------------

Tick ==
  /\ now' = IF now.tick < LastTick THEN [now EXCEPT !.tick = @ + 1]
                                   ELSE [day |-> now.day + 1, tick |-> 0]
  /\ now'.day <= MaxDay
  /\ UNCHANGED <<records, request, job, flagCalls, manual>>

Next ==
  \/ \E m \in Members : SelfService(m)
  \/ \E s \in Staff : StaffStep(s) \/ \E c \in flagCalls : FlagHandled(c)
  \/ \E j \in Jobs : JobStep(j)
  \/ Tick

Spec == Init /\ [][Next]_vars

-----------------------------------------------------------------------------
(* Properties of every record, whoever wrote it.                           *)

(* The check-in a row was created with, as the row itself tells it. *)
FirstCheckIn(row) ==
  IF row.originalCheckIn = NoTime THEN row.checkInTime ELSE row.originalCheckIn

(* Whatever scans, staff writes and job writes raced on it, a row is open  *)
(* exactly when it has no check-out, it names no time that has not come    *)
(* yet, and it still tells the check-in it was created with: its Nepali    *)
(* date, written once at creation, is that day                             *)
(* (attendance.service.ts:595-706, 1229-1368).                             *)
RowCoherent == \A r \in Ids :
  LET row == records[r] IN
  /\ row.status = "CHECKED_IN" <=> row.checkOutTime = NoTime
  /\ \A t \in {row.checkInTime, row.checkOutTime, row.originalCheckIn, row.originalCheckOut} :
       ~Before(now, t)
  /\ row.bsDay = FirstCheckIn(row).day

(* originalCheckIn, once set by an edit, is never overwritten by another.  *)
OriginalCheckInStable ==
  [][\A r \in Ids : records[r].originalCheckIn # NoTime
       => records'[r].originalCheckIn = records[r].originalCheckIn]_vars

-----------------------------------------------------------------------------
(* Properties of the memberships no staff write has touched.               *)

Untouched == Members \ manual

(* "Once in, once out": scans and the job alone never open a second record *)
(* of a member, on the same day or another.                                *)
OneOpenRecord == \A m \in Untouched : \A r, s \in OpenRecords(m) : r = s

(* Scans and the job alone leave a member at most one record per day.      *)
OneRecordPerDay ==
  \A m \in Untouched : \A r, s \in RecordsOf(m) :
    records[r].checkInTime.day = records[s].checkInTime.day => r = s

(* A record closed by a scan or by the job never spans negative time, and  *)
(* its duration is that of the check-in and check-out it shows.            *)
SpanCoherent ==
  \A m \in Untouched : \A r \in RecordsOf(m) \ OpenRecords(m) :
    /\ ~Before(records[r].checkOutTime, records[r].checkInTime)
    /\ records[r].duration = <<records[r].checkInTime, records[r].checkOutTime>>

(* A member's open record is its newest: a day is never started while an   *)
(* earlier one is left open.                                               *)
OpenIsNewest ==
  \A m \in Untouched : \A r \in OpenRecords(m), s \in RecordsOf(m) :
    records[s].checkInTime.day <= records[r].checkInTime.day

-----------------------------------------------------------------------------
(* The cron runs every midnight and the clock never stops; an update that  *)
(* fails fails only finitely often in a row.                               *)
Fairness ==
  /\ WF_vars(Tick)
  /\ \A j \in Jobs : WF_vars(AutoCloseStart(j))
  /\ \A j \in Jobs : WF_vars(JobVisit(j))
  /\ \A j \in Jobs, r \in RecordIds :
       SF_vars(\E x \in job[j].todo : x.id = r /\ AutoCloseRecord(j, x))

FairSpec == Spec /\ Fairness

(* A check-in made before the shift end is not left open for ever: the job *)
(* or a scan closes it once its shift is over.                             *)
StaleRecordClosed ==
  \A r \in RecordIds :
    (/\ r \in Ids
     /\ records[r].checkInTime.day < MaxDay
     /\ Before(records[r].checkInTime,
               ShiftEndOn(records[r].membershipId, records[r].checkInTime.day)))
      ~> (r \in Ids /\ records[r].status # "CHECKED_IN")

-----------------------------------------------------------------------------
(* What a comment of the code says, and the code does not do.              *)

BecomesAutoClosed(r) ==
  /\ records[r].status # "AUTO_CLOSED"
  /\ records'[r].status = "AUTO_CLOSED"

(* "Auto-closes stale CHECKED_IN attendance records": the job closes no    *)
(* record that has been closed otherwise since it looked.                  *)
AutoCloseOnlyOpen ==
  [][\A r \in Ids : BecomesAutoClosed(r) => records[r].status = "CHECKED_IN"]_vars
=============================================================================
