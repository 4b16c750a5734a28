-------------------------- MODULE AttendanceProofs --------------------------
(***************************************************************************)
(* Proofs about Attendance, for every set of members, staff requests and   *)
(* job runs, and every bound.                                              *)
(***************************************************************************)
EXTENDS Attendance, TLAPS

(* The ids a staff request or a job run remembers are those of rows that   *)
(* exist: rows are created and updated, never deleted.                     *)
KnownIds ==
  /\ \A s \in Staff : request[s].op \in {"clockOut", "edit", "acknowledge"} => request[s].id \in Ids
  /\ \A j \in Jobs : \A x \in job[j].todo : x.id \in Ids

TypeInv == TypeOK /\ KnownIds

LEMMA NoTimeIsNoTime == NoTime \notin Times
  BY DEF NoTime, Times, Days

LEMMA ShiftEndIsTime ==
  ASSUME NEW m \in Members, NEW d \in Days
  PROVE  ShiftEndOn(m, d) \in Times
  BY TimeAssumption DEF ShiftEndOn, Times

(* A created row is a row. *)
LEMMA NewRowType ==
  ASSUME NEW m \in Members, NEW in \in Times, NEW out \in OptTime
  PROVE  NewRow(m, in, out) \in Row
  BY NoTimeIsNoTime DEF NewRow, Row, OptTime, Statuses, NoDuration, Times, Days

(* Closing a row at a time gives a row. *)
LEMMA ClosedType ==
  ASSUME NEW row \in Row, NEW in \in Times, NEW at \in Times,
         NEW st \in {"CHECKED_OUT", "AUTO_CLOSED"}
  PROVE  /\ Closed(row, in, at, st) \in Row
         /\ Closed(row, in, at, st).membershipId = row.membershipId
         /\ Closed(row, in, at, st).checkInTime = row.checkInTime
         /\ Closed(row, in, at, st).bsDay = row.bsDay
         /\ Closed(row, in, at, st).originalCheckIn = row.originalCheckIn
         /\ Closed(row, in, at, st).status = st
         /\ Closed(row, in, at, st).checkOutTime = at
  BY DEF Closed, Row, OptTime, Statuses

-----------------------------------------------------------------------------
(* What each operation does to the table of records.                       *)

(* The table stays a table of rows and loses none of them. *)
Grown ==
  /\ DOMAIN records' \in SUBSET RecordIds
  /\ records' \in [DOMAIN records' -> Row]
  /\ DOMAIN records \subseteq DOMAIN records'

(* A creation adds one row to the table it starts from. *)
LEMMA CreateGrows ==
  ASSUME NEW table, DOMAIN table = DOMAIN records, DOMAIN records \in SUBSET RecordIds,
         table \in [DOMAIN table -> Row], NEW n \in RecordIds, NEW row \in Row,
         records' = Extended(table, n, row)
  PROVE  Grown
  BY DEF Extended, Grown

(* The cap of a record left open on an earlier day is a time of the past.  *)
LEMMA AutoCloseTimeType ==
  ASSUME TypeOK, NEW r \in Ids, records[r].checkInTime.day < now.day
  PROVE  AutoCloseTime(records[r]) \in Times
  <1>1. /\ records[r] \in Row /\ records[r].membershipId \in Members
        /\ records[r].checkInTime \in Times /\ records[r].checkInTime.day \in Days
    BY DEF TypeOK, Ids, Row, Times
  <1>2. ShiftEndOn(records[r].membershipId, records[r].checkInTime.day) \in Times
    BY <1>1, ShiftEndIsTime
  <1>3. [day |-> now.day - 1, tick |-> LastTick] \in Times
    BY <1>1, TimeAssumption DEF TypeOK, Times, Days
  <1>. QED
    BY <1>2, <1>3 DEF AutoCloseTime

LEMMA SelfServiceGrown ==
  ASSUME TypeInv, NEW m \in Members, SelfService(m)
  PROVE  Grown
  <1> USE DEF TypeInv, TypeOK
  <1>1. CASE ClockOut(m)
    <2>1. PICK r \in OpenRecords(m) :
            records' = [records EXCEPT ![r] = Closed(@, @.checkInTime, now, "CHECKED_OUT")]
      BY <1>1 DEF ClockOut
    <2>2. r \in Ids /\ records[r] \in Row /\ records[r].checkInTime \in Times
      BY DEF OpenRecords, RecordsOf, Ids, Row
    <2>3. Closed(records[r], records[r].checkInTime, now, "CHECKED_OUT") \in Row
      BY <2>2, ClosedType
    <2>. QED
      BY <2>1, <2>2, <2>3 DEF Grown, Ids
  <1>2. CASE CloseStaleAndClockIn(m)
    <2>1. PICK r \in OpenRecords(m), n \in RecordIds :
            /\ records[r].checkInTime.day < now.day
            /\ records' = Extended([records EXCEPT ![r] =
                                 Closed(@, @.checkInTime, AutoCloseTime(@), "AUTO_CLOSED")],
                              n, NewRow(m, now, NoTime))
      BY <1>2 DEF CloseStaleAndClockIn
    <2>2. r \in Ids /\ records[r] \in Row /\ records[r].checkInTime \in Times
      BY DEF OpenRecords, RecordsOf, Ids, Row
    <2>3. AutoCloseTime(records[r]) \in Times
      BY <2>1, <2>2, AutoCloseTimeType
    <2>4. Closed(records[r], records[r].checkInTime, AutoCloseTime(records[r]), "AUTO_CLOSED") \in Row
      BY <2>2, <2>3, ClosedType
    <2>5. NewRow(m, now, NoTime) \in Row
      BY NewRowType DEF OptTime
    <2> DEFINE T == [records EXCEPT ![r] =
                       Closed(@, @.checkInTime, AutoCloseTime(@), "AUTO_CLOSED")]
    <2>6. DOMAIN T = DOMAIN records /\ T \in [DOMAIN T -> Row]
      BY <2>2, <2>4 DEF Ids
    <2>. QED
      BY ONLY <2>1, <2>5, <2>6, CreateGrows, DOMAIN records \in SUBSET RecordIds
  <1>3. CASE ClockIn(m)
    <2>1. PICK n \in RecordIds : records' = Extended(records, n, NewRow(m, now, NoTime))
      BY <1>3 DEF ClockIn
    <2>2. NewRow(m, now, NoTime) \in Row
      BY NewRowType DEF OptTime
    <2>. QED
      BY <2>1, <2>2, CreateGrows
  <1>. QED
    BY <1>1, <1>2, <1>3 DEF SelfService

(* A staff request either only decides (a read) or writes its decision.    *)
StaffRead(s) ==
  \/ \E m \in Members : ManualAttendanceRead(s, m)
  \/ \E r \in Ids, checkIn, checkOut \in FormTimesUpTo(now) \cup {NoTime} :
       EditRead(s, r, checkIn, checkOut)
  \/ \E r \in Ids : AcknowledgeRead(s, r)
  \/ \E m \in Members, date \in Days, checkIn \in FormTimesUpTo(now),
        checkOut \in FormTimesUpTo(now) \cup {NoTime} :
       MarkPresentRead(s, m, date, checkIn, checkOut)

StaffCreate(s) == ManualClockInWrite(s) \/ MarkPresentWrite(s)
StaffUpdate(s) == ManualClockOutWrite(s) \/ EditWrite(s) \/ AcknowledgeWrite(s)

LEMMA StaffStepKinds ==
  ASSUME NEW s \in Staff
  PROVE  StaffStep(s) <=> StaffRead(s) \/ StaffCreate(s) \/ StaffUpdate(s)
  BY DEF StaffStep, StaffRead, StaffCreate, StaffUpdate

LEMMA StaffReadDecides ==
  ASSUME TypeInv, NEW s \in Staff, StaffRead(s)
  PROVE  \E req \in Requests :
           /\ Decide(s, req)
           /\ req.op \in {"clockOut", "edit", "acknowledge"} => req.id \in Ids
  <1> USE DEF TypeInv, TypeOK
  <1>0. \A r \in Ids : /\ r \in RecordIds /\ records[r] \in Row
                       /\ records[r].checkInTime \in Times
                       /\ records[r].checkOutTime \in OptTime
                       /\ records[r].originalCheckIn \in OptTime
                       /\ records[r].originalCheckOut \in OptTime
    BY DEF Ids, Row
  <1>f. \A t \in FormTimesUpTo(now) : t \in Times
    BY TimeAssumption DEF FormTimesUpTo, Times, Days
  <1>1. ASSUME NEW m \in Members, ManualAttendanceRead(s, m)
        PROVE  \E req \in Requests :
                 /\ Decide(s, req)
                 /\ req.op \in {"clockOut", "edit", "acknowledge"} => req.id \in Ids
    <2>1. CASE Decide(s, [op |-> "clockIn", membershipId |-> m])
      <3> DEFINE req == [op |-> "clockIn", membershipId |-> m]
      <3>1. req \in Requests
        BY DEF Requests
      <3>. QED
        BY <2>1, <3>1
    <2>2. CASE \E r \in OpenRecords(m) :
          Decide(s, [op |-> "clockOut", id |-> r, readCheckIn |-> records[r].checkInTime])
      <3>1. PICK r \in OpenRecords(m) :
          Decide(s, [op |-> "clockOut", id |-> r, readCheckIn |-> records[r].checkInTime])
        BY <2>2
      <3>2. r \in Ids
        BY DEF OpenRecords, RecordsOf
      <3> DEFINE req == [op |-> "clockOut", id |-> r, readCheckIn |-> records[r].checkInTime]
      <3>3. req \in Requests
        BY <3>2, <1>0 DEF Requests
      <3>. QED
        BY <3>1, <3>2, <3>3
    <2>. QED
      BY <1>1, <2>1, <2>2 DEF ManualAttendanceRead
  <1>2. ASSUME NEW r \in Ids, NEW in \in FormTimesUpTo(now) \cup {NoTime},
               NEW out \in FormTimesUpTo(now) \cup {NoTime}, EditRead(s, r, in, out)
        PROVE  \E req \in Requests :
                 /\ Decide(s, req)
                 /\ req.op \in {"clockOut", "edit", "acknowledge"} => req.id \in Ids
    <2> DEFINE req == [op |-> "edit", id |-> r,
           originalCheckIn  |-> IF records[r].originalCheckIn = NoTime
                                THEN records[r].checkInTime ELSE NoTime,
           originalCheckOut |-> IF records[r].originalCheckOut = NoTime
                                THEN records[r].checkOutTime ELSE NoTime,
           checkIn |-> in, resolvedCheckIn |-> Resolved(records[r], in),
           checkOut |-> out]
    <2>1. Decide(s, req)
      BY <1>2 DEF EditRead
    <2>2. /\ in \in OptTime /\ out \in OptTime /\ NoTime \in OptTime
          /\ Resolved(records[r], in) \in Times
      BY <1>0, <1>f DEF OptTime, Resolved
    <2>3. /\ r \in RecordIds
          /\ req.originalCheckIn \in OptTime
          /\ req.originalCheckOut \in OptTime
      BY <1>0, <2>2 DEF OptTime
    <2>4. req \in [op : {"edit"}, id : RecordIds, originalCheckIn : OptTime,
                   originalCheckOut : OptTime, checkIn : OptTime,
                   resolvedCheckIn : Times, checkOut : OptTime]
      BY <2>2, <2>3
    <2>. QED
      BY <2>1, <2>4 DEF Requests
  <1>3. ASSUME NEW r \in Ids, AcknowledgeRead(s, r)
        PROVE  \E req \in Requests :
                 /\ Decide(s, req)
                 /\ req.op \in {"clockOut", "edit", "acknowledge"} => req.id \in Ids
    <2> DEFINE req == [op |-> "acknowledge", id |-> r]
    <2>1. req \in Requests /\ Decide(s, req)
      BY <1>0, <1>3 DEF AcknowledgeRead, Requests
    <2>. QED
      BY <2>1
  <1>4. ASSUME NEW m \in Members, NEW date \in Days, NEW in \in FormTimesUpTo(now),
               NEW out \in FormTimesUpTo(now) \cup {NoTime}, MarkPresentRead(s, m, date, in, out)
        PROVE  \E req \in Requests :
                 /\ Decide(s, req)
                 /\ req.op \in {"clockOut", "edit", "acknowledge"} => req.id \in Ids
    <2> DEFINE req == [op |-> "markPresent", membershipId |-> m,
                       checkIn |-> in, checkOut |-> out]
    <2>1. Decide(s, req)
      BY <1>4 DEF MarkPresentRead
    <2>2. in \in Times /\ out \in OptTime
      BY <1>f DEF OptTime
    <2>3. req \in Requests
      BY <2>2 DEF Requests
    <2>. QED
      BY <2>1, <2>3
  <1>. QED
    BY <1>1, <1>2, <1>3, <1>4 DEF StaffRead

(* What a pending request holds, by its operation. *)
LEMMA RequestFields ==
  ASSUME NEW req \in Requests
  PROVE  /\ req.op = "clockIn" => req.membershipId \in Members
         /\ req.op = "clockOut" => req.id \in RecordIds /\ req.readCheckIn \in Times
         /\ req.op = "acknowledge" => req.id \in RecordIds
         /\ req.op = "edit" =>
              /\ req.id \in RecordIds
              /\ req.originalCheckIn \in OptTime /\ req.originalCheckOut \in OptTime
              /\ req.checkIn \in OptTime /\ req.resolvedCheckIn \in Times
              /\ req.checkOut \in OptTime
         /\ req.op = "markPresent" =>
              /\ req.membershipId \in Members /\ req.checkIn \in Times
              /\ req.checkOut \in OptTime
  BY DEF Requests, Idle

(* The row an edit patches stays a row. *)
LEMMA EditedType ==
  ASSUME NEW row \in Row, NEW patch \in Requests, patch.op = "edit"
  PROVE  /\ Edited(row, patch) \in Row
         /\ Edited(row, patch).membershipId = row.membershipId
         /\ Edited(row, patch).bsDay = row.bsDay
         /\ Edited(row, patch).originalCheckIn = Patched(row.originalCheckIn, patch.originalCheckIn)
         /\ Edited(row, patch).checkInTime = Patched(row.checkInTime, patch.checkIn)
         /\ patch.checkOut = NoTime =>
              /\ Edited(row, patch).status = row.status
              /\ Edited(row, patch).checkOutTime = row.checkOutTime
         /\ patch.checkOut # NoTime =>
              /\ Edited(row, patch).status = "CHECKED_OUT"
              /\ Edited(row, patch).checkOutTime = patch.checkOut
  <1>1. /\ patch.originalCheckIn \in OptTime /\ patch.originalCheckOut \in OptTime
        /\ patch.checkIn \in OptTime /\ patch.resolvedCheckIn \in Times
        /\ patch.checkOut \in OptTime
    BY RequestFields
  <1> DEFINE inTime == [row EXCEPT
        !.originalCheckIn  = Patched(@, patch.originalCheckIn),
        !.originalCheckOut = Patched(@, patch.originalCheckOut),
        !.checkInTime      = Patched(@, patch.checkIn)]
  <1>2. /\ inTime \in Row
        /\ inTime.membershipId = row.membershipId
        /\ inTime.bsDay = row.bsDay
        /\ inTime.originalCheckIn = Patched(row.originalCheckIn, patch.originalCheckIn)
        /\ inTime.checkInTime = Patched(row.checkInTime, patch.checkIn)
        /\ inTime.status = row.status
        /\ inTime.checkOutTime = row.checkOutTime
    BY <1>1 DEF Row, Patched, OptTime
  <1>3. CASE patch.checkOut = NoTime
    BY <1>2, <1>3 DEF Edited
  <1>4. CASE patch.checkOut # NoTime
    <2>1. patch.checkOut \in Times
      BY <1>1, <1>4 DEF OptTime
    <2>2. Edited(row, patch) = Closed(inTime, patch.resolvedCheckIn, patch.checkOut, "CHECKED_OUT")
      BY <1>4 DEF Edited
    <2>3. inTime \in Row /\ patch.resolvedCheckIn \in Times
      BY <1>1, <1>2
    <2> HIDE DEF inTime
    <2> DEFINE out == Closed(inTime, patch.resolvedCheckIn, patch.checkOut, "CHECKED_OUT")
    <2>4. /\ out \in Row
          /\ out.membershipId = inTime.membershipId
          /\ out.checkInTime = inTime.checkInTime
          /\ out.bsDay = inTime.bsDay
          /\ out.originalCheckIn = inTime.originalCheckIn
          /\ out.status = "CHECKED_OUT"
          /\ out.checkOutTime = patch.checkOut
      BY <2>1, <2>3 DEF Closed, Row, OptTime, Statuses
    <2> HIDE DEF out
    <2>5. Edited(row, patch) = out
      BY <2>2 DEF out
    <2>. QED
      BY ONLY <1>2, <1>4, <2>4, <2>5
  <1>. QED
    BY <1>3, <1>4

LEMMA StaffCreateGrown ==
  ASSUME TypeInv, NEW s \in Staff, StaffCreate(s)
  PROVE  /\ Grown
         /\ request' = [request EXCEPT ![s] = Idle] /\ UNCHANGED <<now, job>>
         /\ flagCalls' \in SUBSET FlagCalls
         /\ manual' \in SUBSET Members
  <1> USE DEF TypeInv, TypeOK
  <1>0. request[s] \in Requests
    OBVIOUS
  <1>1. CASE ManualClockInWrite(s)
    <2>1. request[s].membershipId \in Members
      BY <1>0, <1>1, RequestFields DEF ManualClockInWrite
    <2>2. PICK n \in RecordIds :
            records' = Extended(records, n, NewRow(request[s].membershipId, now, NoTime))
      BY <1>1 DEF ManualClockInWrite
    <2>3. NewRow(request[s].membershipId, now, NoTime) \in Row
      BY <2>1, NewRowType DEF OptTime
    <2>4. Grown
      BY <2>2, <2>3, CreateGrows
    <2>. QED
      BY <1>1, <2>1, <2>4 DEF ManualClockInWrite, Commit
  <1>2. CASE MarkPresentWrite(s)
    <2>1. /\ request[s].membershipId \in Members /\ request[s].checkIn \in Times
          /\ request[s].checkOut \in OptTime
      BY <1>0, <1>2, RequestFields DEF MarkPresentWrite
    <2>2. PICK n \in RecordIds :
            records' = Extended(records, n, NewRow(request[s].membershipId,
                                                   request[s].checkIn, request[s].checkOut))
      BY <1>2 DEF MarkPresentWrite
    <2>3. NewRow(request[s].membershipId, request[s].checkIn, request[s].checkOut) \in Row
      BY <2>1, NewRowType
    <2>4. Grown
      BY <2>2, <2>3, CreateGrows
    <2>5. [membershipId |-> request[s].membershipId, day |-> request[s].checkIn.day] \in FlagCalls
      BY <2>1 DEF FlagCalls, Times
    <2>. QED
      BY <1>2, <2>1, <2>4, <2>5 DEF MarkPresentWrite, Commit
  <1>. QED
    BY <1>1, <1>2 DEF StaffCreate

LEMMA StaffUpdateGrown ==
  ASSUME TypeInv, NEW s \in Staff, StaffUpdate(s)
  PROVE  /\ request[s].id \in Ids
         /\ DOMAIN records' = DOMAIN records
         /\ \A r \in Ids \ {request[s].id} : records'[r] = records[r]
         /\ records'[request[s].id].membershipId = records[request[s].id].membershipId
         /\ manual' = manual \cup {records[request[s].id].membershipId}
         /\ Grown
         /\ request' = [request EXCEPT ![s] = Idle] /\ UNCHANGED <<now, job>>
         /\ flagCalls' \in SUBSET FlagCalls
         /\ manual' \in SUBSET Members
  <1> USE DEF TypeInv, TypeOK, KnownIds, Ids
  <1> DEFINE req == request[s]
             id  == req.id
  <1>0. req \in Requests /\ req.op \in {"clockOut", "edit", "acknowledge"}
    BY DEF StaffUpdate, ManualClockOutWrite, EditWrite, AcknowledgeWrite
  <1>1. id \in Ids /\ records[id] \in Row /\ records[id].membershipId \in Members
    BY <1>0 DEF Row
  <1>2. ASSUME NEW row \in Row, row.membershipId = records[id].membershipId,
               records' = [records EXCEPT ![id] = row], Commit(s, records[id].membershipId)
        PROVE  /\ DOMAIN records' = DOMAIN records
               /\ \A r \in Ids \ {id} : records'[r] = records[r]
               /\ records'[id].membershipId = records[id].membershipId
               /\ manual' = manual \cup {records[id].membershipId}
               /\ Grown
               /\ request' = [request EXCEPT ![s] = Idle] /\ UNCHANGED <<now, job>>
               /\ manual' \in SUBSET Members
    BY <1>1, <1>2 DEF Grown, Commit
  <1>3. CASE ManualClockOutWrite(s)
    <2>0. req.readCheckIn \in Times
      BY <1>0, <1>3, RequestFields DEF ManualClockOutWrite
    <2>1. /\ Closed(records[id], req.readCheckIn, now, "CHECKED_OUT") \in Row
          /\ Closed(records[id], req.readCheckIn, now, "CHECKED_OUT").membershipId
               = records[id].membershipId
      BY <1>1, <2>0, ClosedType
    <2>. QED
      BY <1>1, <1>2, <1>3, <2>1 DEF ManualClockOutWrite
  <1>4. CASE EditWrite(s)
    <2>1. req.op = "edit"
      BY <1>4 DEF EditWrite
    <2>2. /\ Edited(records[id], req) \in Row
          /\ Edited(records[id], req).membershipId = records[id].membershipId
      BY <1>0, <1>1, <2>1, EditedType
    <2>3. [membershipId |-> records[id].membershipId, day |-> req.resolvedCheckIn.day] \in FlagCalls
      BY <1>0, <1>1, <2>1, RequestFields DEF FlagCalls, Times
    <2>. QED
      BY <1>1, <1>2, <1>4, <2>2, <2>3 DEF EditWrite
  <1>5. CASE AcknowledgeWrite(s)
    <2>1. /\ [records[id] EXCEPT !.reviewed = TRUE] \in Row
          /\ [records[id] EXCEPT !.reviewed = TRUE].membershipId = records[id].membershipId
      BY <1>1 DEF Row
    <2>2. records' = [records EXCEPT ![id] = [records[id] EXCEPT !.reviewed = TRUE]]
      BY <1>1, <1>5 DEF AcknowledgeWrite
    <2>. QED
      BY <1>1, <1>2, <1>5, <2>1, <2>2 DEF AcknowledgeWrite
  <1>. QED
    BY <1>1, <1>3, <1>4, <1>5 DEF StaffUpdate

(* A job run closes a row it took a snapshot of, at a time of the past.    *)
LEMMA AutoCloseGrown ==
  ASSUME TypeInv, NEW j \in Jobs, NEW x \in job[j].todo, AutoCloseRecord(j, x)
  PROVE  /\ x.id \in Ids
         /\ records' = [records EXCEPT ![x.id] =
                          Closed(@, x.checkInTime, AutoCloseShiftEnd(x), "AUTO_CLOSED")]
         /\ AutoCloseShiftEnd(x) \in Times
         /\ Closed(records[x.id], x.checkInTime, AutoCloseShiftEnd(x), "AUTO_CLOSED") \in Row
         /\ Grown
  <1> USE DEF TypeInv, TypeOK, KnownIds, Ids
  <1>1. /\ x.id \in Ids /\ x.checkInTime \in Times
        /\ records[x.id] \in Row /\ records[x.id].membershipId \in Members
    BY DEF Snapshots, Row
  <1>2. AutoCloseShiftEnd(x) \in Times
    BY <1>1, ShiftEndIsTime DEF AutoCloseShiftEnd, Times
  <1>3. Closed(records[x.id], x.checkInTime, AutoCloseShiftEnd(x), "AUTO_CLOSED") \in Row
    BY <1>1, <1>2, ClosedType
  <1>4. records' = [records EXCEPT ![x.id] =
                      Closed(@, x.checkInTime, AutoCloseShiftEnd(x), "AUTO_CLOSED")]
    BY DEF AutoCloseRecord
  <1>. QED
    BY <1>1, <1>2, <1>3, <1>4 DEF Grown

(* A job run only forgets rows of its snapshot. *)
LEMMA VisitedJobs ==
  ASSUME TypeInv, NEW j \in Jobs, NEW x \in job[j].todo, Visited(j, x)
  PROVE  /\ job' \in [Jobs -> [startedAt : Times, todo : SUBSET Snapshots]]
         /\ \A k \in Jobs : job'[k].todo \subseteq job[k].todo
  <1> DEFINE left == job[j].todo \ {x}
             run == IF left = {} THEN IdleJob
                    ELSE [startedAt |-> job[j].startedAt, todo |-> left]
             Run == [startedAt : Times, todo : SUBSET Snapshots]
  <1>1. job \in [Jobs -> Run] /\ job[j] \in Run
    BY DEF TypeInv, TypeOK
  <1>2. IdleJob \in Run /\ IdleJob.todo = {}
    BY TimeAssumption DEF IdleJob, Times, Days
  <1>3. run \in Run /\ run.todo \subseteq job[j].todo
    BY <1>1, <1>2
  <1>4. job' = [job EXCEPT ![j] = run]
    BY DEF Visited
  <1> HIDE DEF run, Run
  <1>5. job' \in [Jobs -> Run] /\ \A k \in Jobs : job'[k].todo \subseteq job[k].todo
    BY <1>1, <1>3, <1>4
  <1>. QED
    BY <1>5 DEF Run

LEMMA StartedJobs ==
  ASSUME TypeInv, NEW j \in Jobs, AutoCloseStart(j)
  PROVE  /\ job' \in [Jobs -> [startedAt : Times, todo : SUBSET Snapshots]]
         /\ \A k \in Jobs : \A x \in job'[k].todo : x.id \in Ids
  <1> USE DEF TypeInv, TypeOK, KnownIds
  <1> DEFINE open == {r \in Ids : records[r].status = "CHECKED_IN"}
             todo == {[id |-> r, checkInTime |-> records[r].checkInTime] : r \in open}
  <1>1. job' = [job EXCEPT ![j] = [startedAt |-> now, todo |-> todo]]
    BY DEF AutoCloseStart
  <1>2. \A r \in Ids : r \in RecordIds /\ records[r].checkInTime \in Times
    BY DEF Ids, Row
  <1>3. todo \subseteq Snapshots /\ \A x \in todo : x.id \in Ids
    BY <1>2 DEF Snapshots
  <1> HIDE DEF todo
  <1>. QED
    BY <1>1, <1>3

LEMMA TypeInvInit == Init => TypeInv
  BY TimeAssumption DEF Init, TypeInv, TypeOK, KnownIds, Times, Days, Requests, Idle, IdleJob, Ids

LEMMA TypeInvNext == TypeInv /\ [Next]_vars => TypeInv'
  <1> SUFFICES ASSUME TypeInv, [Next]_vars PROVE TypeInv'
    OBVIOUS
  <1> USE DEF TypeInv
  <1>1. ASSUME Grown, UNCHANGED <<now, job>>, request' \in [Staff -> Requests],
               flagCalls' \in SUBSET FlagCalls, manual' \in SUBSET Members,
               \A s \in Staff : request'[s].op \in {"clockOut", "edit", "acknowledge"}
                                  => request'[s].id \in Ids
        PROVE  TypeInv'
    BY <1>1 DEF TypeOK, KnownIds, Grown, Ids
  <1>2. ASSUME NEW m \in Members, SelfService(m) PROVE TypeInv'
    <2>1. Grown
      BY <1>2, SelfServiceGrown
    <2>2. UNCHANGED <<now, request, job, flagCalls, manual>>
      BY <1>2 DEF SelfService, ClockOut, CloseStaleAndClockIn, ClockIn
    <2>. QED
      BY <1>1, <2>1, <2>2 DEF TypeOK, KnownIds
  <1>3. ASSUME NEW s \in Staff, StaffStep(s) PROVE TypeInv'
    <2>0. /\ Idle \in Requests
          /\ Idle.op \notin {"clockOut", "edit", "acknowledge"}
      BY DEF Requests, Idle
    <2>1. CASE StaffRead(s)
      <3>1. PICK req \in Requests :
              /\ Decide(s, req)
              /\ req.op \in {"clockOut", "edit", "acknowledge"} => req.id \in Ids
        BY <2>1, StaffReadDecides
      <3>2. Grown
        BY <3>1 DEF TypeOK, Grown, Decide
      <3>3. \A k \in Staff : request'[k].op \in {"clockOut", "edit", "acknowledge"}
                               => request'[k].id \in Ids
        BY <3>1 DEF TypeOK, KnownIds, Decide
      <3>. QED
        BY <1>1, <3>1, <3>2, <3>3 DEF TypeOK, Decide
    <2>2. CASE StaffCreate(s)
      BY <1>1, <2>0, <2>2, StaffCreateGrown DEF TypeOK, KnownIds
    <2>3. CASE StaffUpdate(s)
      BY <1>1, <2>0, <2>3, StaffUpdateGrown DEF TypeOK, KnownIds
    <2>. QED
      BY <1>3, <2>1, <2>2, <2>3, StaffStepKinds
  <1>4. ASSUME NEW c \in flagCalls, FlagHandled(c) PROVE TypeInv'
    BY <1>4 DEF FlagHandled, TypeOK, KnownIds, Ids
  <1>5. ASSUME NEW j \in Jobs, AutoCloseStart(j) PROVE TypeInv'
    BY <1>5, StartedJobs DEF AutoCloseStart, TypeOK, KnownIds, Ids
  <1>6. ASSUME NEW j \in Jobs, NEW x \in job[j].todo, AutoCloseRecord(j, x) PROVE TypeInv'
    <2>1. Grown
      BY <1>6, AutoCloseGrown
    <2>2. /\ Visited(j, x)
          /\ UNCHANGED <<now, request, flagCalls, manual>>
      BY <1>6 DEF AutoCloseRecord
    <2>. QED
      BY <2>1, <2>2, VisitedJobs DEF TypeOK, KnownIds, Grown, Ids
  <1>7. ASSUME NEW j \in Jobs, NEW x \in job[j].todo, AutoCloseSkip(j, x) \/ AutoCloseFail(j, x)
        PROVE  TypeInv'
    <2>1. /\ Visited(j, x)
          /\ UNCHANGED <<now, records, request, flagCalls, manual>>
      BY <1>7 DEF AutoCloseSkip, AutoCloseFail
    <2>. QED
      BY <2>1, VisitedJobs DEF TypeOK, KnownIds, Ids
  <1>8. CASE Tick
    BY <1>8, TimeAssumption DEF Tick, TypeOK, KnownIds, Ids, Times, Days
  <1>9. CASE UNCHANGED vars
    BY <1>9 DEF vars, TypeOK, KnownIds, Ids
  <1>. QED
    BY <1>2, <1>3, <1>4, <1>5, <1>6, <1>7, <1>8, <1>9 DEF Next, JobStep, JobVisit

(* Every reachable state is well typed, and every pending write of a staff *)
(* request or of a job run names a row that exists.                        *)
THEOREM AttendanceTypeOK == Spec => []TypeOK
  <1>1. Spec => []TypeInv
    BY TypeInvInit, TypeInvNext, PTL DEF Spec
  <1>2. TypeInv => TypeOK
    BY DEF TypeInv
  <1>. QED
    BY <1>1, <1>2, PTL

-----------------------------------------------------------------------------
(* Once in, once out. The invariant that scans and the job keep for a      *)
(* member: at most one open record, at most one record per day, the open   *)
(* record is the newest, and none is of a day to come. The last conjunct   *)
(* is what makes the clock-in of a new day fall on a day without a record. *)
Tidy(m) ==
  /\ \A r, s \in OpenRecords(m) : r = s
  /\ \A r, s \in RecordsOf(m) :
       records[r].checkInTime.day = records[s].checkInTime.day => r = s
  /\ \A r \in OpenRecords(m), s \in RecordsOf(m) :
       records[s].checkInTime.day <= records[r].checkInTime.day
  /\ \A r \in RecordsOf(m) : records[r].checkInTime.day <= now.day

TidyInv == \A m \in Untouched : Tidy(m)

(* A step that creates no record of m, moves no check-in of m and reopens  *)
(* no record of m.                                                         *)
Settles(m) ==
  \A r \in DOMAIN records' : records'[r].membershipId = m =>
    /\ r \in Ids
    /\ records[r].membershipId = m
    /\ records'[r].checkInTime = records[r].checkInTime
    /\ records'[r].status = "CHECKED_IN" => records[r].status = "CHECKED_IN"

LEMMA SettlesKeepsTidy ==
  ASSUME TypeOK, NEW m, Tidy(m), Settles(m), UNCHANGED now
  PROVE  Tidy(m)'
  <1>1. /\ \A r \in RecordsOf(m)' : r \in RecordsOf(m)
                                    /\ records'[r].checkInTime = records[r].checkInTime
        /\ \A r \in OpenRecords(m)' : r \in OpenRecords(m) /\ r \in RecordsOf(m)'
    BY DEF Settles, OpenRecords, RecordsOf, Ids
  <1>. QED
    BY <1>1 DEF Tidy

(* A clock-in on a day member m has no record of, with no record of m left *)
(* open by the table it extends.                                           *)
LEMMA FreshClockInKeepsTidy ==
  ASSUME TypeOK, NEW m \in Members, Tidy(m), UNCHANGED now,
         NEW table, DOMAIN table = Ids,
         \A r \in Ids : /\ table[r].membershipId = records[r].membershipId
                        /\ table[r].checkInTime = records[r].checkInTime,
         \A r \in RecordsOf(m) : /\ table[r].status # "CHECKED_IN"
                                 /\ records[r].checkInTime.day < now.day,
         NEW n, n \notin Ids, records' = Extended(table, n, NewRow(m, now, NoTime))
  PROVE  Tidy(m)'
  <1>1. /\ DOMAIN records' = Ids \cup {n}
        /\ \A r \in Ids : records'[r] = table[r]
        /\ records'[n] = NewRow(m, now, NoTime)
    BY DEF Extended
  <1>2. /\ records'[n].checkInTime = now
        /\ records'[n].status = "CHECKED_IN"
    BY <1>1 DEF NewRow
  <1>3. \A r \in RecordsOf(m)' :
          r = n \/ (/\ r \in RecordsOf(m)
                    /\ records'[r].checkInTime = records[r].checkInTime
                    /\ records'[r].checkInTime.day < now.day)
    BY <1>1 DEF RecordsOf, Ids
  <1>4. \A r \in OpenRecords(m)' : r = n
    BY <1>1 DEF OpenRecords, RecordsOf, Ids
  <1>5. now.day \in Int /\ \A r \in RecordsOf(m) : records[r].checkInTime.day \in Int
    BY DEF TypeOK, Times, Days, RecordsOf, Ids, Row
  <1>6. \A r \in OpenRecords(m)' : r \in RecordsOf(m)'
    BY DEF OpenRecords
  <1>. QED
    BY <1>2, <1>3, <1>4, <1>5, <1>6 DEF Tidy

LEMMA FreshIdIsNew == ASSUME NEW n \in RecordIds, FreshId(n) PROVE n \notin Ids
  BY DEF FreshId

LEMMA SelfServiceKeepsTidy ==
  ASSUME TypeInv, NEW m \in Members, SelfService(m), NEW k \in Members, Tidy(k)
  PROVE  Tidy(k)'
  <1> USE DEF TypeInv
  <1>0. /\ UNCHANGED now
        /\ \A r \in Ids : records[r] \in Row /\ records[r].status \in Statuses
                          /\ records[r].checkInTime \in Times
                          /\ records[r].checkInTime.day \in Int
        /\ now \in Times /\ now.day \in Int
    BY DEF SelfService, ClockOut, CloseStaleAndClockIn, ClockIn, TypeOK, Ids, Row, Times, Days
  <1>1. CASE ClockOut(m)
    <2>1. PICK r \in OpenRecords(m) :
            records' = [records EXCEPT ![r] = Closed(@, @.checkInTime, now, "CHECKED_OUT")]
      BY <1>1 DEF ClockOut
    <2>2. r \in Ids
      BY DEF OpenRecords, RecordsOf
    <2> DEFINE row == Closed(records[r], records[r].checkInTime, now, "CHECKED_OUT")
    <2>3. /\ row.membershipId = records[r].membershipId
          /\ row.checkInTime = records[r].checkInTime
          /\ row.status = "CHECKED_OUT"
      BY <1>0, <2>2, ClosedType
    <2> HIDE DEF row
    <2>4. records' = [records EXCEPT ![r] = row]
      BY <2>1 DEF row
    <2>5. Settles(k)
      BY <2>2, <2>3, <2>4 DEF Settles, Ids
    <2>. QED
      BY <1>0, <2>5, SettlesKeepsTidy
  <1>2. CASE CloseStaleAndClockIn(m)
    <2>1. PICK r \in OpenRecords(m), n \in RecordIds :
            /\ records[r].checkInTime.day < now.day
            /\ FreshId(n)
            /\ records' = Extended([records EXCEPT ![r] =
                                 Closed(@, @.checkInTime, AutoCloseTime(@), "AUTO_CLOSED")],
                              n, NewRow(m, now, NoTime))
      BY <1>2 DEF CloseStaleAndClockIn
    <2>2. r \in Ids /\ records[r].membershipId = m /\ n \notin Ids
      BY <2>1, FreshIdIsNew DEF OpenRecords, RecordsOf
    <2> DEFINE row == Closed(records[r], records[r].checkInTime, AutoCloseTime(records[r]),
                             "AUTO_CLOSED")
    <2>3. AutoCloseTime(records[r]) \in Times
      BY <2>1, <2>2, AutoCloseTimeType
    <2>4. /\ row.membershipId = records[r].membershipId
          /\ row.checkInTime = records[r].checkInTime
          /\ row.status = "AUTO_CLOSED"
      <3>1. records[r] \in Row /\ records[r].checkInTime \in Times
        BY <1>0, <2>2
      <3>. QED
        BY <3>1 DEF Closed, Row
    <2> HIDE DEF row
    <2> DEFINE T == [records EXCEPT ![r] = row]
    <2>5. records' = Extended(T, n, NewRow(m, now, NoTime))
      BY <2>1 DEF row
    <2>6. /\ DOMAIN T = Ids
          /\ \A i \in Ids : /\ T[i].membershipId = records[i].membershipId
                            /\ T[i].checkInTime = records[i].checkInTime
          /\ T[r].status = "AUTO_CLOSED"
          /\ \A i \in Ids \ {r} : T[i] = records[i]
      BY <2>2, <2>4 DEF Ids
    <2> HIDE DEF T
    <2>7. CASE k = m
      <3>1. ASSUME NEW i \in RecordsOf(m)
            PROVE  T[i].status # "CHECKED_IN" /\ records[i].checkInTime.day < now.day
        <4>1. i \in Ids /\ records[i].checkInTime.day <= records[r].checkInTime.day
          BY <2>1, <2>7 DEF Tidy, RecordsOf
        <4>2. i # r => i \notin OpenRecords(m)
          BY <2>1, <2>7 DEF Tidy
        <4>3. i # r => T[i].status # "CHECKED_IN"
          BY <2>6, <4>1, <4>2 DEF OpenRecords
        <4>. QED
          BY <1>0, <2>1, <2>2, <2>6, <4>1, <4>3
      <3>. QED
        BY <1>0, <2>2, <2>5, <2>6, <2>7, <3>1, FreshClockInKeepsTidy
    <2>8. CASE k # m
      <3>1. /\ DOMAIN records' = Ids \cup {n}
            /\ \A i \in Ids : records'[i] = T[i]
            /\ records'[n].membershipId = m
        BY <2>2, <2>5, <2>6 DEF Extended, NewRow
      <3>2. Settles(k)
        BY <2>2, <2>6, <2>8, <3>1 DEF Settles, Ids
      <3>. QED
        BY <1>0, <3>2, SettlesKeepsTidy
    <2>. QED
      BY <2>7, <2>8
  <1>3. CASE ClockIn(m)
    <2>1. PICK n \in RecordIds : FreshId(n) /\ records' = Extended(records, n, NewRow(m, now, NoTime))
      BY <1>3 DEF ClockIn
    <2>2. n \notin Ids
      BY <2>1, FreshIdIsNew
    <2>3. CASE k = m
      <3>1. ASSUME NEW i \in RecordsOf(m)
            PROVE  records[i].status # "CHECKED_IN" /\ records[i].checkInTime.day < now.day
        <4>1. i \in Ids /\ records[i].status \in {"CHECKED_OUT", "AUTO_CLOSED"}
          BY <1>0, <1>3 DEF ClockIn, OpenRecords, RecordsOf, Statuses
        <4>2. records[i].checkInTime.day # now.day
          BY <1>3, <4>1 DEF ClockIn, ScanAllowed, CompletedToday, RecordsOn
        <4>3. records[i].checkInTime.day <= now.day
          BY <2>3 DEF Tidy
        <4>. QED
          BY <1>0, <4>1, <4>2, <4>3
      <3>. QED
        BY <1>0, <2>1, <2>2, <2>3, <3>1, FreshClockInKeepsTidy DEF Ids
    <2>4. CASE k # m
      <3>1. /\ DOMAIN records' = Ids \cup {n}
            /\ \A i \in Ids : records'[i] = records[i]
            /\ records'[n].membershipId = m
        BY <2>1, <2>2 DEF Extended, NewRow, Ids
      <3>2. Settles(k)
        BY <2>4, <3>1 DEF Settles, Ids
      <3>. QED
        BY <1>0, <3>2, SettlesKeepsTidy
    <2>. QED
      BY <2>3, <2>4
  <1>. QED
    BY <1>1, <1>2, <1>3 DEF SelfService

(* A staff write settles every member but the one it marks as touched.     *)
LEMMA StaffWriteSettles ==
  ASSUME TypeInv, NEW s \in Staff, StaffCreate(s) \/ StaffUpdate(s),
         NEW k \in Members \ manual'
  PROVE  Settles(k) /\ k \notin manual
  <1>1. CASE StaffUpdate(s)
    <2> DEFINE id == request[s].id
    <2>1. /\ id \in Ids /\ DOMAIN records' = Ids
          /\ \A r \in Ids \ {id} : records'[r] = records[r]
          /\ records'[id].membershipId = records[id].membershipId
          /\ manual' = manual \cup {records[id].membershipId}
      BY <1>1, StaffUpdateGrown DEF Ids
    <2>. QED
      BY <2>1 DEF Settles
  <1>2. CASE StaffCreate(s)
    <2>1. PICK n, in, out :
            /\ n \notin Ids
            /\ records' = Extended(records, n, NewRow(request[s].membershipId, in, out))
            /\ Commit(s, request[s].membershipId)
      BY <1>2, FreshIdIsNew DEF StaffCreate, ManualClockInWrite, MarkPresentWrite
    <2>2. /\ DOMAIN records' = Ids \cup {n}
          /\ \A i \in Ids : records'[i] = records[i]
          /\ records'[n].membershipId = request[s].membershipId
      BY <2>1 DEF Extended, NewRow, Ids
    <2>3. manual' = manual \cup {request[s].membershipId}
      BY <2>1 DEF Commit
    <2>. QED
      BY <2>2, <2>3 DEF Settles
  <1>. QED
    BY <1>1, <1>2

(* The job closes rows and creates none: it settles every member. *)
LEMMA AutoCloseSettles ==
  ASSUME TypeInv, NEW j \in Jobs, NEW x \in job[j].todo, AutoCloseRecord(j, x), NEW k
  PROVE  Settles(k)
  <1> DEFINE row == Closed(records[x.id], x.checkInTime, AutoCloseShiftEnd(x), "AUTO_CLOSED")
  <1>1. x.id \in Ids /\ records' = [records EXCEPT ![x.id] = row]
    BY AutoCloseGrown
  <1>2. records[x.id] \in Row
    BY <1>1 DEF TypeInv, TypeOK, Ids
  <1>3. /\ row.membershipId = records[x.id].membershipId
        /\ row.checkInTime = records[x.id].checkInTime
        /\ row.status = "AUTO_CLOSED"
    BY <1>2 DEF Closed, Row
  <1> HIDE DEF row
  <1>. QED
    BY <1>1, <1>3 DEF Settles, Ids

LEMMA TidyInvInit == Init => TidyInv
  BY DEF Init, TidyInv, Tidy, OpenRecords, RecordsOf, Ids

LEMMA TidyInvNext == TypeInv /\ TidyInv /\ [Next]_vars => TidyInv'
  <1> SUFFICES ASSUME TypeInv, TidyInv, [Next]_vars, NEW k \in Members \ manual'
               PROVE  Tidy(k)'
    BY DEF TidyInv, Untouched
  <1>0. ASSUME Settles(k), k \notin manual, UNCHANGED now
        PROVE  Tidy(k)'
    BY <1>0, SettlesKeepsTidy DEF TypeInv, TidyInv, Untouched
  <1>1. ASSUME UNCHANGED <<now, records, manual>>
        PROVE  Tidy(k)'
    BY <1>0, <1>1 DEF Settles, Ids
  <1>2. ASSUME NEW m \in Members, SelfService(m) PROVE Tidy(k)'
    <2>1. k \notin manual
      BY <1>2 DEF SelfService, ClockOut, CloseStaleAndClockIn, ClockIn
    <2>. QED
      BY <1>2, <2>1, SelfServiceKeepsTidy DEF TidyInv, Untouched
  <1>3. ASSUME NEW s \in Staff, StaffStep(s) PROVE Tidy(k)'
    <2>1. CASE StaffRead(s)
      <3>1. UNCHANGED <<now, records, manual>>
        BY <2>1, StaffReadDecides DEF Decide
      <3>. QED
        BY <1>1, <3>1
    <2>2. CASE StaffCreate(s) \/ StaffUpdate(s)
      <3>1. UNCHANGED now
        BY <2>2, StaffCreateGrown, StaffUpdateGrown
      <3>. QED
        BY <1>0, <2>2, <3>1, StaffWriteSettles
    <2>. QED
      BY <1>3, <2>1, <2>2, StaffStepKinds
  <1>4. ASSUME NEW c \in flagCalls, FlagHandled(c) PROVE Tidy(k)'
    BY <1>1, <1>4 DEF FlagHandled
  <1>5. ASSUME NEW j \in Jobs, NEW x \in job[j].todo, AutoCloseRecord(j, x) PROVE Tidy(k)'
    BY <1>0, <1>5, AutoCloseSettles DEF AutoCloseRecord
  <1>6. ASSUME NEW j \in Jobs,
               AutoCloseStart(j) \/ \E x \in job[j].todo : AutoCloseSkip(j, x) \/ AutoCloseFail(j, x)
        PROVE  Tidy(k)'
    BY <1>1, <1>6 DEF AutoCloseStart, AutoCloseSkip, AutoCloseFail
  <1>7. CASE Tick
    <2>1. UNCHANGED <<records, manual>> /\ now.day <= now'.day
      BY <1>7 DEF Tick, TypeInv, TypeOK, Times, Days
    <2>2. k \in Untouched /\ now'.day \in Int /\ now.day \in Int
      BY <1>7, <2>1, TimeAssumption DEF Untouched, Tick, TypeInv, TypeOK, Times, Days
    <2>3. \A r \in RecordsOf(k) : records[r].checkInTime.day \in Int
      BY DEF TypeInv, TypeOK, Times, Days, RecordsOf, Ids, Row
    <2>4. Tidy(k) /\ RecordsOf(k)' = RecordsOf(k) /\ OpenRecords(k)' = OpenRecords(k)
      BY <2>1, <2>2 DEF TidyInv, OpenRecords, RecordsOf, Ids
    <2>. QED
      BY <2>1, <2>2, <2>3, <2>4 DEF Tidy
  <1>8. CASE UNCHANGED vars
    BY <1>1, <1>8 DEF vars
  <1>. QED
    BY <1>2, <1>3, <1>4, <1>5, <1>6, <1>7, <1>8 DEF Next, JobStep, JobVisit

LEMMA TidyAlways == Spec => []TidyInv
  <1>1. Spec => []TypeInv
    BY TypeInvInit, TypeInvNext, PTL DEF Spec
  <1>2. TypeInv /\ TidyInv /\ [Next]_vars => TidyInv'
    BY TidyInvNext
  <1>. QED
    BY <1>1, <1>2, TidyInvInit, PTL DEF Spec

(* Scans and the job alone, in any interleaving and with any number of job *)
(* runs at once, never leave a member two open records.                    *)
THEOREM AttendanceOneOpenRecord == Spec => []OneOpenRecord
  <1>1. TidyInv => OneOpenRecord
    BY DEF TidyInv, Tidy, OneOpenRecord
  <1>. QED
    BY <1>1, TidyAlways, PTL

(* Scans and the job alone never give a member two records of one day. *)
THEOREM AttendanceOneRecordPerDay == Spec => []OneRecordPerDay
  <1>1. TidyInv => OneRecordPerDay
    BY DEF TidyInv, Tidy, OneRecordPerDay
  <1>. QED
    BY <1>1, TidyAlways, PTL

(* Scans and the job alone never start a new day over an open record of an *)
(* earlier one.                                                            *)
THEOREM AttendanceOpenIsNewest == Spec => []OpenIsNewest
  <1>1. TidyInv => OpenIsNewest
    BY DEF TidyInv, Tidy, OpenIsNewest
  <1>. QED
    BY <1>1, TidyAlways, PTL

-----------------------------------------------------------------------------
(* The rows: what a row says of itself whoever wrote it, that the check-in *)
(* it was created with is never lost, and that the records of the members  *)
(* no staff write touched span the time they show.                         *)

(* A time that has come, or no time. *)
Past(t) == ~Before(now, t)

RowSound(row) ==
  /\ row.status = "CHECKED_IN" <=> row.checkOutTime = NoTime
  /\ \A t \in {row.checkInTime, row.checkOutTime, row.originalCheckIn, row.originalCheckOut} : Past(t)
  /\ row.bsDay = FirstCheckIn(row).day

(* What every write of a row leaves of it. *)
Kept(old, new) ==
  /\ FirstCheckIn(new) = FirstCheckIn(old)
  /\ new.bsDay = old.bsDay
  /\ old.originalCheckIn # NoTime => new.originalCheckIn = old.originalCheckIn

(* What a pending edit holds of the row it read: it names times that have  *)
(* come, and saves the first check-in unless the row already tells it.     *)
EditSound(patch) ==
  /\ \A t \in {patch.originalCheckIn, patch.originalCheckOut, patch.checkIn, patch.checkOut} : Past(t)
  /\ IF patch.originalCheckIn = NoTime
     THEN records[patch.id].originalCheckIn # NoTime
     ELSE patch.originalCheckIn = FirstCheckIn(records[patch.id])

RequestsSound ==
  \A s \in Staff :
    /\ request[s].op = "edit" => EditSound(request[s])
    /\ request[s].op = "markPresent" => Past(request[s].checkIn) /\ Past(request[s].checkOut)

JobsSound == \A j \in Jobs : Past(job[j].startedAt)

(* RowCoherent is not inductive: it needs what the pending edits hold of   *)
(* the rows they read, and that no job run started in the future.          *)
RowInv == RowCoherent /\ RequestsSound /\ JobsSound

LEMMA RowCoherentIsRowSound == RowCoherent <=> \A r \in Ids : RowSound(records[r])
  BY DEF RowCoherent, RowSound, Past

LEMMA RowFields ==
  ASSUME NEW row \in Row
  PROVE  /\ row.checkInTime \in Times /\ row.checkOutTime \in OptTime
         /\ row.originalCheckIn \in OptTime /\ row.originalCheckOut \in OptTime
         /\ row.bsDay \in Days /\ row.status \in Statuses /\ row.membershipId \in Members
  BY DEF Row

LEMMA NoTimeIsPast == ASSUME now \in Times PROVE Past(NoTime)
  BY DEF Past, Before, NoTime, Times, Days

LEMMA NowIsPast == ASSUME now \in Times PROVE Past(now)
  BY DEF Past, Before, Times, Days

LEMMA EarlierIsPast ==
  ASSUME now \in Times, NEW s \in Times, NEW t \in Times, Before(s, t), Past(t)
  PROVE  Past(s)
  BY TimeAssumption DEF Past, Before, Times, Days

LEMMA FormTimesArePast ==
  ASSUME NEW t \in FormTimesUpTo(now) PROVE t \in Times /\ Past(t)
  BY TimeAssumption DEF FormTimesUpTo, Past, Times, Days

-----------------------------------------------------------------------------
(* What each write does to a row. *)

(* A row created at a time that has come is sound. *)
LEMMA NewRowSound ==
  ASSUME now \in Times, NEW m \in Members, NEW in \in Times, NEW out \in OptTime,
         Past(in), Past(out)
  PROVE  RowSound(NewRow(m, in, out))
  BY NoTimeIsPast DEF RowSound, NewRow, FirstCheckIn

(* Closing a row at a time that has come keeps it sound. *)
LEMMA ClosedSound ==
  ASSUME NEW row \in Row, RowSound(row), NEW in \in Times, NEW at \in Times, Past(at),
         NEW st \in {"CHECKED_OUT", "AUTO_CLOSED"}
  PROVE  RowSound(Closed(row, in, at, st)) /\ Kept(row, Closed(row, in, at, st))
  <1> DEFINE out == Closed(row, in, at, st)
  <1>1. /\ out.checkInTime = row.checkInTime
        /\ out.bsDay = row.bsDay
        /\ out.originalCheckIn = row.originalCheckIn
        /\ out.originalCheckOut = row.originalCheckOut
        /\ out.status = st
        /\ out.checkOutTime = at
    BY DEF Closed, Row
  <1>2. at # NoTime
    BY NoTimeIsNoTime
  <1> HIDE DEF out
  <1>3. RowSound(out) /\ Kept(row, out)
    BY <1>1, <1>2 DEF RowSound, Kept, FirstCheckIn
  <1>. QED
    BY <1>3 DEF out

(* The patch of an edit keeps the row sound, and saves its first check-in. *)
LEMMA EditedSound ==
  ASSUME NEW row \in Row, RowSound(row), NEW patch \in Requests, patch.op = "edit",
         \A t \in {patch.originalCheckIn, patch.originalCheckOut, patch.checkIn, patch.checkOut} :
           Past(t),
         IF patch.originalCheckIn = NoTime THEN row.originalCheckIn # NoTime
         ELSE patch.originalCheckIn = FirstCheckIn(row)
  PROVE  RowSound(Edited(row, patch)) /\ Kept(row, Edited(row, patch))
  <1>1. /\ patch.originalCheckIn \in OptTime /\ patch.originalCheckOut \in OptTime
        /\ patch.checkIn \in OptTime /\ patch.resolvedCheckIn \in Times
        /\ patch.checkOut \in OptTime
    BY RequestFields
  <1> DEFINE new == [row EXCEPT
        !.originalCheckIn  = Patched(@, patch.originalCheckIn),
        !.originalCheckOut = Patched(@, patch.originalCheckOut),
        !.checkInTime      = Patched(@, patch.checkIn)]
  <1>2. /\ new \in Row
        /\ new.bsDay = row.bsDay
        /\ new.originalCheckIn = Patched(row.originalCheckIn, patch.originalCheckIn)
        /\ new.originalCheckOut = Patched(row.originalCheckOut, patch.originalCheckOut)
        /\ new.checkInTime = Patched(row.checkInTime, patch.checkIn)
        /\ new.status = row.status
        /\ new.checkOutTime = row.checkOutTime
    BY <1>1 DEF Row, Patched, OptTime
  <1>3. /\ Edited(row, patch) = IF patch.checkOut = NoTime THEN new
                                ELSE Closed(new, patch.resolvedCheckIn, patch.checkOut, "CHECKED_OUT")
    BY DEF Edited
  <1> HIDE DEF new
  <1>4. FirstCheckIn(row) # NoTime
    BY RowFields, NoTimeIsNoTime DEF FirstCheckIn
  <1>5. new.originalCheckIn # NoTime /\ new.originalCheckIn = FirstCheckIn(row)
    BY <1>2, <1>4 DEF Patched, FirstCheckIn
  <1>6. RowSound(new)
    <2>1. Past(new.originalCheckIn) /\ Past(new.originalCheckOut) /\ Past(new.checkInTime)
      BY <1>2 DEF Patched, RowSound
    <2>. QED
      BY <1>2, <1>5, <2>1 DEF RowSound, FirstCheckIn
  <1>7. Kept(row, new)
    BY <1>2, <1>5 DEF Kept, FirstCheckIn
  <1>8. CASE patch.checkOut = NoTime
    BY <1>3, <1>6, <1>7, <1>8
  <1>9. CASE patch.checkOut # NoTime
    <2> DEFINE out == Closed(new, patch.resolvedCheckIn, patch.checkOut, "CHECKED_OUT")
    <2>1. patch.checkOut \in Times
      BY <1>1, <1>9 DEF OptTime
    <2>2. RowSound(out) /\ Kept(new, out)
      BY <1>1, <1>2, <1>6, <2>1, ClosedSound
    <2> HIDE DEF out
    <2>3. Kept(row, out)
      BY <1>5, <1>7, <2>2 DEF Kept
    <2>4. Edited(row, patch) = out
      BY <1>3, <1>9 DEF out
    <2>. QED
      BY <2>2, <2>3, <2>4
  <1>. QED
    BY <1>8, <1>9

-----------------------------------------------------------------------------
(* What each operation does to the table. *)

RowsKept == \A r \in Ids : r \in DOMAIN records' /\ Kept(records[r], records'[r])

LEMMA SoundTable ==
  ASSUME UNCHANGED now, \A r \in DOMAIN records' : RowSound(records'[r])
  PROVE  RowCoherent'
  <1>1. ASSUME NEW r \in Ids' PROVE RowSound(records[r])'
    <2>1. RowSound(records'[r])
      BY DEF Ids
    <2>. QED
      BY <2>1 DEF RowSound, Past, FirstCheckIn
  <1>. QED
    BY <1>1 DEF RowCoherent, RowSound, Past, Ids

LEMMA SameRows ==
  ASSUME RowCoherent, UNCHANGED <<now, records>>
  PROVE  RowsKept /\ RowCoherent'
  <1>1. RowsKept
    BY DEF RowsKept, Kept, Ids
  <1>2. RowCoherent'
    BY RowCoherentIsRowSound, SoundTable DEF Ids
  <1>. QED
    BY <1>1, <1>2

LEMMA UpdateRows ==
  ASSUME TypeOK, RowCoherent, UNCHANGED now, NEW r \in Ids, NEW row,
         RowSound(row), Kept(records[r], row), records' = [records EXCEPT ![r] = row]
  PROVE  RowsKept /\ RowCoherent'
  <1>1. /\ DOMAIN records' = Ids /\ records'[r] = row
        /\ \A i \in Ids \ {r} : records'[i] = records[i]
    BY DEF TypeOK, Ids
  <1>2. RowsKept
    BY <1>1 DEF RowsKept, Kept
  <1>3. \A i \in DOMAIN records' : RowSound(records'[i])
    BY <1>1, RowCoherentIsRowSound
  <1>. QED
    BY <1>2, <1>3, SoundTable

LEMMA CreateRows ==
  ASSUME UNCHANGED now, NEW table, DOMAIN table = Ids,
         \A i \in Ids : RowSound(table[i]) /\ Kept(records[i], table[i]),
         NEW n, n \notin Ids, NEW row, RowSound(row), records' = Extended(table, n, row)
  PROVE  RowsKept /\ RowCoherent'
  <1>1. /\ DOMAIN records' = Ids \cup {n} /\ records'[n] = row
        /\ \A i \in Ids : records'[i] = table[i]
    BY DEF Extended
  <1>2. RowsKept
    BY <1>1 DEF RowsKept
  <1>3. \A i \in DOMAIN records' : RowSound(records'[i])
    BY <1>1
  <1>. QED
    BY <1>2, <1>3, SoundTable

(* A creation in the table as it is. *)
LEMMA CreateRow ==
  ASSUME TypeOK, RowCoherent, UNCHANGED now, NEW n \in RecordIds, FreshId(n), NEW row,
         RowSound(row), records' = Extended(records, n, row)
  PROVE  RowsKept /\ RowCoherent'
  <1>1. \A i \in Ids : RowSound(records[i]) /\ Kept(records[i], records[i])
    BY RowCoherentIsRowSound DEF Kept
  <1>. QED
    BY <1>1, FreshIdIsNew, CreateRows DEF Ids

LEMMA AutoCloseTimeIsPast ==
  ASSUME TypeOK, NEW r \in Ids, records[r].checkInTime.day < now.day
  PROVE  Past(AutoCloseTime(records[r]))
  <1>1. /\ now.day \in Int /\ now.tick \in Int
        /\ records[r].membershipId \in Members /\ records[r].checkInTime.day \in Days
    BY DEF TypeOK, Times, Days, Ids, Row
  <1> DEFINE shiftEnd == ShiftEndOn(records[r].membershipId, records[r].checkInTime.day)
             yesterday == [day |-> now.day - 1, tick |-> LastTick]
  <1>2. shiftEnd \in Times
    BY <1>1, ShiftEndIsTime
  <1>3. shiftEnd.day \in Int
    BY <1>2 DEF Times, Days
  <1>4. shiftEnd.day < now.day => Past(shiftEnd)
    BY <1>1, <1>3 DEF Past, Before
  <1>5. Past(yesterday)
    BY <1>1 DEF Past, Before
  <1>6. AutoCloseTime(records[r]) = IF Before(records[r].checkInTime, shiftEnd) /\ shiftEnd.day < now.day
                                    THEN shiftEnd ELSE yesterday
    BY DEF AutoCloseTime
  <1> HIDE DEF shiftEnd, yesterday
  <1>. QED
    BY <1>4, <1>5, <1>6

LEMMA SelfServiceRows ==
  ASSUME TypeInv, RowInv, NEW m \in Members, SelfService(m)
  PROVE  RowsKept /\ RowCoherent'
  <1>0. /\ TypeOK /\ RowCoherent /\ now \in Times /\ now \in OptTime /\ NoTime \in OptTime
        /\ Past(now) /\ Past(NoTime) /\ UNCHANGED now
    BY NowIsPast, NoTimeIsPast
       DEF TypeInv, TypeOK, RowInv, OptTime, SelfService, ClockOut, CloseStaleAndClockIn, ClockIn
  <1>r. ASSUME NEW r \in OpenRecords(m)
        PROVE  /\ r \in Ids /\ records[r] \in Row /\ records[r].checkInTime \in Times
               /\ RowSound(records[r])
    BY <1>0, RowCoherentIsRowSound DEF OpenRecords, RecordsOf, TypeOK, Ids, Row
  <1>n. RowSound(NewRow(m, now, NoTime))
    BY <1>0, NewRowSound
  <1>1. CASE ClockOut(m)
    <2>1. PICK r \in OpenRecords(m) :
            records' = [records EXCEPT ![r] = Closed(@, @.checkInTime, now, "CHECKED_OUT")]
      BY <1>1 DEF ClockOut
    <2> DEFINE row == Closed(records[r], records[r].checkInTime, now, "CHECKED_OUT")
    <2>2. RowSound(row) /\ Kept(records[r], row)
      BY <1>0, <1>r, ClosedSound
    <2>3. records' = [records EXCEPT ![r] = row]
      BY <2>1
    <2> HIDE DEF row
    <2>. QED
      BY <1>0, <1>r, <2>2, <2>3, UpdateRows
  <1>2. CASE CloseStaleAndClockIn(m)
    <2>1. PICK r \in OpenRecords(m), n \in RecordIds :
            /\ records[r].checkInTime.day < now.day
            /\ FreshId(n)
            /\ records' = Extended([records EXCEPT ![r] =
                                 Closed(@, @.checkInTime, AutoCloseTime(@), "AUTO_CLOSED")],
                              n, NewRow(m, now, NoTime))
      BY <1>2 DEF CloseStaleAndClockIn
    <2> DEFINE at  == AutoCloseTime(records[r])
               row == Closed(records[r], records[r].checkInTime, at, "AUTO_CLOSED")
               table == [records EXCEPT ![r] = row]
    <2>2. at \in Times /\ Past(at)
      BY <1>0, <1>r, <2>1, AutoCloseTimeType, AutoCloseTimeIsPast
    <2> HIDE DEF at
    <2>3. RowSound(row) /\ Kept(records[r], row)
      BY <1>r, <2>2, ClosedSound
    <2>4. records' = Extended(table, n, NewRow(m, now, NoTime))
      BY <2>1 DEF at
    <2> HIDE DEF row
    <2>5. DOMAIN table = Ids /\ table[r] = row /\ \A i \in Ids \ {r} : table[i] = records[i]
      BY <1>0, <1>r DEF Ids
    <2>6. \A i \in Ids \ {r} : RowSound(records[i]) /\ Kept(records[i], records[i])
      BY <1>0, RowCoherentIsRowSound DEF Kept
    <2> HIDE DEF table
    <2>7. \A i \in Ids : RowSound(table[i]) /\ Kept(records[i], table[i])
      BY <2>3, <2>5, <2>6
    <2>8. n \notin Ids
      BY <2>1, FreshIdIsNew
    <2>. QED
      BY <1>0, <1>n, <2>4, <2>5, <2>7, <2>8, CreateRows
  <1>3. CASE ClockIn(m)
    <2>1. PICK n \in RecordIds : FreshId(n) /\ records' = Extended(records, n, NewRow(m, now, NoTime))
      BY <1>3 DEF ClockIn
    <2>. QED
      BY <1>0, <1>n, <2>1, CreateRow
  <1>. QED
    BY <1>1, <1>2, <1>3 DEF SelfService

(* A staff read changes no row, and the edit it prepares is sound. *)
LEMMA StaffReadRows ==
  ASSUME TypeInv, RowInv, NEW s \in Staff, StaffRead(s)
  PROVE  \E req :
           /\ Decide(s, req)
           /\ req.op = "edit" => EditSound(req)
           /\ req.op = "markPresent" => Past(req.checkIn) /\ Past(req.checkOut)
  <1>0. /\ now \in Times /\ Past(NoTime)
        /\ \A r \in Ids : records[r] \in Row /\ RowSound(records[r])
    BY NoTimeIsPast, RowCoherentIsRowSound DEF TypeInv, TypeOK, RowInv, Ids
  <1>f. \A t \in FormTimesUpTo(now) \cup {NoTime} : Past(t)
    BY <1>0, FormTimesArePast
  <1>1. ASSUME NEW m \in Members, ManualAttendanceRead(s, m)
        PROVE  \E req : Decide(s, req) /\ req.op \notin {"edit", "markPresent"}
    <2>1. CASE Decide(s, [op |-> "clockIn", membershipId |-> m])
      BY <2>1
    <2>2. CASE \E r \in OpenRecords(m) :
          Decide(s, [op |-> "clockOut", id |-> r, readCheckIn |-> records[r].checkInTime])
      BY <2>2
    <2>. QED
      BY <1>1, <2>1, <2>2 DEF ManualAttendanceRead
  <1>2. ASSUME NEW r \in Ids, NEW in \in FormTimesUpTo(now) \cup {NoTime},
               NEW out \in FormTimesUpTo(now) \cup {NoTime}, EditRead(s, r, in, out)
        PROVE  \E req : Decide(s, req) /\ req.op = "edit" /\ EditSound(req)
    <2> DEFINE row == records[r]
               req == [op |-> "edit", id |-> r,
           originalCheckIn  |-> IF row.originalCheckIn = NoTime
                                THEN row.checkInTime ELSE NoTime,
           originalCheckOut |-> IF row.originalCheckOut = NoTime
                                THEN row.checkOutTime ELSE NoTime,
           checkIn |-> in, resolvedCheckIn |-> Resolved(row, in),
           checkOut |-> out]
    <2>1. Decide(s, req)
      BY <1>2 DEF EditRead
    <2>2. Past(row.checkInTime) /\ Past(row.checkOutTime)
      BY <1>0 DEF RowSound
    <2>3. \A t \in {req.originalCheckIn, req.originalCheckOut, req.checkIn, req.checkOut} : Past(t)
      BY <1>0, <1>f, <2>2
    <2>4. row.checkInTime # NoTime
      BY <1>0, RowFields, NoTimeIsNoTime
    <2>5. EditSound(req)
      BY <2>3, <2>4 DEF EditSound, FirstCheckIn
    <2>. QED
      BY <2>1, <2>5
  <1>3. ASSUME NEW r \in Ids, AcknowledgeRead(s, r)
        PROVE  \E req : Decide(s, req) /\ req.op \notin {"edit", "markPresent"}
    BY <1>3 DEF AcknowledgeRead
  <1>4. ASSUME NEW m \in Members, NEW date \in Days, NEW in \in FormTimesUpTo(now),
               NEW out \in FormTimesUpTo(now) \cup {NoTime}, MarkPresentRead(s, m, date, in, out)
        PROVE  \E req : /\ Decide(s, req) /\ req.op = "markPresent"
                        /\ Past(req.checkIn) /\ Past(req.checkOut)
    <2> DEFINE req == [op |-> "markPresent", membershipId |-> m,
                       checkIn |-> in, checkOut |-> out]
    <2>1. Decide(s, req)
      BY <1>4 DEF MarkPresentRead
    <2>2. Past(req.checkIn) /\ Past(req.checkOut)
      BY <1>f
    <2>. QED
      BY <2>1, <2>2
  <1>. QED
    BY <1>1, <1>2, <1>3, <1>4 DEF StaffRead

LEMMA StaffCreateRows ==
  ASSUME TypeInv, RowInv, NEW s \in Staff, StaffCreate(s)
  PROVE  RowsKept /\ RowCoherent'
  <1>0. /\ TypeOK /\ RowCoherent /\ now \in Times /\ now \in OptTime /\ NoTime \in OptTime
        /\ Past(now) /\ Past(NoTime) /\ UNCHANGED now /\ request[s] \in Requests
    BY NowIsPast, NoTimeIsPast, StaffCreateGrown DEF TypeInv, TypeOK, RowInv, OptTime
  <1>1. CASE ManualClockInWrite(s)
    <2>1. request[s].membershipId \in Members
      BY <1>0, <1>1, RequestFields DEF ManualClockInWrite
    <2>2. PICK n \in RecordIds : /\ FreshId(n)
            /\ records' = Extended(records, n, NewRow(request[s].membershipId, now, NoTime))
      BY <1>1 DEF ManualClockInWrite
    <2>3. RowSound(NewRow(request[s].membershipId, now, NoTime))
      BY <1>0, <2>1, NewRowSound
    <2>. QED
      BY <1>0, <2>2, <2>3, CreateRow
  <1>2. CASE MarkPresentWrite(s)
    <2>1. /\ request[s].membershipId \in Members /\ request[s].checkIn \in Times
          /\ request[s].checkOut \in OptTime
      BY <1>0, <1>2, RequestFields DEF MarkPresentWrite
    <2>2. PICK n \in RecordIds : /\ FreshId(n)
            /\ records' = Extended(records, n, NewRow(request[s].membershipId,
                                                      request[s].checkIn, request[s].checkOut))
      BY <1>2 DEF MarkPresentWrite
    <2>3. Past(request[s].checkIn) /\ Past(request[s].checkOut)
      BY <1>2 DEF MarkPresentWrite, RowInv, RequestsSound
    <2>4. RowSound(NewRow(request[s].membershipId, request[s].checkIn, request[s].checkOut))
      BY <1>0, <2>1, <2>3, NewRowSound
    <2>. QED
      BY <1>0, <2>2, <2>4, CreateRow
  <1>. QED
    BY <1>1, <1>2 DEF StaffCreate

LEMMA StaffUpdateRows ==
  ASSUME TypeInv, RowInv, NEW s \in Staff, StaffUpdate(s)
  PROVE  RowsKept /\ RowCoherent'
  <1> DEFINE req == request[s]
             id  == req.id
  <1>0. /\ TypeOK /\ RowCoherent /\ now \in Times /\ Past(now) /\ UNCHANGED now
        /\ req \in Requests /\ id \in Ids /\ records[id] \in Row /\ RowSound(records[id])
    BY NowIsPast, StaffUpdateGrown, RowCoherentIsRowSound DEF TypeInv, TypeOK, RowInv, Ids
  <1>1. CASE ManualClockOutWrite(s)
    <2> DEFINE row == Closed(records[id], req.readCheckIn, now, "CHECKED_OUT")
    <2>1. req.readCheckIn \in Times
      BY <1>0, <1>1, RequestFields DEF ManualClockOutWrite
    <2>2. RowSound(row) /\ Kept(records[id], row)
      BY <1>0, <2>1, ClosedSound
    <2>3. records' = [records EXCEPT ![id] = row]
      BY <1>1 DEF ManualClockOutWrite
    <2> HIDE DEF row
    <2>. QED
      BY <1>0, <2>2, <2>3, UpdateRows
  <1>2. CASE EditWrite(s)
    <2> DEFINE row == Edited(records[id], req)
    <2>1. req.op = "edit" /\ EditSound(req)
      BY <1>2 DEF EditWrite, RowInv, RequestsSound
    <2>2. RowSound(row) /\ Kept(records[id], row)
      BY <1>0, <2>1, EditedSound DEF EditSound
    <2>3. records' = [records EXCEPT ![id] = row]
      BY <1>2 DEF EditWrite
    <2> HIDE DEF row
    <2>. QED
      BY <1>0, <2>2, <2>3, UpdateRows
  <1>3. CASE AcknowledgeWrite(s)
    <2> DEFINE row == [records[id] EXCEPT !.reviewed = TRUE]
    <2>1. RowSound(row) /\ Kept(records[id], row)
      BY <1>0 DEF RowSound, Kept, FirstCheckIn, Row
    <2>2. records' = [records EXCEPT ![id] = row]
      BY <1>0, <1>3 DEF AcknowledgeWrite
    <2> HIDE DEF row
    <2>. QED
      BY <1>0, <2>1, <2>2, UpdateRows
  <1>. QED
    BY <1>1, <1>2, <1>3 DEF StaffUpdate

LEMMA AutoCloseRows ==
  ASSUME TypeInv, RowInv, NEW j \in Jobs, NEW x \in job[j].todo, AutoCloseRecord(j, x)
  PROVE  RowsKept /\ RowCoherent'
  <1> DEFINE at  == AutoCloseShiftEnd(x)
             row == Closed(records[x.id], x.checkInTime, at, "AUTO_CLOSED")
  <1>0. /\ TypeOK /\ RowCoherent /\ now \in Times /\ UNCHANGED now
        /\ x.id \in Ids /\ records[x.id] \in Row /\ RowSound(records[x.id])
    BY AutoCloseGrown, RowCoherentIsRowSound DEF TypeInv, TypeOK, RowInv, Ids, AutoCloseRecord
  <1>s. job[j].startedAt \in Times /\ x.checkInTime \in Times
    BY DEF TypeInv, TypeOK, Snapshots
  <1>1. at \in Times /\ records' = [records EXCEPT ![x.id] = row]
    BY AutoCloseGrown
  <1>2. Past(at)
    BY <1>0, <1>s, <1>1, EarlierIsPast DEF AutoCloseRecord, ShiftEndPassed, RowInv, JobsSound
  <1> HIDE DEF at
  <1>3. RowSound(row) /\ Kept(records[x.id], row)
    BY <1>0, <1>s, <1>1, <1>2, ClosedSound
  <1> HIDE DEF row
  <1>. QED
    BY <1>0, <1>1, <1>3, UpdateRows

-----------------------------------------------------------------------------
(* The invariant. *)

LEMMA TickKeepsPast ==
  ASSUME TypeOK, Tick, NEW t \in OptTime, Past(t)
  PROVE  Past(t)'
  BY TimeAssumption DEF TypeOK, Tick, Past, Before, OptTime, NoTime, Times, Days

(* What a step keeps of the pending writes it neither makes nor carries    *)
(* out: the rows keep their first check-in, and the past stays past.       *)
LEMMA RequestStaysSound ==
  ASSUME TypeInv, RowInv, RowsKept, \A t \in OptTime : Past(t) => Past(t)',
         NEW s \in Staff, request'[s] = request[s]
  PROVE  /\ request'[s].op = "edit" => EditSound(request[s])'
         /\ request'[s].op = "markPresent" =>
              Past(request[s].checkIn)' /\ Past(request[s].checkOut)'
  <1> DEFINE q == request[s]
  <1>0. q \in Requests
    BY DEF TypeInv, TypeOK
  <1>1. ASSUME q.op = "edit" PROVE EditSound(q)'
    <2>1. /\ q.id \in Ids /\ EditSound(q)
          /\ {q.originalCheckIn, q.originalCheckOut, q.checkIn, q.checkOut} \subseteq OptTime
      BY <1>0, <1>1, RequestFields DEF TypeInv, KnownIds, RowInv, RequestsSound
    <2>2. Kept(records[q.id], records'[q.id])
      BY <2>1 DEF RowsKept
    <2>3. IF q.originalCheckIn = NoTime
          THEN records'[q.id].originalCheckIn # NoTime
          ELSE q.originalCheckIn = FirstCheckIn(records'[q.id])
      BY <2>1, <2>2 DEF EditSound, Kept
    <2>4. \A t \in {q.originalCheckIn, q.originalCheckOut, q.checkIn, q.checkOut} : Past(t)'
      BY <2>1 DEF EditSound
    <2>. QED
      BY <2>3, <2>4 DEF EditSound, FirstCheckIn, Past
  <1>2. ASSUME q.op = "markPresent" PROVE Past(q.checkIn)' /\ Past(q.checkOut)'
    <2>1. /\ q.checkIn \in OptTime /\ q.checkOut \in OptTime
          /\ Past(q.checkIn) /\ Past(q.checkOut)
      BY <1>0, <1>2, RequestFields DEF RowInv, RequestsSound, OptTime
    <2>. QED
      BY <2>1 DEF Past
  <1>. QED
    BY <1>1, <1>2

LEMMA RowInvInit == Init => RowInv
  BY DEF Init, RowInv, RowCoherent, RequestsSound, JobsSound, Past, Before, Idle, IdleJob, Ids

LEMMA RowInvNext ==
  ASSUME TypeInv, RowInv, [Next]_vars
  PROVE  RowsKept /\ RowInv'
  <1>0. TypeOK /\ RowCoherent /\ now \in Times /\ Past(now)
    BY NowIsPast DEF TypeInv, TypeOK, RowInv
  <1>a. ASSUME RowsKept, RowCoherent', UNCHANGED now,
               \A j \in Jobs : Past(job'[j].startedAt),
               \A s \in Staff : \/ request'[s] \in {request[s], Idle}
                                \/ /\ request'[s].op = "edit" => EditSound(request[s])'
                                   /\ request'[s].op = "markPresent" =>
                                        Past(request[s].checkIn)' /\ Past(request[s].checkOut)'
        PROVE  RowsKept /\ RowInv'
    <2>1. \A t \in OptTime : Past(t) => Past(t)'
      BY <1>a DEF Past
    <2>2. ASSUME NEW s \in Staff
          PROVE  /\ request'[s].op = "edit" => EditSound(request[s])'
                 /\ request'[s].op = "markPresent" =>
                      Past(request[s].checkIn)' /\ Past(request[s].checkOut)'
      <3>1. Idle.op \notin {"edit", "markPresent"}
        BY DEF Idle
      <3>. QED
        BY <1>a, <2>1, <3>1, RequestStaysSound
    <2>3. RequestsSound'
      BY <2>2 DEF RequestsSound
    <2>4. JobsSound'
      BY <1>a DEF JobsSound, Past
    <2>. QED
      BY <1>a, <2>3, <2>4 DEF RowInv
  <1>j. /\ \A j \in Jobs : Past(job[j].startedAt)
        /\ UNCHANGED job => \A j \in Jobs : Past(job'[j].startedAt)
    BY DEF RowInv, JobsSound
  <1>v. ASSUME NEW j \in Jobs, NEW x, Visited(j, x)
        PROVE  \A k \in Jobs : Past(job'[k].startedAt)
    <2>1. job' = [job EXCEPT ![j] = IF job[j].todo \ {x} = {} THEN IdleJob
                     ELSE [startedAt |-> job[j].startedAt, todo |-> job[j].todo \ {x}]]
      BY <1>v DEF Visited
    <2>2. Past(IdleJob.startedAt)
      BY <1>0 DEF IdleJob, Past, Before, Times, Days
    <2>3. \A k \in Jobs : job'[k].startedAt \in {job[k].startedAt, IdleJob.startedAt}
      BY <2>1 DEF TypeInv, TypeOK
    <2>. QED
      BY <1>j, <2>2, <2>3
  <1>1. ASSUME NEW m \in Members, SelfService(m) PROVE RowsKept /\ RowInv'
    <2>1. UNCHANGED <<now, request, job>>
      BY <1>1 DEF SelfService, ClockOut, CloseStaleAndClockIn, ClockIn
    <2>. QED
      BY <1>1, <1>a, <1>j, <2>1, SelfServiceRows
  <1>2. ASSUME NEW s \in Staff, StaffStep(s) PROVE RowsKept /\ RowInv'
    <2>1. CASE StaffRead(s)
      <3>1. PICK req : /\ Decide(s, req)
                       /\ req.op = "edit" => EditSound(req)
                       /\ req.op = "markPresent" => Past(req.checkIn) /\ Past(req.checkOut)
        BY <2>1, StaffReadRows
      <3>2. /\ UNCHANGED <<now, records, job>>
            /\ request'[s] = req /\ \A k \in Staff \ {s} : request'[k] = request[k]
        BY <1>0, <3>1 DEF Decide, TypeOK
      <3>3. /\ request'[s].op = "edit" => EditSound(request[s])'
            /\ request'[s].op = "markPresent" =>
                 Past(request[s].checkIn)' /\ Past(request[s].checkOut)'
        BY <3>1, <3>2 DEF EditSound, Past, FirstCheckIn
      <3>. QED
        BY <1>0, <1>a, <1>j, <3>2, <3>3, SameRows
    <2>2. CASE StaffCreate(s)
      <3>1. UNCHANGED <<now, job>> /\ \A k \in Staff : request'[k] \in {request[k], Idle}
        BY <1>0, <2>2, StaffCreateGrown DEF TypeOK
      <3>. QED
        BY <1>a, <1>j, <2>2, <3>1, StaffCreateRows
    <2>3. CASE StaffUpdate(s)
      <3>1. UNCHANGED <<now, job>> /\ \A k \in Staff : request'[k] \in {request[k], Idle}
        BY <1>0, <2>3, StaffUpdateGrown DEF TypeOK
      <3>. QED
        BY <1>a, <1>j, <2>3, <3>1, StaffUpdateRows
    <2>. QED
      BY <1>2, <2>1, <2>2, <2>3, StaffStepKinds
  <1>3. ASSUME NEW c \in flagCalls, FlagHandled(c) PROVE RowsKept /\ RowInv'
    <2>1. UNCHANGED <<now, records, request, job>>
      BY <1>3 DEF FlagHandled
    <2>. QED
      BY <1>0, <1>a, <1>j, <2>1, SameRows
  <1>4. ASSUME NEW j \in Jobs, AutoCloseStart(j) PROVE RowsKept /\ RowInv'
    <2>1. UNCHANGED <<now, records, request>>
      BY <1>4 DEF AutoCloseStart
    <2>2. \A k \in Jobs : job'[k].startedAt \in {job[k].startedAt, now}
      BY <1>4 DEF AutoCloseStart, TypeInv, TypeOK
    <2>. QED
      BY <1>0, <1>a, <1>j, <2>1, <2>2, SameRows
  <1>5. ASSUME NEW j \in Jobs, NEW x \in job[j].todo, AutoCloseRecord(j, x)
        PROVE  RowsKept /\ RowInv'
    <2>1. Visited(j, x) /\ UNCHANGED <<now, request>>
      BY <1>5 DEF AutoCloseRecord
    <2>. QED
      BY <1>5, <1>a, <1>v, <2>1, AutoCloseRows
  <1>6. ASSUME NEW j \in Jobs, NEW x \in job[j].todo, AutoCloseSkip(j, x) \/ AutoCloseFail(j, x)
        PROVE  RowsKept /\ RowInv'
    <2>1. Visited(j, x) /\ UNCHANGED <<now, records, request>>
      BY <1>6 DEF AutoCloseSkip, AutoCloseFail
    <2>. QED
      BY <1>0, <1>a, <1>v, <2>1, SameRows
  <1>7. CASE Tick
    <2>1. UNCHANGED <<records, request, job>>
      BY <1>7 DEF Tick
    <2>2. \A t \in OptTime : Past(t) => Past(t)'
      BY <1>0, <1>7, TickKeepsPast
    <2>3. RowsKept
      BY <2>1 DEF RowsKept, Kept, Ids
    <2>4. RowCoherent'
      <3>1. \A r \in Ids : records[r] \in Row
        BY <1>0 DEF TypeOK, Ids
      <3>2. ASSUME NEW r \in Ids
            PROVE  \A t \in {records[r].checkInTime, records[r].checkOutTime,
                             records[r].originalCheckIn, records[r].originalCheckOut} : Past(t)'
        BY <1>0, <2>2, <3>1, RowFields DEF RowCoherent, Past, OptTime
      <3>. QED
        BY <1>0, <2>1, <3>2 DEF RowCoherent, Past, Ids, FirstCheckIn
    <2>5. RequestsSound'
      BY <2>1, <2>2, <2>3, RequestStaysSound DEF RequestsSound
    <2>6. JobsSound'
      <3>1. \A j \in Jobs : job[j].startedAt \in OptTime
        BY <1>0 DEF TypeOK, OptTime
      <3>. QED
        BY <1>j, <2>1, <2>2, <3>1 DEF JobsSound, Past
    <2>. QED
      BY <2>3, <2>4, <2>5, <2>6 DEF RowInv
  <1>8. CASE UNCHANGED vars
    <2>1. UNCHANGED <<now, records, request, job>>
      BY <1>8 DEF vars
    <2>. QED
      BY <1>0, <1>a, <1>j, <2>1, SameRows
  <1>. QED
    BY <1>1, <1>2, <1>3, <1>4, <1>5, <1>6, <1>7, <1>8 DEF Next, JobStep, JobVisit

LEMMA RowInvAlways == Spec => [](TypeInv /\ RowInv)
  <1>1. TypeInv /\ RowInv /\ [Next]_vars => (TypeInv /\ RowInv)'
    BY TypeInvNext, RowInvNext
  <1>. QED
    BY <1>1, TypeInvInit, RowInvInit, PTL DEF Spec

(* Whatever staff writes, scans and job runs race on a row, in any number  *)
(* and any order, the row is open exactly when it has no check-out, names  *)
(* no time that has not come, and its Nepali date is the day of the        *)
(* check-in it was created with.                                           *)
THEOREM AttendanceRowCoherent == Spec => []RowCoherent
  <1>1. RowInv => RowCoherent
    BY DEF RowInv
  <1>. QED
    BY <1>1, RowInvAlways, PTL

(* Two edits read the same row and both may save an original check-in: the *)
(* second never overwrites what the first saved.                           *)
THEOREM AttendanceOriginalCheckInStable == Spec => OriginalCheckInStable
  <1> DEFINE Stable == \A r \in Ids : records[r].originalCheckIn # NoTime
                         => records'[r].originalCheckIn = records[r].originalCheckIn
  <1>1. TypeInv /\ RowInv /\ [Next]_vars => [Stable]_vars
    BY RowInvNext DEF RowsKept, Kept
  <1>. QED
    BY <1>1, RowInvAlways, PTL DEF Spec, OriginalCheckInStable

-----------------------------------------------------------------------------
(* The rows no staff write touched. *)

SpanOf(row) ==
  /\ ~Before(row.checkOutTime, row.checkInTime)
  /\ row.duration = <<row.checkInTime, row.checkOutTime>>

(* What a job run remembers of a row is still what the row says. *)
SnapshotTrue(x) == x.checkInTime = records[x.id].checkInTime

Spans(m) ==
  /\ \A r \in RecordsOf(m) : records[r].status # "CHECKED_IN" => SpanOf(records[r])
  /\ \A j \in Jobs : \A x \in job[j].todo : x.id \in RecordsOf(m) => SnapshotTrue(x)

(* SpanCoherent is not inductive: the job computes a duration from its     *)
(* snapshot, which only a staff edit can make stale.                       *)
SpanInv == \A m \in Untouched : Spans(m)

(* A step that moves no check-in of m and closes its rows with their span. *)
SpansStep(m) ==
  \A r \in DOMAIN records' : records'[r].membershipId = m =>
    /\ r \in Ids => /\ records[r].membershipId = m
                    /\ records'[r].checkInTime = records[r].checkInTime
    /\ \/ r \in Ids /\ records'[r] = records[r]
       \/ records'[r].status = "CHECKED_IN"
       \/ SpanOf(records'[r])

LEMMA SpansKept ==
  ASSUME TypeInv, NEW m, Spans(m), SpansStep(m),
         \A j \in Jobs : \A x \in job'[j].todo :
           x \in job[j].todo \/ (x.id \in Ids /\ SnapshotTrue(x))
  PROVE  Spans(m)'
  <1>1. ASSUME NEW r \in DOMAIN records', records'[r].membershipId = m,
               records'[r].status # "CHECKED_IN"
        PROVE  SpanOf(records'[r])
    BY <1>1 DEF SpansStep, Spans, RecordsOf, Ids
  <1>2. ASSUME NEW j \in Jobs, NEW x \in job'[j].todo, x.id \in DOMAIN records',
               records'[x.id].membershipId = m
        PROVE  x.checkInTime = records'[x.id].checkInTime
    <2>1. x.id \in Ids
      BY DEF TypeInv, KnownIds
    <2>2. records[x.id].membershipId = m /\ records'[x.id].checkInTime = records[x.id].checkInTime
      BY <1>2, <2>1 DEF SpansStep
    <2>3. SnapshotTrue(x)
      BY <2>1, <2>2 DEF Spans, RecordsOf
    <2>. QED
      BY <2>2, <2>3 DEF SnapshotTrue
  <1>3. ASSUME NEW r \in RecordsOf(m)', records'[r].status # "CHECKED_IN"
        PROVE  SpanOf(records[r])'
    <2>1. SpanOf(records'[r])
      BY <1>1, <1>3 DEF RecordsOf, Ids
    <2>. QED
      BY <2>1 DEF SpanOf
  <1>4. \A j \in Jobs : \A x \in job'[j].todo : x.id \in RecordsOf(m)' => SnapshotTrue(x)'
    BY <1>2 DEF SnapshotTrue, RecordsOf, Ids
  <1>. QED
    BY <1>3, <1>4 DEF Spans

(* An update of one row of a table that closes it with its span. *)
LEMMA CloseSpans ==
  ASSUME TypeOK, NEW r \in Ids, NEW at \in Times, NEW st \in {"CHECKED_OUT", "AUTO_CLOSED"},
         ~Before(at, records[r].checkInTime)
  PROVE  LET row == Closed(records[r], records[r].checkInTime, at, st)
         IN  /\ SpanOf(row) /\ row.membershipId = records[r].membershipId
             /\ row.checkInTime = records[r].checkInTime
  BY DEF TypeOK, Closed, SpanOf, Row, Ids

(* The cap of a record left open on an earlier day is not before it began. *)
LEMMA AutoCloseTimeAfter ==
  ASSUME TypeOK, NEW r \in Ids, records[r].checkInTime.day < now.day
  PROVE  ~Before(AutoCloseTime(records[r]), records[r].checkInTime)
  <1>1. /\ now.day \in Int /\ LastTick \in Int
        /\ records[r].membershipId \in Members
        /\ records[r].checkInTime.day \in Days /\ records[r].checkInTime.day \in Int
        /\ records[r].checkInTime.tick \in Int /\ records[r].checkInTime.tick <= LastTick
    BY TimeAssumption DEF TypeOK, Times, Days, Ids, Row
  <1> DEFINE in == records[r].checkInTime
             shiftEnd == ShiftEndOn(records[r].membershipId, in.day)
             yesterday == [day |-> now.day - 1, tick |-> LastTick]
  <1>2. shiftEnd \in Times
    BY <1>1, ShiftEndIsTime
  <1>3. shiftEnd.day \in Int /\ shiftEnd.tick \in Int
    BY <1>2, TimeAssumption DEF Times, Days
  <1>4. ~Before(yesterday, in)
    BY <1>1 DEF Before
  <1>5. AutoCloseTime(records[r]) = IF Before(in, shiftEnd) /\ shiftEnd.day < now.day
                                    THEN shiftEnd ELSE yesterday
    BY DEF AutoCloseTime
  <1> HIDE DEF shiftEnd, yesterday
  <1>6. Before(in, shiftEnd) => ~Before(shiftEnd, in)
    BY <1>1, <1>3 DEF Before
  <1>. QED
    BY <1>4, <1>5, <1>6

LEMMA SelfServiceSpans ==
  ASSUME TypeInv, RowInv, NEW m \in Members, SelfService(m), NEW k
  PROVE  SpansStep(k)
  <1>0. /\ TypeOK /\ now \in Times
        /\ \A r \in Ids : ~Before(now, records[r].checkInTime)
    BY DEF TypeInv, TypeOK, RowInv, RowCoherent
  <1>r. ASSUME NEW r \in OpenRecords(m) PROVE r \in Ids
    BY DEF OpenRecords, RecordsOf
  <1>n. NewRow(m, now, NoTime).status = "CHECKED_IN"
    BY DEF NewRow
  <1>1. CASE ClockOut(m)
    <2>1. PICK r \in OpenRecords(m) :
            records' = [records EXCEPT ![r] = Closed(@, @.checkInTime, now, "CHECKED_OUT")]
      BY <1>1 DEF ClockOut
    <2> DEFINE row == Closed(records[r], records[r].checkInTime, now, "CHECKED_OUT")
    <2>2. /\ SpanOf(row) /\ row.membershipId = records[r].membershipId
          /\ row.checkInTime = records[r].checkInTime
      BY <1>0, <1>r, CloseSpans
    <2>3. records' = [records EXCEPT ![r] = row] /\ r \in Ids
      BY <1>r, <2>1
    <2> HIDE DEF row
    <2>. QED
      BY <2>2, <2>3 DEF SpansStep, Ids
  <1>2. CASE CloseStaleAndClockIn(m)
    <2>1. PICK r \in OpenRecords(m), n \in RecordIds :
            /\ records[r].checkInTime.day < now.day
            /\ FreshId(n)
            /\ records' = Extended([records EXCEPT ![r] =
                                 Closed(@, @.checkInTime, AutoCloseTime(@), "AUTO_CLOSED")],
                              n, NewRow(m, now, NoTime))
      BY <1>2 DEF CloseStaleAndClockIn
    <2> DEFINE at  == AutoCloseTime(records[r])
               row == Closed(records[r], records[r].checkInTime, at, "AUTO_CLOSED")
               table == [records EXCEPT ![r] = row]
    <2>2. at \in Times /\ ~Before(at, records[r].checkInTime)
      BY <1>0, <1>r, <2>1, AutoCloseTimeType, AutoCloseTimeAfter
    <2> HIDE DEF at
    <2>3. /\ SpanOf(row) /\ row.membershipId = records[r].membershipId
          /\ row.checkInTime = records[r].checkInTime
      BY <1>0, <1>r, <2>2, CloseSpans
    <2>4. records' = Extended(table, n, NewRow(m, now, NoTime))
      BY <2>1 DEF at
    <2> HIDE DEF row
    <2>5. DOMAIN table = Ids /\ table[r] = row /\ \A i \in Ids \ {r} : table[i] = records[i]
      BY <1>r DEF Ids
    <2> HIDE DEF table
    <2>6. n \notin Ids
      BY <2>1, FreshIdIsNew
    <2>7. /\ DOMAIN records' = Ids \cup {n} /\ records'[n].status = "CHECKED_IN"
          /\ \A i \in Ids : records'[i] = table[i]
      BY <1>n, <2>4, <2>5, <2>6 DEF Extended
    <2>. QED
      BY <2>3, <2>5, <2>6, <2>7 DEF SpansStep
  <1>3. CASE ClockIn(m)
    <2>1. PICK n \in RecordIds : FreshId(n) /\ records' = Extended(records, n, NewRow(m, now, NoTime))
      BY <1>3 DEF ClockIn
    <2>2. n \notin Ids
      BY <2>1, FreshIdIsNew
    <2>3. /\ DOMAIN records' = Ids \cup {n} /\ records'[n].status = "CHECKED_IN"
          /\ \A i \in Ids : records'[i] = records[i]
      BY <1>n, <2>1, <2>2 DEF Extended, Ids
    <2>. QED
      BY <2>2, <2>3 DEF SpansStep
  <1>. QED
    BY <1>1, <1>2, <1>3 DEF SelfService

(* A staff write touches the member whose row it writes, and no row of     *)
(* another.                                                                *)
LEMMA StaffWriteSpans ==
  ASSUME TypeInv, NEW s \in Staff, StaffCreate(s) \/ StaffUpdate(s), NEW k \in Members \ manual'
  PROVE  SpansStep(k)
  <1>1. CASE StaffUpdate(s)
    <2> DEFINE id == request[s].id
    <2>1. /\ id \in Ids /\ DOMAIN records' = Ids
          /\ \A r \in Ids \ {id} : records'[r] = records[r]
          /\ records'[id].membershipId = records[id].membershipId
          /\ manual' = manual \cup {records[id].membershipId}
      BY <1>1, StaffUpdateGrown DEF Ids
    <2>. QED
      BY <2>1 DEF SpansStep
  <1>2. CASE StaffCreate(s)
    <2>1. PICK n, in, out :
            /\ n \notin Ids
            /\ records' = Extended(records, n, NewRow(request[s].membershipId, in, out))
            /\ Commit(s, request[s].membershipId)
      BY <1>2, FreshIdIsNew DEF StaffCreate, ManualClockInWrite, MarkPresentWrite
    <2>2. /\ DOMAIN records' = Ids \cup {n}
          /\ \A i \in Ids : records'[i] = records[i]
          /\ records'[n].membershipId = request[s].membershipId
      BY <2>1 DEF Extended, NewRow, Ids
    <2>3. manual' = manual \cup {request[s].membershipId}
      BY <2>1 DEF Commit
    <2>. QED
      BY <2>2, <2>3 DEF SpansStep
  <1>. QED
    BY <1>1, <1>2

(* The job closes a row of its snapshot at a shift end after the check-in  *)
(* it remembers.                                                           *)
LEMMA AutoCloseSpans ==
  ASSUME TypeInv, NEW j \in Jobs, NEW x \in job[j].todo, AutoCloseRecord(j, x), NEW k, Spans(k)
  PROVE  SpansStep(k)
  <1> DEFINE at  == AutoCloseShiftEnd(x)
             row == Closed(records[x.id], x.checkInTime, at, "AUTO_CLOSED")
  <1>1. /\ TypeOK /\ x.id \in Ids /\ at \in Times
        /\ records' = [records EXCEPT ![x.id] = row]
    BY AutoCloseGrown DEF TypeInv
  <1>2. Before(x.checkInTime, at)
    BY DEF AutoCloseRecord, ShiftEndPassed
  <1>3. records[x.id].membershipId = k => x.checkInTime = records[x.id].checkInTime
    BY <1>1 DEF Spans, SnapshotTrue, RecordsOf
  <1>s. x.checkInTime \in Times
    BY DEF TypeInv, TypeOK, Snapshots
  <1>4. ~Before(at, x.checkInTime)
    BY <1>1, <1>2, <1>s, TimeAssumption DEF Before, Times, Days
  <1>5. records[x.id] \in Row
    BY <1>1 DEF TypeOK, Ids
  <1> HIDE DEF at
  <1>6. row.membershipId = records[x.id].membershipId
    BY <1>5 DEF Row, Closed
  <1>7. row.membershipId = k => SpanOf(row) /\ row.checkInTime = records[x.id].checkInTime
    BY <1>1, <1>3, <1>4, <1>6, CloseSpans
  <1> HIDE DEF row
  <1>. QED
    BY <1>1, <1>6, <1>7 DEF SpansStep, Ids

LEMMA SpanInvInit == Init => SpanInv
  BY DEF Init, SpanInv, Spans, RecordsOf, Ids, IdleJob

LEMMA SpanInvNext == TypeInv /\ RowInv /\ SpanInv /\ [Next]_vars => SpanInv'
  <1> SUFFICES ASSUME TypeInv, RowInv, SpanInv, [Next]_vars, NEW k \in Members \ manual'
               PROVE  Spans(k)'
    BY DEF SpanInv, Untouched
  <1>0. ASSUME k \notin manual, SpansStep(k),
               \A j \in Jobs : \A x \in job'[j].todo :
                 x \in job[j].todo \/ (x.id \in Ids /\ SnapshotTrue(x))
        PROVE  Spans(k)'
    BY <1>0, SpansKept DEF SpanInv, Untouched
  <1>1. ASSUME UNCHANGED <<records, manual>>,
               \A j \in Jobs : \A x \in job'[j].todo :
                 x \in job[j].todo \/ (x.id \in Ids /\ SnapshotTrue(x))
        PROVE  Spans(k)'
    <2>1. SpansStep(k)
      BY <1>1 DEF SpansStep, Ids
    <2>. QED
      BY <1>0, <1>1, <2>1
  <1>2. ASSUME NEW m \in Members, SelfService(m) PROVE Spans(k)'
    <2>1. UNCHANGED <<job, manual>>
      BY <1>2 DEF SelfService, ClockOut, CloseStaleAndClockIn, ClockIn
    <2>. QED
      BY <1>0, <1>2, <2>1, SelfServiceSpans
  <1>3. ASSUME NEW s \in Staff, StaffStep(s) PROVE Spans(k)'
    <2>1. CASE StaffRead(s)
      <3>1. UNCHANGED <<records, job, manual>>
        BY <2>1, StaffReadDecides DEF Decide
      <3>. QED
        BY <1>1, <3>1
    <2>2. CASE StaffCreate(s) \/ StaffUpdate(s)
      <3>1. UNCHANGED job /\ manual \subseteq manual'
        BY <2>2, StaffCreateGrown, StaffUpdateGrown
           DEF StaffCreate, ManualClockInWrite, MarkPresentWrite, Commit
      <3>. QED
        BY <1>0, <2>2, <3>1, StaffWriteSpans
    <2>. QED
      BY <1>3, <2>1, <2>2, StaffStepKinds
  <1>4. ASSUME NEW c \in flagCalls, FlagHandled(c) PROVE Spans(k)'
    BY <1>1, <1>4 DEF FlagHandled
  <1>5. ASSUME NEW j \in Jobs, AutoCloseStart(j) PROVE Spans(k)'
    <2> DEFINE open == {r \in Ids : records[r].status = "CHECKED_IN"}
               todo == {[id |-> r, checkInTime |-> records[r].checkInTime] : r \in open}
    <2>1. /\ job' = [job EXCEPT ![j] = [startedAt |-> now, todo |-> todo]]
          /\ UNCHANGED <<records, manual>>
      BY <1>5 DEF AutoCloseStart
    <2>2. \A x \in todo : x.id \in Ids /\ SnapshotTrue(x)
      BY DEF SnapshotTrue
    <2> HIDE DEF todo
    <2>3. \A i \in Jobs : \A x \in job'[i].todo : x \in job[i].todo \/ x \in todo
      BY <2>1 DEF TypeInv, TypeOK
    <2>. QED
      BY <1>1, <2>1, <2>2, <2>3
  <1>6. ASSUME NEW j \in Jobs, NEW x \in job[j].todo, AutoCloseRecord(j, x) PROVE Spans(k)'
    <2>1. Visited(j, x) /\ UNCHANGED manual
      BY <1>6 DEF AutoCloseRecord
    <2>2. Spans(k)
      BY <2>1 DEF SpanInv, Untouched
    <2>. QED
      BY <1>0, <1>6, <2>1, <2>2, VisitedJobs, AutoCloseSpans
  <1>7. ASSUME NEW j \in Jobs, NEW x \in job[j].todo, AutoCloseSkip(j, x) \/ AutoCloseFail(j, x)
        PROVE  Spans(k)'
    <2>1. Visited(j, x) /\ UNCHANGED <<records, manual>>
      BY <1>7 DEF AutoCloseSkip, AutoCloseFail
    <2>. QED
      BY <1>1, <2>1, VisitedJobs
  <1>8. CASE Tick \/ UNCHANGED vars
    BY <1>1, <1>8 DEF Tick, vars
  <1>. QED
    BY <1>2, <1>3, <1>4, <1>5, <1>6, <1>7, <1>8 DEF Next, JobStep, JobVisit

(* A record a scan or the job closed, with no staff write on its member,   *)
(* never ends before it began, and its duration is that of the check-in    *)
(* and check-out it shows: for any number of job runs, with snapshots of   *)
(* any age.                                                                *)
THEOREM AttendanceSpanCoherent == Spec => []SpanCoherent
  <1>1. Spec => []SpanInv
    BY SpanInvInit, SpanInvNext, RowInvAlways, PTL DEF Spec
  <1>2. SpanInv => SpanCoherent
    BY DEF SpanInv, Spans, SpanOf, SpanCoherent, OpenRecords, RecordsOf
  <1>. QED
    BY <1>1, <1>2, PTL
=============================================================================
