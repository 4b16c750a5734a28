---------------------------- MODULE MCAttendance ----------------------------
(***************************************************************************)
(* Small instances of Attendance for TLC: a member's shift ends at tick 1  *)
(* of three, so that it can check in before, at and after it, or at the    *)
(* last tick, so that it can scan three times within its shift.            *)
(***************************************************************************)
EXTENDS Attendance

CONSTANT LateShift
MCShiftEnd == [m \in Members |-> IF m \in LateShift THEN LastTick ELSE 1]

(* The staff requests that accountants make; admins make the others. *)
CONSTANT Accountants
MCRoleOf == [s \in Staff |-> IF s \in Accountants THEN "ORG_ACCOUNTANT" ELSE "ORG_ADMIN"]

(* The forms name a time of the first day and one of the second. *)
MCFormTimes ==
  {t \in {[day |-> 0, tick |-> 1], [day |-> 1, tick |-> 0]} : t.day <= MaxDay}
=============================================================================
