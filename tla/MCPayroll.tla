----------------------------- MODULE MCPayroll -----------------------------
(***************************************************************************)
(* Small instances of Payroll for TLC. Version 0 has attendance, version 1 *)
(* changes the net salary, version 2 is a month without attendance.        *)
(***************************************************************************)
EXTENDS Payroll

CONSTANTS
  Accountants,
  Others,      \* the employees beside the one everything can happen to
  Second       \* the requests and calls beside the first

MCRoleOf == [q \in Requests |-> IF q \in Accountants THEN "ORG_ACCOUNTANT" ELSE "ORG_ADMIN"]

MCNet == [v \in Versions |-> CASE v = 0 -> 10 [] v = 1 -> 20 [] OTHER -> 0]

(* The others have payslips in a month with one request and one call in    *)
(* progress, and attendance as long as they have; with two of each, they   *)
(* have no attendance, are skipped, and nothing of theirs is corrected.    *)
Skipped ==
  \A k \in Keys : k[1] \in Others => /\ slips[k] = NoSlip /\ Net[inputs[k]] = 0
                                     /\ corrected[k] = 0
Quiet ==
  /\ \A q \in Requests \cap Second : work[q] = Idle
  /\ \A c \in Calls \cap Second : call[c] = NoCall
  /\ \A k \in Keys : k[1] \in Others /\ Exists(k) => Net[inputs[k]] # 0
FlowSpec == Init /\ [][Next /\ (Skipped \/ Quiet)']_vars
=============================================================================
