------------------------------ MODULE MCLeave ------------------------------
(***************************************************************************)
(* Small instances of Leave for TLC: BS year 2 begins on day 3. One form   *)
(* asks for unpaid leave of days 1 and 2, the other, overlapping it, for   *)
(* casual leave of days 2 and 3, drawn on the balance of year 1. With an   *)
(* entitlement of 3 days and a cap of 4, a carry-over is cut at 1 day.     *)
(***************************************************************************)
EXTENDS Leave, TLC

MCForms == {[start |-> 1, end |-> 2, type |-> "UNPAID"],
            [start |-> 2, end |-> 3, type |-> "CASUAL"]}

(* Two casual leaves side by side. *)
MCApart == {[start |-> 1, end |-> 1, type |-> "CASUAL"],
            [start |-> 2, end |-> 3, type |-> "CASUAL"]}

MCEntitlement == [y \in Tracked |-> 3]
MCCap == [y \in Tracked |-> 4]
MCAdjustments == {[field |-> "used", value |-> 5]}

Symmetry == Permutations(LeaveIds) \cup Permutations(Tasks)
=============================================================================
