------------------------------ MODULE Payroll ------------------------------
(***************************************************************************)
(* The payslips of one organisation: their calculation from attendance,    *)
(* leave and pay settings, their workflow DRAFT - PROCESSED - APPROVED -   *)
(* PAID, and the flag that attendance corrections raise on them.           *)
(*                                                                         *)
(* The figures of a payslip are a function of everything they are computed *)
(* from, which is abstracted to a version number that every change bumps.  *)
(* Calculation and storage are separate statements; updateStatus and       *)
(* bulkUpdateStatus are serializable transactions, so one step each.       *)
(***************************************************************************)
EXTENDS Integers, FiniteSets

CONSTANTS
  Members,      \* the employees with pay settings
  Months,       \* the BS months explored
  Requests,     \* the concurrent generations and regenerations
  RoleOf,       \* the role each of them is made under
  Calls,        \* the concurrent flag calls of attendance corrections
  MaxVersion,   \* bound: how often the inputs of a payslip change
  Net           \* net salary by version; 0 is a month without attendance

Roles == {"ORG_ADMIN", "ORG_ACCOUNTANT"}
Versions == 0..MaxVersion

ASSUME PayrollAssumption ==
  /\ MaxVersion \in Nat
  /\ RoleOf \in [Requests -> Roles]
  /\ Net \in [Versions -> Nat]

Statuses == {"DRAFT", "PROCESSED", "APPROVED", "PAID", "NEEDS_RECALCULATION"}

Keys == Members \X Months
KeysOf(month) == {k \in Keys : k[2] = month}

(* previousNetSalary of a row whose regeneratedFromPaid is false. *)
NoNet == -1
Nets == {Net[v] : v \in Versions} \cup {NoNet}

NoSlip == [status |-> "none"]
Slip == [status : Statuses, version : Versions, previousNet : Nets]

Idle == [op |-> "idle"]
Work ==
  {Idle}
  \cup [op : {"generate"}, month : Months, reason : BOOLEAN, todo : SUBSET Members]
  \cup [op : {"store"}, month : Months, reason : BOOLEAN, todo : SUBSET Members,
        key : Keys, version : Versions]
  \cup [op : {"upsert"}, month : Months, reason : BOOLEAN, todo : SUBSET Members,
        key : Keys, version : Versions, paidNet : Nets]
  \cup [op : {"regenerate"}, key : Keys]
  \cup [op : {"overwrite"}, key : Keys, version : Versions]

NoCall == [op |-> "idle"]
CallStates == {NoCall} \cup [op : {"flag", "mark"}, key : Keys]

VARIABLES
  inputs,    \* key -> version of what the figures are computed from
  slips,     \* key -> payroll_records row, or NoSlip
  work,      \* request -> what it is in the middle of
  call,      \* flag call -> what it is in the middle of
  approval,  \* history: key -> who approved the stored figures, or "nobody"
  everPaid,  \* history: keys that have been PAID
  corrected, \* history: key -> version of the correction its figures lack, or 0
  slipped    \* history: keys whose correction may stay unflagged, see FlagNotLost

flagVars == <<corrected, slipped>>
vars == <<inputs, slips, work, call, approval, everPaid, flagVars>>

TypeOK ==
  /\ inputs \in [Keys -> Versions]
  /\ slips \in [Keys -> Slip \cup {NoSlip}]
  /\ work \in [Requests -> Work]
  /\ call \in [Calls -> CallStates]
  /\ approval \in [Keys -> Roles \cup {"nobody"}]
  /\ everPaid \subseteq Keys
  /\ corrected \in [Keys -> Versions]
  /\ slipped \subseteq Keys

Init ==
  /\ inputs = [k \in Keys |-> 0]
  /\ slips = [k \in Keys |-> NoSlip]
  /\ work = [q \in Requests |-> Idle]
  /\ call = [c \in Calls |-> NoCall]
  /\ approval = [k \in Keys |-> "nobody"]
  /\ everPaid = {}
  /\ corrected = [k \in Keys |-> 0]
  /\ slipped = {}

-----------------------------------------------------------------------------
(* Changes of what the figures are computed from.                          *)

Exists(k) == slips[k] # NoSlip
Status(k) == slips[k].status
Lacking(K) == {k \in K : corrected[k] # 0}

Changed(k) ==
  /\ inputs[k] < MaxVersion
  /\ inputs' = [inputs EXCEPT ![k] = @ + 1]

(* editAttendance and markPresent: a change, and a call to flag the month. *)
Correct(c, k) ==
  /\ call[c] = NoCall
  /\ Changed(k)
  /\ call' = [call EXCEPT ![c] = [op |-> "flag", key |-> k]]
  /\ corrected' = [corrected EXCEPT ![k] = inputs'[k]]
  /\ slipped' = IF Status(k) = "DRAFT" THEN slipped \cup {k} ELSE slipped \ {k}
  /\ UNCHANGED <<slips, work, approval, everPaid>>

(* Pay settings (and manual clock actions, the auto-close and leave        *)
(* decisions) change the figures and flag nothing.                         *)
PaySettings(k) ==
  /\ Changed(k)
  /\ UNCHANGED <<slips, work, call, approval, everPaid, flagVars>>

-----------------------------------------------------------------------------
(* flagPayrollNeedsRecalculation: a read, then an update by id.            *)

Unflagged == {"none", "DRAFT", "NEEDS_RECALCULATION"}

(* Mutant of FlagRead: a payslip that is only processed is not flagged.    *)
FlagReadLenient(c) ==
  /\ call[c].op = "flag"
  /\ call' = [call EXCEPT ![c] =
                IF Status(@.key) \in Unflagged \cup {"PROCESSED"} THEN NoCall
                ELSE [op |-> "mark", key |-> @.key]]
  /\ UNCHANGED <<inputs, slips, work, approval, everPaid, flagVars>>

FlagRead(c) ==
  /\ call[c].op = "flag"
  /\ call' = [call EXCEPT ![c] =
                IF Status(@.key) \in Unflagged THEN NoCall
                ELSE [op |-> "mark", key |-> @.key]]
  /\ UNCHANGED <<inputs, slips, work, approval, everPaid, flagVars>>

FlagWrite(c) ==
  /\ call[c].op = "mark"
  /\ slips' = [slips EXCEPT ![call[c].key].status = "NEEDS_RECALCULATION"]
  /\ call' = [call EXCEPT ![c] = NoCall]
  /\ UNCHANGED <<inputs, work, approval, everPaid, flagVars>>

(* The caller of a flag call that throws only logs it. *)
FlagFail(c) ==
  /\ call[c] # NoCall
  /\ call' = [call EXCEPT ![c] = NoCall]
  /\ slipped' = slipped \cup Lacking({call[c].key})
  /\ UNCHANGED <<inputs, slips, work, approval, everPaid, corrected>>

-----------------------------------------------------------------------------
(* generatePayroll: for each employee a calculation, then a transaction    *)
(* that reads the row and upserts it.                                      *)

Begin(q, todo) ==
  /\ work' = [work EXCEPT ![q] = todo]
  /\ UNCHANGED <<inputs, slips, call, approval, everPaid, flagVars>>

Generate(q, month, reason) ==
  /\ work[q] = Idle
  /\ Begin(q, [op |-> "generate", month |-> month, reason |-> reason, todo |-> Members])

(* What is left of a generation once it is done with member m. *)
Rest(w, m) ==
  LET left == w.todo \ {m}
  IN  IF left = {} THEN Idle
      ELSE [op |-> "generate", month |-> w.month, reason |-> w.reason, todo |-> left]

(* A month without attendance is skipped, whatever payslip there is. *)
GenerateCalculate(q) ==
  /\ work[q].op = "generate"
  /\ \E m \in work[q].todo :
       LET w == work[q]
           k == <<m, w.month>>
       IN  Begin(q, IF Net[inputs[k]] = 0 THEN Rest(w, m)
                    ELSE [op |-> "store", month |-> w.month, reason |-> w.reason,
                          todo |-> w.todo, key |-> k, version |-> inputs[k]])

MayOverridePaid(q) == RoleOf[q] = "ORG_ADMIN" /\ work[q].reason

(* The guard throws out of the loop: the employees left keep their rows. *)
GenerateCheck(q) ==
  LET w == work[q]
  IN  /\ w.op = "store"
      /\ Begin(q, IF Status(w.key) = "PAID" /\ ~MayOverridePaid(q) THEN Idle
                  ELSE [op |-> "upsert", month |-> w.month, reason |-> w.reason,
                        todo |-> w.todo, key |-> w.key, version |-> w.version,
                        paidNet |-> IF Status(w.key) = "PAID"
                                    THEN Net[slips[w.key].version] ELSE NoNet])

(* regeneratedFromPaid is set when a paid net salary changed, cleared when *)
(* it did not, left alone when the row read was not paid.                  *)
PreviousNet(k, paidNet, version) ==
  IF paidNet = NoNet THEN (IF Exists(k) THEN slips[k].previousNet ELSE NoNet)
  ELSE IF paidNet # Net[version] THEN paidNet ELSE NoNet

(* Figures calculated before a correction may be stored after it.          *)
Overtaking(k, version) ==
  IF version < corrected[k] THEN slipped' = slipped \cup {k} /\ UNCHANGED corrected
  ELSE slipped' = slipped \ {k} /\ corrected' = [corrected EXCEPT ![k] = 0]

(* Mutant of Stored: the upsert keeps the status of an existing row. *)
StoredKeepingStatus(k, version, previousNet) ==
  /\ slips' = [slips EXCEPT ![k] =
       [status |-> IF Exists(k) THEN Status(k) ELSE "DRAFT",
        version |-> version, previousNet |-> previousNet]]
  /\ approval' = [approval EXCEPT ![k] = "nobody"]
  /\ Overtaking(k, version)
  /\ UNCHANGED <<inputs, call, everPaid>>

Stored(k, version, previousNet) ==
  /\ slips' = [slips EXCEPT ![k] =
       [status |-> "DRAFT", version |-> version, previousNet |-> previousNet]]
  /\ approval' = [approval EXCEPT ![k] = "nobody"]
  /\ Overtaking(k, version)
  /\ UNCHANGED <<inputs, call, everPaid>>

GenerateUpsert(q) ==
  LET w == work[q]
  IN  /\ w.op = "upsert"
      /\ Stored(w.key, w.version, PreviousNet(w.key, w.paidNet, w.version))
      /\ work' = [work EXCEPT ![q] = Rest(w, w.key[1])]

(* A statement of a generation or a regeneration threw. *)
Abort(q) ==
  /\ work[q] # Idle
  /\ Begin(q, Idle)

-----------------------------------------------------------------------------
(* regenerateForEmployee: the status is read first, outside of any         *)
(* transaction, and the upsert does not look at it again.                  *)

RegenerateCheck(q, k) ==
  /\ work[q] = Idle
  /\ RoleOf[q] = "ORG_ADMIN"
  /\ Status(k) \notin {"APPROVED", "PAID"}
  /\ Begin(q, [op |-> "regenerate", key |-> k])

RegenerateCalculate(q) ==
  /\ work[q].op = "regenerate"
  /\ Begin(q, [op |-> "overwrite", key |-> work[q].key, version |-> inputs[work[q].key]])

RegenerateUpsert(q) ==
  LET w == work[q]
  IN  /\ w.op = "overwrite"
      /\ Stored(w.key, w.version, PreviousNet(w.key, NoNet, w.version))
      /\ work' = [work EXCEPT ![q] = Idle]

-----------------------------------------------------------------------------
(* Status changes, each one step made under a role.                        *)

Transitions(role) ==
  {<<"DRAFT", "PROCESSED">>, <<"APPROVED", "PAID">>}
  \cup IF role = "ORG_ADMIN"
       THEN {<<"PROCESSED", "APPROVED">>, <<"APPROVED", "PROCESSED">>} ELSE {}

(* The history of a move of the keys K to a status. *)
Moved(role, K, status) ==
  /\ slips' = [k \in Keys |-> IF k \in K THEN [slips[k] EXCEPT !.status = status] ELSE slips[k]]
  /\ approval' = [k \in Keys |-> IF k \in K /\ status = "APPROVED" THEN role ELSE approval[k]]
  /\ everPaid' = IF status = "PAID" THEN everPaid \cup K ELSE everPaid
  /\ UNCHANGED <<inputs, work, call>>

UpdateStatus(role, k, status) ==
  /\ Exists(k)
  /\ Status(k) \notin {"NEEDS_RECALCULATION", "PAID"}
  /\ <<Status(k), status>> \in Transitions(role)
  /\ Moved(role, {k}, status)
  /\ UNCHANGED flagVars

BulkStatuses(role) ==
  {"PROCESSED", "PAID"} \cup IF role = "ORG_ADMIN" THEN {"APPROVED"} ELSE {}

(* Mutants of BulkFrom: processed payslips may be paid; flagged ones may   *)
(* be approved.                                                            *)
BulkFromUnapproved(status) ==
  CASE status = "PROCESSED" -> {"DRAFT", "NEEDS_RECALCULATION"}
    [] status = "APPROVED"  -> {"PROCESSED"}
    [] status = "PAID"      -> {"PROCESSED", "APPROVED"}
BulkFromFlagged(status) ==
  CASE status = "PROCESSED" -> {"DRAFT", "NEEDS_RECALCULATION"}
    [] status = "APPROVED"  -> {"PROCESSED", "NEEDS_RECALCULATION"}
    [] status = "PAID"      -> {"APPROVED"}

BulkFrom(status) ==
  CASE status = "PROCESSED" -> {"DRAFT", "NEEDS_RECALCULATION"}
    [] status = "APPROVED"  -> {"PROCESSED"}
    [] status = "PAID"      -> {"APPROVED"}

(* All payslips of the month move, or none. *)
BulkUpdateStatus(role, month, status) ==
  LET K == {k \in KeysOf(month) : Exists(k)}
  IN  /\ K # {}
      /\ status \in BulkStatuses(role)
      /\ \A k \in K : Status(k) \in BulkFrom(status)
      /\ Moved(role, K, status)
      /\ slipped' = slipped \cup Lacking({k \in K : Status(k) = "NEEDS_RECALCULATION"})
      /\ UNCHANGED corrected

-----------------------------------------------------------------------------

CallStep(c) ==
  \/ \E k \in Keys : Correct(c, k)
  \/ FlagRead(c)
  \/ FlagWrite(c)
  \/ FlagFail(c)

RequestStep(q) ==
  \/ \E month \in Months, reason \in BOOLEAN : Generate(q, month, reason)
  \/ GenerateCalculate(q)
  \/ GenerateCheck(q)
  \/ GenerateUpsert(q)
  \/ Abort(q)
  \/ \E k \in Keys : RegenerateCheck(q, k)
  \/ RegenerateCalculate(q)
  \/ RegenerateUpsert(q)

StatusStep(role) ==
  \/ \E k \in Keys, status \in Statuses : UpdateStatus(role, k, status)
  \/ \E month \in Months, status \in Statuses : BulkUpdateStatus(role, month, status)

Next ==
  \/ \E c \in Calls : CallStep(c)
  \/ \E k \in Keys : PaySettings(k)
  \/ \E q \in Requests : RequestStep(q)
  \/ \E role \in Roles : StatusStep(role)

Spec == Init /\ [][Next]_vars

-----------------------------------------------------------------------------
(* An approved or paid payslip shows figures an admin approved: however    *)
(* generations, flags and status changes interleave, no figures get to     *)
(* PAID without an approval given since they were stored.                  *)
PaidAsApproved ==
  \A k \in Keys : Status(k) \in {"APPROVED", "PAID"} => approval[k] = "ORG_ADMIN"

(* A correction is not lost: until a payslip has figures calculated after  *)
(* the last correction, it is flagged, or a call that will flag it is      *)
(* under way. Excepted is what the code lets slip: a correction of a draft *)
(* (which the flag call leaves alone), figures calculated before the       *)
(* correction and stored after it, a flag call that threw, and a flagged   *)
(* payslip processed in bulk.                                              *)
FlagNotLost ==
  \A k \in Keys \ slipped :
    Exists(k) /\ corrected[k] # 0 =>
      \/ Status(k) = "NEEDS_RECALCULATION"
      \/ \E c \in Calls : call[c] # NoCall /\ call[c].key = k

-----------------------------------------------------------------------------
(* What a message of the code says, and the code does not do.              *)

(* "Accountants cannot regenerate a payroll month that has already been    *)
(* paid."                                                                  *)
OncePaidNotByAccountant ==
  [][\A q \in Requests :
       (GenerateCheck(q) /\ work[q].key \in everPaid /\ work'[q].op = "upsert")
         => RoleOf[q] = "ORG_ADMIN"]_vars
=============================================================================
