--------------------------- MODULE PayrollProofs ---------------------------
(***************************************************************************)
(* The workflow of payslips proved for every number of employees, months,  *)
(* requests, flag calls and versions.                                      *)
(***************************************************************************)
EXTENDS Payroll, TLAPS

(* A flag call about to write has seen a payslip, and rows are never       *)
(* deleted.                                                                *)
MarkedExists == \A c \in Calls : call[c].op = "mark" => Exists(call[c].key)

TypeInv == TypeOK /\ MarkedExists

(* A payslip that lacks a correction is past DRAFT, what slipped excepted; *)
(* without this a flag call could end on a draft and leave FlagNotLost to  *)
(* nobody.                                                                 *)
Owed(k) == k \in Keys \ slipped /\ Exists(k) /\ corrected[k] # 0
OwedPastDraft == \A k \in Keys : Owed(k) => Status(k) # "DRAFT"

FlagInv == OwedPastDraft /\ FlagNotLost

-----------------------------------------------------------------------------
(* A row with a status of the workflow is a payslip.                       *)
LEMMA RowExists ==
  ASSUME TypeOK, NEW k \in Keys
  PROVE  /\ Exists(k) <=> Status(k) # "none"
         /\ Exists(k) => slips[k] \in Slip
         /\ Status(k) \in Statuses \cup {"none"}
  BY DEF TypeOK, Exists, Status, NoSlip, Slip, Statuses

(* Storing figures keeps the types, whatever the row was.                  *)
LEMMA StoredTypes ==
  ASSUME TypeInv, NEW k \in Keys, NEW v \in Versions, NEW p \in Nets,
         Stored(k, v, p)
  PROVE  /\ slips' \in [Keys -> Slip \cup {NoSlip}]
         /\ approval' \in [Keys -> Roles \cup {"nobody"}]
         /\ corrected' \in [Keys -> Versions] /\ slipped' \subseteq Keys
         /\ \A i \in Keys : Exists(i) => Exists(i)'
<1>1. [status |-> "DRAFT", version |-> v, previousNet |-> p] \in Slip
  BY DEF Slip, Statuses
<1>2. [status |-> "DRAFT", version |-> v, previousNet |-> p] # NoSlip
  BY <1>1 DEF Slip, NoSlip, Statuses
<1>3. 0 \in Versions
  BY PayrollAssumption DEF Versions
<1>4. corrected' \in [Keys -> Versions] /\ slipped' \subseteq Keys
  BY <1>3 DEF TypeInv, TypeOK, Stored, Overtaking
<1> QED  BY <1>1, <1>2, <1>4 DEF TypeInv, TypeOK, Stored, Exists

(* The recorded net salary of a paid payslip is one of the net salaries.   *)
LEMMA PreviousNetType ==
  ASSUME TypeOK, NEW k \in Keys, NEW n \in Nets, NEW v \in Versions
  PROVE  PreviousNet(k, n, v) \in Nets
<1>1. Exists(k) => slips[k].previousNet \in Nets
  BY RowExists DEF Slip
<1>2. NoNet \in Nets
  BY DEF Nets
<1> QED  BY <1>1, <1>2 DEF PreviousNet

(* What a generation goes on with after an employee.                       *)
LEMMA RestType ==
  ASSUME NEW w, NEW m, w.month \in Months, w.reason \in BOOLEAN, w.todo \in SUBSET Members
  PROVE  Rest(w, m) \in Work
  BY DEF Rest, Work

(* The fields of a request, by what it is in the middle of.                *)
LEMMA WorkFields ==
  ASSUME NEW w \in Work
  PROVE  /\ w.op \in {"generate", "store", "upsert"} =>
              w.month \in Months /\ w.reason \in BOOLEAN /\ w.todo \in SUBSET Members
         /\ w.op \in {"store", "upsert", "overwrite"} => w.key \in Keys /\ w.version \in Versions
         /\ w.op = "regenerate" => w.key \in Keys
         /\ w.op = "upsert" => w.paidNet \in Nets
  BY DEF Work, Idle

(* The fields of a flag call.                                              *)
LEMMA CallFields ==
  ASSUME NEW x \in CallStates, x # NoCall
  PROVE  x.key \in Keys /\ x.op \in {"flag", "mark"}
  BY DEF CallStates

(* A move of payslips that exist keeps the types.                          *)
LEMMA MovedTypes ==
  ASSUME TypeInv, NEW role \in Roles, NEW K \in SUBSET Keys, NEW s \in Statuses,
         \A k \in K : Exists(k), Moved(role, K, s)
  PROVE  /\ slips' \in [Keys -> Slip \cup {NoSlip}]
         /\ approval' \in [Keys -> Roles \cup {"nobody"}]
         /\ everPaid' \subseteq Keys
         /\ \A k \in Keys : Exists(k) => Exists(k)'
<1>1. \A k \in K : [slips[k] EXCEPT !.status = s] \in Slip
  BY RowExists DEF TypeInv, Slip
<1>2. NoSlip \notin Slip
  BY DEF NoSlip, Slip, Statuses
<1>3. slips' \in [Keys -> Slip \cup {NoSlip}]
  BY <1>1 DEF TypeInv, TypeOK, Moved
<1>4. \A k \in Keys : Exists(k) => Exists(k)'
  BY <1>1, <1>2 DEF Moved, Exists
<1> QED  BY <1>3, <1>4 DEF TypeInv, TypeOK, Moved

-----------------------------------------------------------------------------
(* A request's step that only moves on in its work.                        *)
LEMMA BeginTypes ==
  ASSUME TypeInv, NEW q \in Requests, NEW w \in Work, Begin(q, w)
  PROVE  TypeInv'
  BY DEF TypeInv, TypeOK, MarkedExists, Exists, Begin, flagVars

LEMMA TypeInvCall ==
  ASSUME TypeInv, NEW c \in Calls, CallStep(c)
  PROVE  TypeInv'
<1>1. ASSUME NEW k \in Keys, Correct(c, k) PROVE TypeInv'
  <2>1. inputs' \in [Keys -> Versions]
    BY <1>1, PayrollAssumption DEF TypeInv, TypeOK, Correct, Changed, Versions
  <2>2. [op |-> "flag", key |-> k] \in CallStates
    BY DEF CallStates
  <2>3. MarkedExists'
    BY <1>1 DEF TypeInv, TypeOK, MarkedExists, Correct, Exists
  <2>4. corrected' \in [Keys -> Versions]
    BY <1>1, <2>1 DEF TypeInv, TypeOK, Correct
  <2>5. slipped' \subseteq Keys
    BY <1>1 DEF TypeInv, TypeOK, Correct
  <2> QED  BY <1>1, <2>1, <2>2, <2>3, <2>4, <2>5 DEF TypeInv, TypeOK, Correct
<1>2. CASE FlagRead(c)
  <2>1. call[c] \in CallStates /\ call[c] # NoCall
    BY <1>2 DEF TypeInv, TypeOK, FlagRead, NoCall
  <2>2. [op |-> "mark", key |-> call[c].key] \in CallStates
    BY <2>1, CallFields DEF CallStates
  <2>3. NoCall \in CallStates
    BY DEF CallStates
  <2>4. Status(call[c].key) \notin Unflagged => Exists(call[c].key)
    BY <2>1, CallFields, RowExists DEF TypeInv, Unflagged
  <2>5. MarkedExists'
    BY <1>2, <2>4 DEF TypeInv, TypeOK, MarkedExists, FlagRead, Exists, NoCall
  <2> QED  BY <1>2, <2>2, <2>3, <2>5 DEF TypeInv, TypeOK, FlagRead, flagVars
<1>3. CASE FlagWrite(c)
  <2>1. call[c] \in CallStates /\ call[c] # NoCall
    BY <1>3 DEF TypeInv, TypeOK, FlagWrite, NoCall
  <2> DEFINE k == call[c].key
  <2>2. k \in Keys /\ slips[k] \in Slip
    BY <1>3, <2>1, CallFields, RowExists DEF TypeInv, MarkedExists, FlagWrite
  <2>3. [slips[k] EXCEPT !.status = "NEEDS_RECALCULATION"] \in Slip
    BY <2>2 DEF Slip, Statuses
  <2>4. slips' \in [Keys -> Slip \cup {NoSlip}]
    BY <1>3, <2>2, <2>3 DEF TypeInv, TypeOK, FlagWrite
  <2>5. \A i \in Keys : Exists(i) => Exists(i)'
    BY <1>3, <2>2, <2>3 DEF TypeInv, TypeOK, FlagWrite, Exists, NoSlip, Slip
  <2>6. NoCall \in CallStates
    BY DEF CallStates
  <2>7. MarkedExists'
    BY <1>3, <2>1, <2>5, CallFields DEF TypeInv, TypeOK, MarkedExists, FlagWrite, NoCall
  <2> QED  BY <1>3, <2>4, <2>6, <2>7 DEF TypeInv, TypeOK, FlagWrite, flagVars
<1>4. CASE FlagFail(c)
  <2>1. NoCall \in CallStates
    BY DEF CallStates
  <2>2. MarkedExists'
    BY <1>4 DEF TypeInv, TypeOK, MarkedExists, FlagFail, Exists, NoCall
  <2>3. slipped' \subseteq Keys
    BY <1>4, CallFields DEF TypeInv, TypeOK, FlagFail, Lacking
  <2> QED  BY <1>4, <2>1, <2>2, <2>3 DEF TypeInv, TypeOK, FlagFail
<1> QED  BY <1>1, <1>2, <1>3, <1>4 DEF CallStep

LEMMA TypeInvRequest ==
  ASSUME TypeInv, NEW q \in Requests, RequestStep(q)
  PROVE  TypeInv'
<1> DEFINE w == work[q]
<1>w. w \in Work /\ Idle \in Work
  BY DEF TypeInv, TypeOK, Work
<1>1. ASSUME NEW month \in Months, NEW reason \in BOOLEAN, Generate(q, month, reason)
      PROVE  TypeInv'
  <2>1. [op |-> "generate", month |-> month, reason |-> reason, todo |-> Members] \in Work
    BY DEF Work
  <2> QED  BY <1>1, <2>1, BeginTypes DEF Generate
<1>2. CASE GenerateCalculate(q)
  <2>1. w.month \in Months /\ w.reason \in BOOLEAN /\ w.todo \in SUBSET Members
    BY <1>2, <1>w, WorkFields DEF GenerateCalculate
  <2>2. PICK m \in w.todo :
          Begin(q, IF Net[inputs[<<m, w.month>>]] = 0 THEN Rest(w, m)
                   ELSE [op |-> "store", month |-> w.month, reason |-> w.reason,
                         todo |-> w.todo, key |-> <<m, w.month>>,
                         version |-> inputs[<<m, w.month>>]])
    BY <1>2 DEF GenerateCalculate
  <2>3. <<m, w.month>> \in Keys /\ inputs[<<m, w.month>>] \in Versions
    BY <2>1, <2>2 DEF TypeInv, TypeOK, Keys
  <2>4. [op |-> "store", month |-> w.month, reason |-> w.reason, todo |-> w.todo,
         key |-> <<m, w.month>>, version |-> inputs[<<m, w.month>>]] \in Work
    BY <2>1, <2>3 DEF Work
  <2>5. Rest(w, m) \in Work
    BY <2>1, RestType
  <2> QED  BY <2>2, <2>4, <2>5, BeginTypes
<1>3. CASE GenerateCheck(q)
  <2>1. /\ w.month \in Months /\ w.reason \in BOOLEAN /\ w.todo \in SUBSET Members
        /\ w.key \in Keys /\ w.version \in Versions
    BY <1>3, <1>w, WorkFields DEF GenerateCheck
  <2> DEFINE n == IF Status(w.key) = "PAID" THEN Net[slips[w.key].version] ELSE NoNet
             u == [op |-> "upsert", month |-> w.month, reason |-> w.reason,
                   todo |-> w.todo, key |-> w.key, version |-> w.version, paidNet |-> n]
  <2>2. Status(w.key) = "PAID" => slips[w.key].version \in Versions
    BY <2>1, RowExists DEF TypeInv, Slip
  <2>3. n \in Nets
    BY <2>2, PayrollAssumption DEF Nets
  <2>4. u \in Work
    <3> HIDE DEF n
    <3> QED  BY <2>1, <2>3 DEF Work
  <2>5. Begin(q, IF Status(w.key) = "PAID" /\ ~MayOverridePaid(q) THEN Idle ELSE u)
    BY <1>3 DEF GenerateCheck
  <2> HIDE DEF u
  <2> QED  BY <2>4, <2>5, <1>w, BeginTypes
<1>4. CASE GenerateUpsert(q)
  <2>1. /\ w.month \in Months /\ w.reason \in BOOLEAN /\ w.todo \in SUBSET Members
        /\ w.key \in Keys /\ w.version \in Versions /\ w.paidNet \in Nets
    BY <1>4, <1>w, WorkFields DEF GenerateUpsert
  <2>2. PreviousNet(w.key, w.paidNet, w.version) \in Nets
    BY <2>1, PreviousNetType DEF TypeInv
  <2>3. Stored(w.key, w.version, PreviousNet(w.key, w.paidNet, w.version))
    BY <1>4 DEF GenerateUpsert
  <2>4. Rest(w, w.key[1]) \in Work
    BY <2>1, RestType
  <2>5. /\ slips' \in [Keys -> Slip \cup {NoSlip}]
        /\ approval' \in [Keys -> Roles \cup {"nobody"}]
        /\ corrected' \in [Keys -> Versions] /\ slipped' \subseteq Keys
        /\ \A i \in Keys : Exists(i) => Exists(i)'
    BY <2>1, <2>2, <2>3, StoredTypes
  <2>6. MarkedExists'
    BY <2>3, <2>5, CallFields DEF TypeInv, TypeOK, MarkedExists, Stored, NoCall
  <2> QED  BY <1>4, <2>3, <2>4, <2>5, <2>6 DEF TypeInv, TypeOK, GenerateUpsert, Stored
<1>5. CASE Abort(q)
  BY <1>5, <1>w, BeginTypes DEF Abort
<1>6. ASSUME NEW k \in Keys, RegenerateCheck(q, k) PROVE TypeInv'
  <2>1. [op |-> "regenerate", key |-> k] \in Work
    BY DEF Work
  <2> QED  BY <1>6, <2>1, BeginTypes DEF RegenerateCheck
<1>7. CASE RegenerateCalculate(q)
  <2>1. w.key \in Keys /\ inputs[w.key] \in Versions
    BY <1>7, <1>w, WorkFields DEF RegenerateCalculate, TypeInv, TypeOK
  <2>2. [op |-> "overwrite", key |-> w.key, version |-> inputs[w.key]] \in Work
    BY <2>1 DEF Work
  <2> QED  BY <1>7, <2>2, BeginTypes DEF RegenerateCalculate
<1>8. CASE RegenerateUpsert(q)
  <2>1. w.key \in Keys /\ w.version \in Versions
    BY <1>8, <1>w, WorkFields DEF RegenerateUpsert
  <2>2. PreviousNet(w.key, NoNet, w.version) \in Nets
    <3>1. NoNet \in Nets
      BY DEF Nets
    <3> QED  BY <2>1, <3>1, PreviousNetType DEF TypeInv
  <2>3. Stored(w.key, w.version, PreviousNet(w.key, NoNet, w.version))
    BY <1>8 DEF RegenerateUpsert
  <2>4. /\ slips' \in [Keys -> Slip \cup {NoSlip}]
        /\ approval' \in [Keys -> Roles \cup {"nobody"}]
        /\ corrected' \in [Keys -> Versions] /\ slipped' \subseteq Keys
        /\ \A i \in Keys : Exists(i) => Exists(i)'
    BY <2>1, <2>2, <2>3, StoredTypes
  <2>5. MarkedExists'
    BY <2>3, <2>4, CallFields DEF TypeInv, TypeOK, MarkedExists, Stored, NoCall
  <2> QED  BY <1>8, <1>w, <2>3, <2>4, <2>5 DEF TypeInv, TypeOK, RegenerateUpsert, Stored
<1> QED  BY <1>1, <1>2, <1>3, <1>4, <1>5, <1>6, <1>7, <1>8 DEF RequestStep

-----------------------------------------------------------------------------
(* The moves of the workflow, and what every one of them gives: the        *)
(* payslips moved exist and the statuses are those of the workflow.        *)
LEMMA UpdateStatusMoves ==
  ASSUME TypeInv, NEW role \in Roles, NEW k \in Keys, NEW s \in Statuses,
         UpdateStatus(role, k, s)
  PROVE  Moved(role, {k}, s) /\ \A i \in {k} : Exists(i)
  BY DEF UpdateStatus

LEMMA TypeInvStatus ==
  ASSUME TypeInv, NEW role \in Roles, StatusStep(role)
  PROVE  TypeInv'
<1>1. ASSUME NEW K \in SUBSET Keys, NEW s \in Statuses, \A k \in K : Exists(k),
             Moved(role, K, s), corrected' = corrected, slipped' \subseteq Keys
      PROVE  TypeInv'
  <2>1. /\ slips' \in [Keys -> Slip \cup {NoSlip}]
        /\ approval' \in [Keys -> Roles \cup {"nobody"}]
        /\ everPaid' \subseteq Keys
        /\ \A k \in Keys : Exists(k) => Exists(k)'
    BY <1>1, MovedTypes
  <2>2. MarkedExists'
    BY <1>1, <2>1, CallFields DEF TypeInv, TypeOK, MarkedExists, Moved, NoCall
  <2> QED  BY <1>1, <2>1, <2>2 DEF TypeInv, TypeOK, Moved
<1>2. ASSUME NEW k \in Keys, NEW s \in Statuses, UpdateStatus(role, k, s)
      PROVE  TypeInv'
  <2>1. Moved(role, {k}, s) /\ \A i \in {k} : Exists(i)
    BY <1>2, UpdateStatusMoves
  <2>2. corrected' = corrected /\ slipped' \subseteq Keys /\ {k} \in SUBSET Keys
    BY <1>2 DEF UpdateStatus, flagVars, TypeInv, TypeOK
  <2> QED  BY <1>1, <2>1, <2>2
<1>3. ASSUME NEW month \in Months, NEW s \in Statuses, BulkUpdateStatus(role, month, s)
      PROVE  TypeInv'
  <2> DEFINE K == {k \in KeysOf(month) : Exists(k)}
  <2>1. K \in SUBSET Keys /\ \A k \in K : Exists(k)
    BY DEF KeysOf
  <2>2. Moved(role, K, s) /\ corrected' = corrected
    BY <1>3 DEF BulkUpdateStatus, flagVars
  <2>3. slipped' \subseteq Keys
    BY <1>3, <2>1 DEF BulkUpdateStatus, Lacking, TypeInv, TypeOK
  <2> HIDE DEF K
  <2> QED  BY <1>1, <2>1, <2>2, <2>3
<1> QED  BY <1>2, <1>3 DEF StatusStep

LEMMA TypeInvInit == Init => TypeInv
<1> SUFFICES ASSUME Init PROVE TypeInv
  OBVIOUS
<1>1. 0 \in Versions
  BY PayrollAssumption DEF Versions
<1>2. Idle \in Work /\ NoCall \in CallStates
  BY DEF Work, CallStates
<1>3. MarkedExists
  BY DEF Init, MarkedExists, NoCall
<1> QED  BY <1>1, <1>2, <1>3 DEF Init, TypeInv, TypeOK

LEMMA TypeInvStep ==
  ASSUME TypeInv, [Next]_vars
  PROVE  TypeInv'
<1>1. ASSUME NEW k \in Keys, PaySettings(k) PROVE TypeInv'
  <2>1. inputs' \in [Keys -> Versions]
    BY <1>1, PayrollAssumption DEF TypeInv, TypeOK, PaySettings, Changed, Versions
  <2> QED  BY <1>1, <2>1 DEF TypeInv, TypeOK, MarkedExists, PaySettings, Exists, flagVars
<1>2. CASE UNCHANGED vars
  BY <1>2 DEF vars, flagVars, TypeInv, TypeOK, MarkedExists, Exists
<1> QED  BY <1>1, <1>2, TypeInvCall, TypeInvRequest, TypeInvStatus DEF Next

(* Every reachable state is well typed: whatever interleaves, a flag call  *)
(* that is about to write names a payslip and every request carries a key, *)
(* a version and a net salary that exist.                                  *)
THEOREM PayrollTypeOK == Spec => []TypeOK
<1>1. TypeInv => TypeOK
  BY DEF TypeInv
<1> QED  BY <1>1, TypeInvInit, TypeInvStep, PTL DEF Spec

-----------------------------------------------------------------------------
(* PaidAsApproved is inductive on typed states: only an admin's move makes *)
(* a payslip APPROVED, only an approved one moves on to PAID, and whatever *)
(* stores figures makes it a DRAFT.                                        *)

(* The write of a flag call sets the status of its payslip and nothing     *)
(* else.                                                                   *)
LEMMA FlagWriteRow ==
  ASSUME TypeInv, NEW c \in Calls, FlagWrite(c)
  PROVE  \E key \in Keys :
           /\ key = call[c].key
           /\ Exists(key)' /\ Status(key)' = "NEEDS_RECALCULATION"
           /\ \A k \in Keys : k # key =>
                Status(k)' = Status(k) /\ (Exists(k)' <=> Exists(k))
<1>1. PICK key \in Keys : key = call[c].key
  BY CallFields DEF TypeInv, TypeOK, FlagWrite, NoCall
<1>2. slips[key] \in Slip
  BY <1>1, RowExists DEF TypeInv, MarkedExists, FlagWrite
<1> DEFINE row == [slips[key] EXCEPT !.status = "NEEDS_RECALCULATION"]
<1>3. row.status = "NEEDS_RECALCULATION" /\ row # NoSlip
  BY <1>2 DEF Slip, NoSlip
<1>4. slips' = [slips EXCEPT ![key] = row]
  BY <1>1 DEF FlagWrite
<1> HIDE DEF row
<1>5. slips'[key] = row /\ \A k \in Keys : k # key => slips'[k] = slips[k]
  BY <1>1, <1>4 DEF TypeInv, TypeOK
<1>6. Exists(key)' /\ Status(key)' = "NEEDS_RECALCULATION"
  BY <1>3, <1>5 DEF Status, Exists
<1>7. \A k \in Keys : k # key => Status(k)' = Status(k) /\ (Exists(k)' <=> Exists(k))
  BY <1>5 DEF Status, Exists
<1> QED  BY <1>1, <1>6, <1>7

LEMMA MovedApproval ==
  ASSUME TypeInv, PaidAsApproved, NEW role \in Roles, NEW K \in SUBSET Keys,
         NEW s \in Statuses, Moved(role, K, s), \A k \in K : Exists(k),
         s = "APPROVED" => role = "ORG_ADMIN",
         s = "PAID" => \A k \in K : Status(k) = "APPROVED"
  PROVE  PaidAsApproved'
<1>1. ASSUME NEW k \in Keys, Status(k)' \in {"APPROVED", "PAID"}
      PROVE  approval'[k] = "ORG_ADMIN"
  <2>1. CASE k \in K
    <3>1. slips[k] \in Slip
      BY <2>1, RowExists DEF TypeInv
    <3>2. Status(k)' = s
      BY <2>1, <3>1 DEF Moved, Status, Slip
    <3> QED  BY <1>1, <2>1, <3>2 DEF Moved, PaidAsApproved
  <2>2. CASE k \notin K
    BY <1>1, <2>2 DEF Moved, Status, PaidAsApproved
  <2> QED  BY <2>1, <2>2
<1> QED  BY <1>1 DEF PaidAsApproved

LEMMA StoredApproval ==
  ASSUME TypeInv, PaidAsApproved, NEW key \in Keys, NEW v, NEW p, Stored(key, v, p)
  PROVE  PaidAsApproved'
<1>1. ASSUME NEW k \in Keys, Status(k)' \in {"APPROVED", "PAID"}
      PROVE  approval'[k] = "ORG_ADMIN"
  <2>1. k # key
    BY <1>1 DEF Stored, Status, TypeInv, TypeOK
  <2> QED  BY <1>1, <2>1 DEF Stored, Status, PaidAsApproved, TypeInv, TypeOK
<1> QED  BY <1>1 DEF PaidAsApproved

LEMMA ApprovalStep ==
  ASSUME TypeInv, PaidAsApproved, [Next]_vars
  PROVE  PaidAsApproved'
<1>1. CASE UNCHANGED <<slips, approval>>
  BY <1>1 DEF PaidAsApproved, Status
<1>2. ASSUME NEW c \in Calls, CallStep(c) PROVE PaidAsApproved'
  <2>1. CASE FlagWrite(c)
    <3>1. \A k \in Keys : \/ Status(k)' = "NEEDS_RECALCULATION"
                          \/ Status(k)' = Status(k)
      BY <2>1, FlagWriteRow
    <3>2. approval' = approval
      BY <2>1 DEF FlagWrite
    <3> QED  BY <3>1, <3>2 DEF PaidAsApproved
  <2>2. CASE ~FlagWrite(c)
    BY <1>1, <1>2, <2>2 DEF CallStep, Correct, FlagRead, FlagFail
  <2> QED  BY <2>1, <2>2
<1>3. ASSUME NEW q \in Requests, RequestStep(q) PROVE PaidAsApproved'
  <2> DEFINE w == work[q]
  <2>w. w \in Work
    BY DEF TypeInv, TypeOK
  <2>1. CASE GenerateUpsert(q)
    <3>1. w.key \in Keys
      BY <2>1, <2>w, WorkFields DEF GenerateUpsert
    <3>2. Stored(w.key, w.version, PreviousNet(w.key, w.paidNet, w.version))
      BY <2>1 DEF GenerateUpsert
    <3> QED  BY <3>1, <3>2, StoredApproval
  <2>2. CASE RegenerateUpsert(q)
    <3>1. w.key \in Keys
      BY <2>2, <2>w, WorkFields DEF RegenerateUpsert
    <3>2. Stored(w.key, w.version, PreviousNet(w.key, NoNet, w.version))
      BY <2>2 DEF RegenerateUpsert
    <3> QED  BY <3>1, <3>2, StoredApproval
  <2>3. CASE ~GenerateUpsert(q) /\ ~RegenerateUpsert(q)
    BY <1>1, <1>3, <2>3 DEF RequestStep, Generate, GenerateCalculate, GenerateCheck, Abort,
                            RegenerateCheck, RegenerateCalculate, Begin
  <2> QED  BY <2>1, <2>2, <2>3
<1>4. ASSUME NEW role \in Roles, NEW k \in Keys, NEW s \in Statuses,
             UpdateStatus(role, k, s)
      PROVE  PaidAsApproved'
  <2>1. Moved(role, {k}, s) /\ \A i \in {k} : Exists(i)
    BY <1>4, UpdateStatusMoves
  <2>2. /\ s = "APPROVED" => role = "ORG_ADMIN"
        /\ s = "PAID" => Status(k) = "APPROVED"
    BY <1>4 DEF UpdateStatus, Transitions
  <2>3. {k} \in SUBSET Keys
    OBVIOUS
  <2> QED  BY <2>1, <2>2, <2>3, MovedApproval
<1>5. ASSUME NEW role \in Roles, NEW month \in Months, NEW s \in Statuses,
             BulkUpdateStatus(role, month, s)
      PROVE  PaidAsApproved'
  <2> DEFINE K == {k \in KeysOf(month) : Exists(k)}
  <2>1. K \in SUBSET Keys /\ \A k \in K : Exists(k)
    BY DEF KeysOf
  <2>2. Moved(role, K, s)
    BY <1>5 DEF BulkUpdateStatus
  <2>3. s = "APPROVED" => role = "ORG_ADMIN"
    BY <1>5 DEF BulkUpdateStatus, BulkStatuses
  <2>4. s = "PAID" => \A k \in K : Status(k) = "APPROVED"
    BY <1>5 DEF BulkUpdateStatus, BulkFrom
  <2> HIDE DEF K
  <2> QED  BY <2>1, <2>2, <2>3, <2>4, MovedApproval
<1> QED  BY <1>1, <1>2, <1>3, <1>4, <1>5 DEF Next, StatusStep, PaySettings, vars

(* No interleaving of generations, regenerations, flags, single and bulk   *)
(* status changes brings figures to APPROVED or PAID that no admin         *)
(* approved after they were stored.                                        *)
THEOREM PayrollPaidAsApproved == Spec => []PaidAsApproved
<1>1. Init => PaidAsApproved
  BY DEF Init, PaidAsApproved, Status, NoSlip
<1> QED  BY <1>1, TypeInvInit, TypeInvStep, ApprovalStep, PTL DEF Spec

-----------------------------------------------------------------------------
(* FlagNotLost needs OwedPastDraft: a flag call drops its key when it      *)
(* reads a draft, which must then be owed nothing.                         *)

(* A call under way for key k.                                             *)
UnderWay(k) == \E c \in Calls : call[c] # NoCall /\ call[c].key = k

LEMMA MovedFlag ==
  ASSUME TypeInv, FlagInv, NEW role \in Roles, NEW K \in SUBSET Keys,
         NEW s \in Statuses, Moved(role, K, s), \A k \in K : Exists(k),
         s # "DRAFT", corrected' = corrected, slipped \subseteq slipped',
         \A k \in K : Status(k) = "NEEDS_RECALCULATION" /\ corrected[k] # 0 => k \in slipped'
  PROVE  FlagInv'
<1>1. ASSUME NEW k \in Keys, Owed(k)'
      PROVE  /\ Status(k)' # "DRAFT"
             /\ Status(k)' = "NEEDS_RECALCULATION" \/ UnderWay(k)'
  <2>1. Owed(k) /\ Status(k) # "DRAFT" /\ (Status(k) = "NEEDS_RECALCULATION" \/ UnderWay(k))
    <3>1. Exists(k)
      BY <1>1 DEF Owed, Moved, Exists
    <3>2. Owed(k)
      BY <1>1, <3>1 DEF Owed
    <3> QED  BY <3>2 DEF FlagInv, OwedPastDraft, FlagNotLost, UnderWay, Owed
  <2>2. UnderWay(k) => UnderWay(k)'
    BY DEF UnderWay, Moved
  <2>3. CASE k \in K
    <3>1. slips[k] \in Slip
      BY <2>1, RowExists DEF TypeInv, Owed
    <3>2. Exists(k)' /\ Status(k)' = s
      BY <2>1, <2>3, <3>1 DEF Moved, Status, Exists, Slip, NoSlip, Statuses
    <3> QED  BY <1>1, <2>1, <2>2, <2>3, <3>2 DEF Owed
  <2>4. CASE k \notin K
    BY <2>1, <2>2, <2>4 DEF Moved, Status, Exists
  <2> QED  BY <2>3, <2>4
<1> QED  BY <1>1 DEF FlagInv, OwedPastDraft, FlagNotLost, UnderWay, Owed

LEMMA StoredFlag ==
  ASSUME TypeInv, FlagInv, NEW key \in Keys, NEW v, NEW p, Stored(key, v, p)
  PROVE  FlagInv'
<1>1. ASSUME NEW k \in Keys, Owed(k)'
      PROVE  /\ Status(k)' # "DRAFT"
             /\ Status(k)' = "NEEDS_RECALCULATION" \/ UnderWay(k)'
  <2>1. k # key
    BY <1>1 DEF Owed, Stored, Overtaking, TypeInv, TypeOK
  <2>2. slips'[k] = slips[k] /\ corrected'[k] = corrected[k] /\ (k \in slipped' <=> k \in slipped)
    BY <2>1 DEF Stored, Overtaking, TypeInv, TypeOK
  <2>3. Owed(k)
    BY <1>1, <2>2 DEF Owed, Exists
  <2>4. UnderWay(k)' <=> UnderWay(k)
    BY DEF Stored, UnderWay
  <2> QED  BY <2>2, <2>3, <2>4 DEF FlagInv, OwedPastDraft, FlagNotLost, Owed, UnderWay, Status
<1> QED  BY <1>1 DEF FlagInv, OwedPastDraft, FlagNotLost, UnderWay, Owed

(* What a payslip that is owed a flag has before a step of a flag call.    *)
LEMMA FlagOwed ==
  ASSUME FlagInv, NEW k \in Keys, Owed(k)
  PROVE  Status(k) # "DRAFT" /\ (Status(k) = "NEEDS_RECALCULATION" \/ UnderWay(k))
  BY DEF FlagInv, OwedPastDraft, FlagNotLost, Owed, UnderWay

LEMMA FlagCall ==
  ASSUME TypeInv, FlagInv, NEW c \in Calls, CallStep(c)
  PROVE  FlagInv'
<1>. SUFFICES ASSUME NEW i \in Keys, Owed(i)'
              PROVE  /\ Status(i)' # "DRAFT"
                     /\ Status(i)' = "NEEDS_RECALCULATION" \/ UnderWay(i)'
  BY DEF FlagInv, OwedPastDraft, FlagNotLost, UnderWay, Owed
<1>1. ASSUME NEW k \in Keys, Correct(c, k)
      PROVE  /\ Status(i)' # "DRAFT"
             /\ Status(i)' = "NEEDS_RECALCULATION" \/ UnderWay(i)'
  <2>1. Status(i)' = Status(i) /\ (Exists(i)' <=> Exists(i))
    BY <1>1 DEF Correct, Status, Exists
  <2>2. CASE i = k
    <3>1. UnderWay(k)'
      BY <1>1 DEF UnderWay, Correct, TypeInv, TypeOK, NoCall
    <3>2. Status(k) # "DRAFT"
      BY <1>1, <2>2 DEF Owed, Correct
    <3> QED  BY <2>1, <2>2, <3>1, <3>2
  <2>3. CASE i # k
    <3>1. UnderWay(i) => UnderWay(i)'
      BY <1>1 DEF UnderWay, Correct, TypeInv, TypeOK
    <3>2. Owed(i)
      BY <1>1, <2>1, <2>3 DEF Owed, Correct, TypeInv, TypeOK
    <3> QED  BY <2>1, <3>1, <3>2, FlagOwed
  <2> QED  BY <2>2, <2>3
<1>2. CASE FlagRead(c)
  <2>1. PICK key \in Keys : key = call[c].key
    BY <1>2, CallFields DEF TypeInv, TypeOK, FlagRead, NoCall
  <2>2. i # key /\ UnderWay(i) => UnderWay(i)'
    BY <1>2, <2>1 DEF UnderWay, FlagRead, TypeInv, TypeOK
  <2>3. Status(key) \notin Unflagged => UnderWay(key)'
    BY <1>2, <2>1 DEF UnderWay, FlagRead, TypeInv, TypeOK, NoCall
  <2>4. Owed(i) /\ Status(i)' = Status(i)
    BY <1>2 DEF FlagRead, flagVars, Owed, Exists, Status
  <2>5. Status(i) # "none"
    BY <2>4, RowExists DEF Owed, TypeInv
  <2> QED  BY <2>2, <2>3, <2>4, <2>5, FlagOwed DEF Unflagged
<1>3. CASE FlagWrite(c)
  <2>1. PICK key \in Keys :
          /\ key = call[c].key
          /\ Exists(key)' /\ Status(key)' = "NEEDS_RECALCULATION"
          /\ \A k \in Keys : k # key => Status(k)' = Status(k) /\ (Exists(k)' <=> Exists(k))
    BY <1>3, FlagWriteRow
  <2>2. i # key /\ UnderWay(i) => UnderWay(i)'
    BY <1>3, <2>1 DEF UnderWay, FlagWrite, TypeInv, TypeOK
  <2>3. i # key => Owed(i)
    BY <1>3, <2>1 DEF Owed, FlagWrite, flagVars
  <2> QED  BY <2>1, <2>2, <2>3, FlagOwed
<1>4. CASE FlagFail(c)
  <2>1. PICK key \in Keys : key = call[c].key
    BY <1>4, CallFields DEF TypeInv, TypeOK, FlagFail
  <2>2. i # key /\ UnderWay(i) => UnderWay(i)'
    BY <1>4, <2>1 DEF UnderWay, FlagFail, TypeInv, TypeOK
  <2>3. i # key /\ Owed(i) /\ Status(i)' = Status(i)
    BY <1>4, <2>1 DEF FlagFail, Lacking, Owed, Exists, Status
  <2> QED  BY <2>2, <2>3, FlagOwed
<1> QED  BY <1>1, <1>2, <1>3, <1>4 DEF CallStep

LEMMA FlagStep ==
  ASSUME TypeInv, FlagInv, [Next]_vars
  PROVE  FlagInv'
<1>1. CASE UNCHANGED <<slips, call, flagVars>>
  BY <1>1 DEF FlagInv, OwedPastDraft, FlagNotLost, Owed, Exists, Status, flagVars
<1>2. ASSUME NEW q \in Requests, RequestStep(q) PROVE FlagInv'
  <2> DEFINE w == work[q]
  <2>w. w \in Work
    BY DEF TypeInv, TypeOK
  <2>1. CASE GenerateUpsert(q)
    <3>1. w.key \in Keys
      BY <2>1, <2>w, WorkFields DEF GenerateUpsert
    <3>2. Stored(w.key, w.version, PreviousNet(w.key, w.paidNet, w.version))
      BY <2>1 DEF GenerateUpsert
    <3> QED  BY <3>1, <3>2, StoredFlag
  <2>2. CASE RegenerateUpsert(q)
    <3>1. w.key \in Keys
      BY <2>2, <2>w, WorkFields DEF RegenerateUpsert
    <3>2. Stored(w.key, w.version, PreviousNet(w.key, NoNet, w.version))
      BY <2>2 DEF RegenerateUpsert
    <3> QED  BY <3>1, <3>2, StoredFlag
  <2>3. CASE ~GenerateUpsert(q) /\ ~RegenerateUpsert(q)
    BY <1>1, <1>2, <2>3 DEF RequestStep, Generate, GenerateCalculate, GenerateCheck, Abort,
                            RegenerateCheck, RegenerateCalculate, Begin
  <2> QED  BY <2>1, <2>2, <2>3
<1>3. ASSUME NEW role \in Roles, NEW k \in Keys, NEW s \in Statuses,
             UpdateStatus(role, k, s)
      PROVE  FlagInv'
  <2>1. Moved(role, {k}, s) /\ \A i \in {k} : Exists(i)
    BY <1>3, UpdateStatusMoves
  <2>2. /\ s # "DRAFT" /\ Status(k) # "NEEDS_RECALCULATION"
        /\ corrected' = corrected /\ slipped \subseteq slipped'
    BY <1>3 DEF UpdateStatus, Transitions, flagVars
  <2>3. {k} \in SUBSET Keys
    OBVIOUS
  <2> QED  BY <2>1, <2>2, <2>3, MovedFlag
<1>4. ASSUME NEW role \in Roles, NEW month \in Months, NEW s \in Statuses,
             BulkUpdateStatus(role, month, s)
      PROVE  FlagInv'
  <2> DEFINE K == {k \in KeysOf(month) : Exists(k)}
  <2>1. K \in SUBSET Keys /\ \A k \in K : Exists(k)
    BY DEF KeysOf
  <2>2. Moved(role, K, s)
    BY <1>4 DEF BulkUpdateStatus
  <2>3. s # "DRAFT" /\ corrected' = corrected /\ slipped \subseteq slipped'
    BY <1>4 DEF BulkUpdateStatus, BulkStatuses
  <2>4. \A k \in K : Status(k) = "NEEDS_RECALCULATION" /\ corrected[k] # 0 => k \in slipped'
    BY <1>4 DEF BulkUpdateStatus, Lacking
  <2> HIDE DEF K
  <2> QED  BY <2>1, <2>2, <2>3, <2>4, MovedFlag
<1> QED  BY <1>1, <1>2, <1>3, <1>4, FlagCall DEF Next, StatusStep, PaySettings, vars, flagVars

(* However status changes, generations and other calls interleave with its *)
(* flag call, a payslip that lacks a correction has its flag set or on its *)
(* way, unless the correction slipped in one of the four ways that         *)
(* FlagNotLost names.                                                      *)
THEOREM PayrollFlagNotLost == Spec => []FlagNotLost
<1>1. Init => FlagInv
  BY DEF Init, FlagInv, OwedPastDraft, FlagNotLost, Owed, Exists
<1>2. FlagInv => FlagNotLost
  BY DEF FlagInv
<1> QED  BY <1>1, <1>2, TypeInvInit, TypeInvStep, FlagStep, PTL DEF Spec
=============================================================================
