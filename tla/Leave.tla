------------------------------- MODULE Leave -------------------------------
(***************************************************************************)
(* Leave requests of one organisation and the yearly leave balances that   *)
(* their decisions draw on.                                                *)
(*                                                                         *)
(* A handler reads, decides and writes in separate statements without a    *)
(* transaction. After a decision it answers, and the update of the balance *)
(* goes on alone in the same task ("fire and forget").                     *)
(***************************************************************************)
EXTENDS Integers, FiniteSets, FiniteSetsExt

CONSTANTS
  Members,       \* the employees, all active
  LeaveIds,      \* the leave requests that can be created
  Tasks,         \* the concurrent HTTP handlers
  Forms,         \* the dates and types asked for
  LastDay,       \* days are numbered from 1 through two BS years
  NewYear,       \* the first day of the second BS year
  Tracked,       \* the leave types with a balance
  Untracked,     \* UNPAID, MATERNITY, PATERNITY
  Entitlement,   \* the organisation's entitlement per tracked type
  Cap,           \* the accumulation cap per tracked type
  Adjustments    \* the fields and values an admin types into a balance

Types == Tracked \cup Untracked
Days == 1..LastDay
Years == {1, 2}
YearOf(day) == IF day < NewYear THEN 1 ELSE 2

(* A form with the dates swapped is refused by the first check. *)
Form == {f \in [start : Days, end : Days, type : Types] : f.start <= f.end}

ASSUME LeaveAssumption ==
  /\ IsFiniteSet(Tasks)
  /\ LastDay \in Nat /\ NewYear \in Nat
  /\ Tracked \cap Untracked = {}
  /\ Forms \subseteq Form
  /\ Entitlement \in [Tracked -> Nat]
  /\ Cap \in [Tracked -> Nat]
  /\ Adjustments \subseteq [field : {"entitlement", "carriedOver", "used"}, value : Int]

Statuses == {"PENDING", "APPROVED", "REJECTED"}
Decisions == {"APPROVED", "REJECTED"}

Leave == [member : Members, start : Days, end : Days, type : Types, status : Statuses]
NoLeave == [status |-> "none"]
Cancelled == [status |-> "deleted"]

Live(row) == row.status \in {"PENDING", "APPROVED"}
Length(row) == row.end - row.start + 1
Overlap(a, b) == a.start <= b.end /\ b.start <= a.end

Keys == Members \X Years
Fields == {"entitlement", "carriedOver", "used"}
Bucket == [Fields -> Int]
NoBalance == <<>>
Balance == [Tracked -> Bucket]

Idle == [op |-> "idle"]
DecisionOps == {"decide", "flag", "balance"}
TaskStates ==
  {Idle}
  \cup [op : {"create"}, member : Members, form : Form]
  \cup [op : {"cancel"}, id : LeaveIds]
  \cup [op : DecisionOps, id : LeaveIds, decision : Decisions]
  \cup [op : {"deduct"}, id : LeaveIds, key : Keys]
  \cup [op : {"refund"}, id : LeaveIds, key : Keys, seen : Int]
  \cup [op : {"initialize"}, year : Years, todo : SUBSET Members]
  \cup [op : {"insert"}, year : Years, todo : SUBSET Members,
        carried : [Members -> [Tracked -> Int]]]

VARIABLES
  leaves,      \* id -> leaves row, NoLeave or Cancelled
  balances,    \* <<member, BS year>> -> leave_balances row, or NoBalance
  enabled,     \* organizations.leaveBalanceEnabled
  task,        \* handler -> what it is in the middle of
  asked,       \* history: id -> the row as it was created, or NoLeave
  granted,     \* history: the leaves that have been approved
  due,         \* history: days approved, less those whose update was dropped
  refunded,    \* history: balances a rejection was refunded to
  adjusted,    \* history: balances an admin has written
  hasty,       \* history: members with two requests in progress at once
  contested    \* history: leaves with two decisions in progress at once

vars == <<leaves, balances, enabled, task, asked, granted, due, refunded, adjusted, hasty, contested>>
history == <<asked, granted, due, refunded, adjusted, hasty, contested>>

TypeOK ==
  /\ leaves \in [LeaveIds -> Leave \cup {NoLeave, Cancelled}]
  /\ balances \in [Keys -> Balance \cup {NoBalance}]
  /\ enabled \in BOOLEAN
  /\ task \in [Tasks -> TaskStates]
  /\ asked \in [LeaveIds -> Leave \cup {NoLeave}]
  /\ granted \subseteq LeaveIds
  /\ due \in [Keys -> [Tracked -> Int]]
  /\ refunded \subseteq Keys
  /\ adjusted \subseteq Keys
  /\ hasty \subseteq Members
  /\ contested \subseteq LeaveIds

Init ==
  /\ leaves = [id \in LeaveIds |-> NoLeave]
  /\ balances = [k \in Keys |-> NoBalance]
  /\ enabled = TRUE
  /\ task = [t \in Tasks |-> Idle]
  /\ asked = [id \in LeaveIds |-> NoLeave]
  /\ granted = {}
  /\ due = [k \in Keys |-> [y \in Tracked |-> 0]]
  /\ refunded = {}
  /\ adjusted = {}
  /\ hasty = {}
  /\ contested = {}

Goes(t, state) == task' = [task EXCEPT ![t] = state]
Doing(ops) == {t \in Tasks : task[t].op \in ops}

-----------------------------------------------------------------------------
(* requestLeave: a look for an overlap, then the creation.                 *)

LeavesOf(m) == {id \in LeaveIds : leaves[id] \notin {NoLeave, Cancelled} /\ leaves[id].member = m}

(* Mutant of Overlapping: the look forgets the leaves not decided yet.     *)
OverlappingApproved(m, form) ==
  {id \in LeavesOf(m) : leaves[id].status = "APPROVED" /\ Overlap(leaves[id], form)}

Overlapping(m, form) ==
  {id \in LeavesOf(m) : Live(leaves[id]) /\ Overlap(leaves[id], form)}

Request(t, m, form) ==
  /\ task[t] = Idle
  /\ Overlapping(m, form) = {}
  /\ Goes(t, [op |-> "create", member |-> m, form |-> form])
  /\ hasty' = IF \E u \in Doing({"create"}) : task[u].member = m
              THEN hasty \cup {m} ELSE hasty
  /\ UNCHANGED <<leaves, balances, enabled, asked, granted, due, refunded, adjusted, contested>>

Create(t, id) ==
  LET w == task[t]
      row == [member |-> w.member, start |-> w.form.start, end |-> w.form.end,
              type |-> w.form.type, status |-> "PENDING"]
  IN  /\ w.op = "create"
      /\ leaves[id] = NoLeave
      /\ leaves' = [leaves EXCEPT ![id] = row]
      /\ asked' = [asked EXCEPT ![id] = row]
      /\ Goes(t, Idle)
      /\ UNCHANGED <<balances, enabled, granted, due, refunded, adjusted, hasty, contested>>

-----------------------------------------------------------------------------
(* cancelLeave and updateLeaveStatus: the status is read, then the row is  *)
(* deleted or updated by id. Both throw if the row has gone.               *)

Contest(id) ==
  contested' = IF \E u \in Doing({"cancel", "decide"}) : task[u].id = id
               THEN contested \cup {id} ELSE contested

(* Mutant of Pending: an approved leave may be decided again or cancelled. *)
PendingOrApproved(id) == leaves[id].status \in {"PENDING", "APPROVED"}

Pending(id) == leaves[id].status = "PENDING"

Gone(id) == leaves[id] = Cancelled

CancelRead(t, id) ==
  /\ task[t] = Idle
  /\ Pending(id)
  /\ Goes(t, [op |-> "cancel", id |-> id])
  /\ Contest(id)
  /\ UNCHANGED <<leaves, balances, enabled, asked, granted, due, refunded, adjusted, hasty>>

CancelDelete(t) ==
  /\ task[t].op = "cancel"
  /\ leaves' = [leaves EXCEPT ![task[t].id] = Cancelled]
  /\ Goes(t, Idle)
  /\ UNCHANGED <<balances, enabled, history>>

DecideRead(t, id, decision) ==
  /\ task[t] = Idle
  /\ Pending(id)
  /\ Goes(t, [op |-> "decide", id |-> id, decision |-> decision])
  /\ Contest(id)
  /\ UNCHANGED <<leaves, balances, enabled, asked, granted, due, refunded, adjusted, hasty>>

(* The balance of a leave is the one of the year it starts in. *)
KeyOf(id) == <<asked[id].member, YearOf(asked[id].start)>>

Charged(id, days) == [due EXCEPT ![KeyOf(id)][asked[id].type] = @ + days]

DecideUpdate(t) ==
  LET id == task[t].id
      decision == task[t].decision
      tracked == asked[id].type \in Tracked
  IN  /\ task[t].op = "decide"
      /\ IF Gone(id)
         THEN /\ Goes(t, Idle)
              /\ UNCHANGED <<leaves, granted, due>>
         ELSE /\ leaves' = [leaves EXCEPT ![id].status = decision]
              /\ Goes(t, IF tracked THEN [task[t] EXCEPT !.op = "flag"] ELSE Idle)
              /\ granted' = IF decision = "APPROVED" THEN granted \cup {id} ELSE granted
              /\ due' = IF decision = "APPROVED" /\ tracked
                        THEN Charged(id, Length(asked[id])) ELSE due
      /\ UNCHANGED <<balances, enabled, asked, refunded, adjusted, hasty, contested>>

-----------------------------------------------------------------------------
(* handleLeaveDecision: the flag, then the leave and its balance are read  *)
(* (a deletion between these two reads is as good as one after them); then *)
(* the days are added, or taken off what the balance showed.               *)

(* The task ends without updating the balance. *)
Dropped(t) ==
  /\ Goes(t, Idle)
  /\ due' = IF task[t].op = "deduct" \/ (task[t].op # "refund" /\ task[t].decision = "APPROVED")
            THEN Charged(task[t].id, -Length(asked[task[t].id])) ELSE due

BalanceFlag(t) ==
  /\ task[t].op = "flag"
  /\ IF enabled THEN Goes(t, [task[t] EXCEPT !.op = "balance"]) /\ UNCHANGED due
     ELSE Dropped(t)
  /\ UNCHANGED <<leaves, balances, enabled, asked, granted, refunded, adjusted, hasty, contested>>

(* The row of a leave that has been deleted no longer tells its BS year. *)
BalanceRead(t) ==
  LET id == task[t].id
      k == KeyOf(id)
  IN  /\ task[t].op = "balance"
      /\ IF Gone(id) \/ balances[k] = NoBalance THEN Dropped(t)
         ELSE /\ Goes(t, IF task[t].decision = "APPROVED"
                         THEN [op |-> "deduct", id |-> id, key |-> k]
                         ELSE [op |-> "refund", id |-> id, key |-> k,
                               seen |-> balances[k][asked[id].type]["used"]])
              /\ UNCHANGED due
      /\ UNCHANGED <<leaves, balances, enabled, asked, granted, refunded, adjusted, hasty, contested>>

Deduct(t) ==
  LET id == task[t].id
  IN  /\ task[t].op = "deduct"
      /\ balances' = [balances EXCEPT ![task[t].key][asked[id].type]["used"] =
                        @ + Length(asked[id])]
      /\ Goes(t, Idle)
      /\ UNCHANGED <<leaves, enabled, history>>

AtLeast(a, b) == IF a < b THEN b ELSE a
AtMost(a, b) == IF a < b THEN a ELSE b

Refunded(seen, days) == AtLeast(seen - days, 0)

Refund(t) ==
  LET id == task[t].id
  IN  /\ task[t].op = "refund"
      /\ balances' = [balances EXCEPT ![task[t].key][asked[id].type]["used"] =
                        Refunded(task[t].seen, Length(asked[id]))]
      /\ refunded' = refunded \cup {task[t].key}
      /\ Goes(t, Idle)
      /\ UNCHANGED <<leaves, enabled, asked, granted, due, adjusted, hasty, contested>>

(* A statement of the update throws; updateLeaveStatus only logs it. *)
BalanceFail(t) ==
  /\ task[t].op \in {"flag", "balance", "deduct", "refund"}
  /\ Dropped(t)
  /\ UNCHANGED <<leaves, balances, enabled, asked, granted, refunded, adjusted, hasty, contested>>

-----------------------------------------------------------------------------
(* initializeYear: the members without a balance, last year's balances,    *)
(* then one insert of all rows, which the unique key refuses as a whole.   *)

InitializeExisting(t, year) ==
  /\ task[t] = Idle
  /\ enabled
  /\ Goes(t, [op |-> "initialize", year |-> year,
              todo |-> {m \in Members : balances[<<m, year>>] = NoBalance}])
  /\ UNCHANGED <<leaves, balances, enabled, history>>

Available(b) == b["entitlement"] + b["carriedOver"] - b["used"]

(* Mutant of CarryOver: the cap is applied to the unused days alone. *)
CarryOverUncapped(y, b) == AtMost(AtLeast(0, Available(b)), Cap[y])

CarryOver(y, b) ==
  AtMost(AtLeast(0, Available(b)), AtLeast(0, Cap[y] - Entitlement[y]))

Carried(m, year, y) ==
  IF year = 1 \/ balances[<<m, year - 1>>] = NoBalance THEN 0
  ELSE CarryOver(y, balances[<<m, year - 1>>][y])

InitializePrevious(t) ==
  LET w == task[t]
  IN  /\ w.op = "initialize"
      /\ Goes(t, [op |-> "insert", year |-> w.year, todo |-> w.todo,
                  carried |-> [m \in Members |-> [y \in Tracked |-> Carried(m, w.year, y)]]])
      /\ UNCHANGED <<leaves, balances, enabled, history>>

NewBucket(entitlement, carried) ==
  [f \in Fields |-> CASE f = "entitlement" -> entitlement
                      [] f = "carriedOver" -> carried
                      [] f = "used" -> 0]

(* Mutant of UniqueViolation: the insert overwrites the rows there are. *)
NoUniqueKey(keys) == FALSE

UniqueViolation(keys) == \E k \in keys : balances[k] # NoBalance

InitializeInsert(t) ==
  LET w == task[t]
      new == {<<m, w.year>> : m \in w.todo}
  IN  /\ w.op = "insert"
      /\ balances' =
           IF UniqueViolation(new) THEN balances
           ELSE [k \in Keys |->
                   IF k \in new
                   THEN [y \in Tracked |-> NewBucket(Entitlement[y], w.carried[k[1]][y])]
                   ELSE balances[k]]
      /\ Goes(t, Idle)
      /\ UNCHANGED <<leaves, enabled, history>>

-----------------------------------------------------------------------------
(* adjustBalance writes the fields an admin names as given; rows are never *)
(* deleted, so that its read and its write are one step.                   *)
Adjust(k, y, a) ==
  /\ balances[k] # NoBalance
  /\ balances' = [balances EXCEPT ![k][y][a.field] = a.value]
  /\ adjusted' = adjusted \cup {k}
  /\ UNCHANGED <<leaves, enabled, task, asked, granted, due, refunded, hasty, contested>>

(* The organisation's settings. *)
ToggleTracking ==
  /\ enabled' = ~enabled
  /\ UNCHANGED <<leaves, balances, task, history>>

-----------------------------------------------------------------------------

TaskStep(t) ==
  \/ \E m \in Members, form \in Forms : Request(t, m, form)
  \/ \E id \in LeaveIds : Create(t, id)
  \/ \E id \in LeaveIds : CancelRead(t, id)
  \/ CancelDelete(t)
  \/ \E id \in LeaveIds, decision \in Decisions : DecideRead(t, id, decision)
  \/ DecideUpdate(t)
  \/ BalanceFlag(t)
  \/ BalanceRead(t)
  \/ Deduct(t)
  \/ Refund(t)
  \/ BalanceFail(t)
  \/ \E year \in Years : InitializeExisting(t, year)
  \/ InitializePrevious(t)
  \/ InitializeInsert(t)

Next ==
  \/ \E t \in Tasks : TaskStep(t)
  \/ \E k \in Keys, y \in Tracked, a \in Adjustments : Adjust(k, y, a)
  \/ ToggleTracking

Spec == Init /\ [][Next]_vars

-----------------------------------------------------------------------------
(* Two live leaves of a member never overlap, unless the member had two    *)
(* requests, or an admin two decisions on one of them, in progress at      *)
(* once: whatever else is decided, cancelled and asked between a request's *)
(* check and its creation opens no gap.                                    *)
NoOverlap ==
  \A m \in Members \ hasty : \A a, b \in LeavesOf(m) \ contested :
    (Live(leaves[a]) /\ Live(leaves[b]) /\ Overlap(leaves[a], leaves[b])) => a = b

(* A decision is final: unless another decision or a cancellation had read *)
(* the same pending leave, a decided leave is never changed or deleted.    *)
DecisionFinal ==
  [][\A id \in LeaveIds \ contested :
       leaves[id].status \in Decisions => leaves'[id] = leaves[id]]_vars

(* The tasks on their way to deduct a leave of type y from balance k.      *)
Deducting(k, y) ==
  {t \in Doing({"flag", "balance", "deduct"}) :
     /\ task[t].op # "deduct" => task[t].decision = "APPROVED"
     /\ KeyOf(task[t].id) = k /\ asked[task[t].id].type = y}

(* No approved day is forgotten and none is counted twice: however         *)
(* decisions, initialisations and toggles interleave, a balance nobody     *)
(* adjusted and no rejection was refunded to shows every day approved,     *)
(* less those still on their way.                                          *)
DeductionsKept ==
  \A k \in Keys \ (refunded \cup adjusted) : \A y \in Tracked :
    due[k][y] = MapThenSumSet(LAMBDA t : Length(asked[task[t].id]), Deducting(k, y))
                + (IF balances[k] = NoBalance THEN 0 ELSE balances[k][y]["used"])

(* No carry-over raises a balance above the accumulation cap, none is a    *)
(* debt, and no refund makes the days used negative, until an admin writes *)
(* a balance.                                                              *)
BalanceSane ==
  \A k \in Keys \ adjusted : balances[k] # NoBalance =>
    \A y \in Tracked : LET b == balances[k][y] IN
      /\ b["carriedOver"] >= 0
      /\ b["carriedOver"] = 0 \/ b["entitlement"] + b["carriedOver"] <= Cap[y]
      /\ b["used"] >= 0

-----------------------------------------------------------------------------
(* What a comment of the code says, and the code does not do.              *)

(* "REJECTED: refund days back (in case it was previously approved and is  *)
(* now being reversed)": days are given back only for a leave that has     *)
(* been approved.                                                          *)
RefundOnlyGranted ==
  [][\A t \in Tasks : Refund(t) =>
       \/ task[t].id \in granted
       \/ balances' = balances]_vars
=============================================================================
