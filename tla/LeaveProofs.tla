---------------------------- MODULE LeaveProofs ----------------------------
(***************************************************************************)
(* Proofs about Leave, for every set of members, leave requests, handlers  *)
(* and forms, and every entitlement and cap.                               *)
(***************************************************************************)
EXTENDS Leave, FiniteSums, TLAPS

(* The operations that hold the id of a leave, and of those the ones that  *)
(* work on its balance.                                                    *)
BalanceOps == {"flag", "balance", "deduct", "refund"}
IdOps == {"cancel", "decide"} \cup BalanceOps

(* The row of a leave keeps the member, the dates and the type it was      *)
(* created with, and its dates are in order.                               *)
AskedKept ==
  \A id \in LeaveIds :
    /\ asked[id] = NoLeave <=> leaves[id] = NoLeave
    /\ asked[id] # NoLeave => asked[id].start <= asked[id].end
    /\ leaves[id] \notin {NoLeave, Cancelled} =>
         /\ leaves[id].member = asked[id].member
         /\ leaves[id].start = asked[id].start
         /\ leaves[id].end = asked[id].end

(* A task works on a leave that has been created, and on the balance of    *)
(* that leave's member and year once it has found it.                      *)
Known(w) ==
  /\ w.op \in IdOps => asked[w.id] # NoLeave
  /\ w.op \in BalanceOps => asked[w.id].type \in Tracked
  /\ w.op \in {"deduct", "refund"} => w.key = KeyOf(w.id) /\ balances[w.key] # NoBalance

TasksKnow == \A t \in Tasks : Known(task[t])

TypeInv == TypeOK /\ AskedKept /\ TasksKnow

LEMMA LeaveFields ==
  ASSUME NEW row \in Leave
  PROVE  /\ row.member \in Members /\ row.start \in Days /\ row.end \in Days
         /\ row.start \in Int /\ row.end \in Int
         /\ row.type \in Types /\ row.status \in Statuses
         /\ row # NoLeave /\ row # Cancelled
         /\ Length(row) \in Int
  BY LeaveAssumption DEF Leave, NoLeave, Cancelled, Days, Length, Statuses

(* What a task holds, by its operation. *)
LEMMA TaskFields ==
  ASSUME NEW w \in TaskStates
  PROVE  /\ w.op = "create" => w.member \in Members /\ w.form \in Form
         /\ w.op \in IdOps => w.id \in LeaveIds
         /\ w.op \in DecisionOps => w.decision \in Decisions
         /\ w.op \in {"deduct", "refund"} => w.key \in Keys
         /\ w.op = "refund" => w.seen \in Int
         /\ w.op \in {"initialize", "insert"} => w.year \in Years /\ w.todo \in SUBSET Members
         /\ w.op = "insert" => w.carried \in [Members -> [Tracked -> Int]]
  BY LeaveAssumption DEF TaskStates, IdOps, BalanceOps, DecisionOps, Idle

LEMMA LeaveTypeInvInit == Init => TypeInv
  BY LeaveAssumption DEF Init, TypeInv, TypeOK, AskedKept, TasksKnow, Known, Idle, TaskStates,
     IdOps, BalanceOps, Keys

(* The key of a created leave. *)
LEMMA KeyOfType ==
  ASSUME TypeInv, NEW id \in LeaveIds, asked[id] # NoLeave
  PROVE  /\ asked[id] \in Leave /\ KeyOf(id) \in Keys
         /\ Length(asked[id]) \in Int /\ Length(asked[id]) > 0
  <1>1. asked[id] \in Leave /\ asked[id].start <= asked[id].end
    BY DEF TypeInv, TypeOK, AskedKept
  <1>2. /\ asked[id].member \in Members
        /\ asked[id].start \in Int /\ asked[id].end \in Int
    BY <1>1, LeaveFields
  <1>. QED
    BY <1>1, <1>2 DEF KeyOf, Keys, YearOf, Years, Length

(* A task goes to a known state while leaves are created, never forgotten, *)
(* and balances are created and written, never deleted.                    *)
LEMMA TasksStayKnown ==
  ASSUME TypeInv, NEW t \in Tasks, NEW w \in TaskStates, Goes(t, w), Known(w),
         \A id \in LeaveIds : asked[id] # NoLeave => asked'[id] = asked[id],
         \A k \in Keys : balances[k] # NoBalance => balances'[k] # NoBalance
  PROVE  task' \in [Tasks -> TaskStates] /\ TasksKnow'
  <1>1. task' \in [Tasks -> TaskStates] /\ \A u \in Tasks : task'[u] \in {task[u], w}
    BY DEF TypeInv, TypeOK, Goes
  <1>2. ASSUME NEW v \in TaskStates, Known(v) PROVE Known(v)'
    <2>1. v.op \in IdOps => v.id \in LeaveIds
      BY TaskFields
    <2>2. v.op \in {"deduct", "refund"} => v.key \in Keys
      BY TaskFields
    <2>3. v.op \in BalanceOps => v.op \in IdOps
      BY DEF IdOps
    <2>4. v.op \in {"deduct", "refund"} => v.op \in BalanceOps
      BY DEF BalanceOps
    <2>. QED
      BY <1>2, <2>1, <2>2, <2>3, <2>4 DEF Known, KeyOf
  <1>3. \A u \in Tasks : task[u] \in TaskStates /\ Known(task[u])
    BY DEF TypeInv, TypeOK, TasksKnow
  <1>4. ASSUME NEW u \in Tasks PROVE Known(task[u])'
    <2>1. PICK v \in TaskStates : task'[u] = v /\ Known(v)
      BY <1>1, <1>3
    <2>2. Known(v)'
      BY <1>2, <2>1
    <2>. QED
      BY <2>1, <2>2 DEF Known, KeyOf
  <1>. QED
    BY <1>1, <1>4 DEF TasksKnow

(* A step that leaves the rows of the leaves and the balances alone. *)
LEMMA TypeInvOfTask ==
  ASSUME TypeInv, NEW t \in Tasks, NEW w \in TaskStates, Goes(t, w), Known(w),
         UNCHANGED <<leaves, balances, enabled, asked, granted, refunded, adjusted>>,
         due' \in [Keys -> [Tracked -> Int]], hasty' \subseteq Members, contested' \subseteq LeaveIds
  PROVE  TypeInv'
  <1>1. task' \in [Tasks -> TaskStates] /\ TasksKnow'
    BY TasksStayKnown
  <1>2. AskedKept'
    BY DEF TypeInv, AskedKept
  <1>. QED
    BY <1>1, <1>2 DEF TypeInv, TypeOK

LEMMA ChargedType ==
  ASSUME TypeInv, NEW id \in LeaveIds, NEW days \in Int, asked[id].type \in Tracked
  PROVE  Charged(id, days) \in [Keys -> [Tracked -> Int]]
  <1> DEFINE k == KeyOf(id)
             charged == [due[k] EXCEPT ![asked[id].type] = @ + days]
             PerType == [Tracked -> Int]
  <1>0. due \in [Keys -> PerType]
    BY DEF TypeInv, TypeOK
  <1>1. Charged(id, days) = [due EXCEPT ![k] = charged]
    BY DEF Charged
  <1>2. k \in Keys => charged \in PerType
    BY <1>0
  <1> HIDE DEF k, charged, PerType
  <1>3. [due EXCEPT ![k] = charged] \in [Keys -> PerType]
    BY <1>0, <1>2
  <1>. QED
    BY <1>1, <1>3 DEF PerType

(* Idle is a known state. *)
LEMMA IdleKnown == Idle \in TaskStates /\ Known(Idle)
  BY DEF Idle, TaskStates, Known, IdOps, BalanceOps

LEMMA DroppedType ==
  ASSUME TypeInv, NEW t \in Tasks, task[t].op \in BalanceOps, Dropped(t)
  PROVE  Goes(t, Idle) /\ due' \in [Keys -> [Tracked -> Int]]
  <1>1. /\ task[t].id \in LeaveIds /\ asked[task[t].id] # NoLeave
        /\ asked[task[t].id].type \in Tracked
    BY TaskFields DEF TypeInv, TypeOK, TasksKnow, Known, IdOps
  <1>2. -Length(asked[task[t].id]) \in Int
    BY <1>1, KeyOfType
  <1>. QED
    BY <1>1, <1>2, ChargedType DEF Dropped, TypeInv, TypeOK

(* What is read of a row that is pending. *)
LEMMA PendingIsAsked ==
  ASSUME TypeInv, NEW id \in LeaveIds, Pending(id)
  PROVE  asked[id] # NoLeave /\ leaves[id] \in Leave
  BY DEF TypeInv, TypeOK, AskedKept, Pending, NoLeave, Cancelled

LEMMA RequestTypeInv ==
  ASSUME TypeInv, NEW t \in Tasks, NEW m \in Members, NEW form \in Forms, Request(t, m, form)
  PROVE  TypeInv'
  <1> DEFINE w == [op |-> "create", member |-> m, form |-> form]
  <1>1. w \in TaskStates /\ Known(w)
    BY LeaveAssumption DEF TaskStates, Known, IdOps, BalanceOps
  <1>2. hasty' \in {hasty, hasty \cup {m}}
    BY DEF Request
  <1>. QED
    BY <1>1, <1>2, TypeInvOfTask DEF Request, TypeInv, TypeOK

LEMMA ReadTypeInv ==
  ASSUME TypeInv, NEW t \in Tasks, NEW id \in LeaveIds,
         CancelRead(t, id) \/ \E decision \in Decisions : DecideRead(t, id, decision)
  PROVE  TypeInv'
  <1>0. asked[id] # NoLeave
    BY PendingIsAsked DEF CancelRead, DecideRead
  <1>1. contested' \subseteq LeaveIds
    <2>1. contested' \in {contested, contested \cup {id}}
      BY DEF CancelRead, DecideRead, Contest
    <2>. QED
      BY <2>1 DEF TypeInv, TypeOK
  <1>2. CASE CancelRead(t, id)
    <2> DEFINE w == [op |-> "cancel", id |-> id]
    <2>1. w \in TaskStates /\ Known(w)
      BY <1>0 DEF TaskStates, Known, IdOps, BalanceOps
    <2>. QED
      BY <1>1, <1>2, <2>1, TypeInvOfTask DEF CancelRead, TypeInv, TypeOK
  <1>3. ASSUME NEW decision \in Decisions, DecideRead(t, id, decision) PROVE TypeInv'
    <2> DEFINE w == [op |-> "decide", id |-> id, decision |-> decision]
    <2>1. w \in TaskStates /\ Known(w)
      BY <1>0 DEF TaskStates, Known, IdOps, BalanceOps, DecisionOps
    <2>. QED
      BY <1>1, <1>3, <2>1, TypeInvOfTask DEF DecideRead, TypeInv, TypeOK
  <1>. QED
    BY <1>2, <1>3

LEMMA BalanceFlagTypeInv ==
  ASSUME TypeInv, NEW t \in Tasks, BalanceFlag(t)
  PROVE  TypeInv'
  <1> DEFINE w == [task[t] EXCEPT !.op = "balance"]
             id == task[t].id
  <1>1. CASE enabled
    <2>1. task[t] \in TaskStates /\ task[t].op = "flag"
      BY DEF TypeInv, TypeOK, BalanceFlag
    <2>2. task[t] \in [op : DecisionOps, id : LeaveIds, decision : Decisions]
      BY <2>1 DEF TaskStates, DecisionOps, Idle
    <2>3. w \in [op : DecisionOps, id : LeaveIds, decision : Decisions]
          /\ w.op = "balance" /\ w.id = id
      BY <2>2 DEF DecisionOps
    <2>4. Known(w)
      BY <2>1, <2>3 DEF TypeInv, TasksKnow, Known, IdOps, BalanceOps
    <2>5. Goes(t, w) /\ UNCHANGED due
      BY <1>1 DEF BalanceFlag
    <2> HIDE DEF w
    <2>. QED
      BY <2>3, <2>4, <2>5, TypeInvOfTask DEF BalanceFlag, TypeInv, TypeOK, TaskStates
  <1>2. CASE ~enabled
    <2>1. Goes(t, Idle) /\ due' \in [Keys -> [Tracked -> Int]]
      BY <1>2, DroppedType DEF BalanceFlag, BalanceOps
    <2>. QED
      BY <2>1, IdleKnown, TypeInvOfTask DEF BalanceFlag, TypeInv, TypeOK
  <1>. QED
    BY <1>1, <1>2

LEMMA BalanceFailTypeInv ==
  ASSUME TypeInv, NEW t \in Tasks, BalanceFail(t)
  PROVE  TypeInv'
  <1>1. Goes(t, Idle) /\ due' \in [Keys -> [Tracked -> Int]]
    BY DroppedType DEF BalanceFail, BalanceOps
  <1>. QED
    BY <1>1, IdleKnown, TypeInvOfTask DEF BalanceFail, TypeInv, TypeOK

LEMMA BalanceReadTypeInv ==
  ASSUME TypeInv, NEW t \in Tasks, BalanceRead(t)
  PROVE  TypeInv'
  <1> DEFINE id == task[t].id
             k == KeyOf(id)
             deduct == [op |-> "deduct", id |-> id, key |-> k]
             refund == [op |-> "refund", id |-> id, key |-> k,
                        seen |-> balances[k][asked[id].type]["used"]]
  <1>0. task[t] \in TaskStates /\ task[t].op = "balance" /\ Known(task[t])
    BY DEF TypeInv, TypeOK, BalanceRead, TasksKnow
  <1>1. id \in LeaveIds /\ asked[id] # NoLeave /\ asked[id].type \in Tracked
    BY <1>0, TaskFields DEF Known, IdOps, BalanceOps
  <1>2. CASE Gone(id) \/ balances[k] = NoBalance
    <2>1. Goes(t, Idle) /\ due' \in [Keys -> [Tracked -> Int]]
      BY <1>0, <1>2, DroppedType DEF BalanceRead, BalanceOps
    <2>. QED
      BY <2>1, IdleKnown, TypeInvOfTask DEF BalanceRead, TypeInv, TypeOK
  <1>3. CASE ~(Gone(id) \/ balances[k] = NoBalance)
    <2>1. k \in Keys /\ balances[k] \in Balance
      BY <1>1, <1>3, KeyOfType DEF TypeInv, TypeOK
    <2>2. balances[k][asked[id].type]["used"] \in Int
      BY <1>1, <2>1 DEF Balance, Bucket, Fields
    <2>3. deduct \in TaskStates /\ refund \in TaskStates
      BY <1>1, <2>1, <2>2 DEF TaskStates
    <2>4. Known(deduct) /\ Known(refund)
      BY <1>1, <1>3 DEF Known, IdOps, BalanceOps
    <2>5. (Goes(t, deduct) \/ Goes(t, refund)) /\ UNCHANGED due
      BY <1>3 DEF BalanceRead
    <2> HIDE DEF deduct, refund
    <2>. QED
      BY <2>3, <2>4, <2>5, TypeInvOfTask DEF BalanceRead, TypeInv, TypeOK
  <1>. QED
    BY <1>2, <1>3

LEMMA InitializeReadTypeInv ==
  ASSUME TypeInv, NEW t \in Tasks,
         InitializePrevious(t) \/ \E year \in Years : InitializeExisting(t, year)
  PROVE  TypeInv'
  <1>1. ASSUME NEW year \in Years, InitializeExisting(t, year) PROVE TypeInv'
    <2> DEFINE w == [op |-> "initialize", year |-> year,
                     todo |-> {m \in Members : balances[<<m, year>>] = NoBalance}]
    <2>1. w \in TaskStates /\ Known(w)
      BY DEF TaskStates, Known, IdOps, BalanceOps
    <2>. QED
      BY <1>1, <2>1, TypeInvOfTask DEF InitializeExisting, history, TypeInv, TypeOK
  <1>2. CASE InitializePrevious(t)
    <2> DEFINE year == task[t].year
               carried == [m \in Members |-> [y \in Tracked |-> Carried(m, year, y)]]
               w == [op |-> "insert", year |-> year, todo |-> task[t].todo, carried |-> carried]
    <2>1. year \in Years /\ task[t].todo \in SUBSET Members
      BY <1>2, TaskFields DEF InitializePrevious, TypeInv, TypeOK
    <2>2. ASSUME NEW m \in Members, NEW y \in Tracked PROVE Carried(m, year, y) \in Int
      <3> DEFINE k == <<m, year - 1>>
      <3>1. year # 1 => k \in Keys
        BY <2>1 DEF Keys, Years
      <3>2. year # 1 /\ balances[k] # NoBalance => balances[k] \in Balance
        BY <3>1 DEF TypeInv, TypeOK
      <3>3. year # 1 /\ balances[k] # NoBalance => CarryOver(y, balances[k][y]) \in Int
        BY <3>2, LeaveAssumption
           DEF Balance, Bucket, Fields, CarryOver, AtMost, AtLeast, Available
      <3>. QED
        BY <3>3 DEF Carried
    <2>3. carried \in [Members -> [Tracked -> Int]]
      BY <2>2
    <2>4. Goes(t, w)
      BY <1>2 DEF InitializePrevious
    <2> HIDE DEF carried, year
    <2>5. w \in TaskStates /\ Known(w)
      BY <2>1, <2>3 DEF TaskStates, Known, IdOps, BalanceOps
    <2> HIDE DEF w
    <2>. QED
      BY <1>2, <2>4, <2>5, TypeInvOfTask DEF InitializePrevious, history, TypeInv, TypeOK
  <1>. QED
    BY <1>1, <1>2

-----------------------------------------------------------------------------
(* The steps that write a leave or a balance. *)

LEMMA CreateTypeInv ==
  ASSUME TypeInv, NEW t \in Tasks, NEW id \in LeaveIds, Create(t, id)
  PROVE  TypeInv'
  <1> DEFINE w == task[t]
             row == [member |-> w.member, start |-> w.form.start, end |-> w.form.end,
                     type |-> w.form.type, status |-> "PENDING"]
  <1>1. w.member \in Members /\ w.form \in Form
    BY TaskFields DEF Create, TypeInv, TypeOK
  <1>2. row \in Leave /\ row.start <= row.end
    BY <1>1 DEF Leave, Form, Statuses
  <1>3. /\ leaves[id] = NoLeave /\ asked[id] = NoLeave
        /\ leaves' = [leaves EXCEPT ![id] = row]
        /\ asked' = [asked EXCEPT ![id] = row]
        /\ Goes(t, Idle)
        /\ UNCHANGED <<balances, enabled, granted, due, refunded, adjusted, hasty, contested>>
    BY DEF Create, TypeInv, AskedKept
  <1> HIDE DEF row
  <1>4. /\ leaves' \in [LeaveIds -> Leave \cup {NoLeave, Cancelled}]
        /\ asked' \in [LeaveIds -> Leave \cup {NoLeave}]
        /\ leaves'[id] = row /\ asked'[id] = row
        /\ \A j \in LeaveIds \ {id} : leaves'[j] = leaves[j] /\ asked'[j] = asked[j]
    BY <1>2, <1>3 DEF TypeInv, TypeOK
  <1>5. row # NoLeave
    BY <1>2, LeaveFields
  <1>6. task' \in [Tasks -> TaskStates] /\ TasksKnow'
    BY <1>3, <1>4, IdleKnown, TasksStayKnown
  <1>7. AskedKept'
    BY <1>2, <1>4, <1>5 DEF TypeInv, AskedKept
  <1>. QED
    BY <1>3, <1>4, <1>6, <1>7 DEF TypeInv, TypeOK

LEMMA CancelDeleteTypeInv ==
  ASSUME TypeInv, NEW t \in Tasks, CancelDelete(t)
  PROVE  TypeInv'
  <1> DEFINE id == task[t].id
  <1>1. id \in LeaveIds /\ asked[id] # NoLeave
    BY TaskFields DEF CancelDelete, TypeInv, TypeOK, TasksKnow, Known, IdOps
  <1>2. /\ leaves' = [leaves EXCEPT ![id] = Cancelled] /\ Goes(t, Idle)
        /\ UNCHANGED <<balances, enabled, history>>
    BY DEF CancelDelete
  <1>3. task' \in [Tasks -> TaskStates] /\ TasksKnow'
    BY <1>2, IdleKnown, TasksStayKnown DEF history
  <1>4. Cancelled # NoLeave
    BY DEF Cancelled, NoLeave
  <1> HIDE DEF id
  <1>5. /\ leaves' \in [LeaveIds -> Leave \cup {NoLeave, Cancelled}]
        /\ leaves'[id] = Cancelled /\ \A j \in LeaveIds \ {id} : leaves'[j] = leaves[j]
    BY <1>1, <1>2 DEF TypeInv, TypeOK
  <1>6. AskedKept'
    BY <1>1, <1>2, <1>4, <1>5 DEF TypeInv, AskedKept, history
  <1>. QED
    BY <1>2, <1>3, <1>5, <1>6 DEF TypeInv, TypeOK, history

(* The decision of a leave changes its status and nothing else of it. *)
LEMMA DecidedLeave ==
  ASSUME TypeInv, NEW t \in Tasks, DecideUpdate(t), ~Gone(task[t].id)
  PROVE  LET id == task[t].id IN
         /\ id \in LeaveIds /\ asked[id] # NoLeave /\ leaves[id] \in Leave
         /\ leaves' \in [LeaveIds -> Leave \cup {NoLeave, Cancelled}]
         /\ leaves'[id] = [leaves[id] EXCEPT !.status = task[t].decision]
         /\ \A j \in LeaveIds \ {id} : leaves'[j] = leaves[j]
         /\ task[t].decision \in Decisions
  <1> DEFINE id == task[t].id
             row == [leaves[id] EXCEPT !.status = task[t].decision]
  <1>1. id \in LeaveIds /\ asked[id] # NoLeave /\ task[t].decision \in Decisions
    BY TaskFields DEF DecideUpdate, TypeInv, TypeOK, TasksKnow, Known, IdOps, DecisionOps
  <1>2. leaves[id] \in Leave
    BY <1>1 DEF TypeInv, TypeOK, AskedKept, Gone
  <1>3. row \in Leave
    BY <1>1, <1>2 DEF Leave, Statuses, Decisions
  <1>4. leaves' = [leaves EXCEPT ![id] = row]
    BY DEF DecideUpdate
  <1> HIDE DEF id, row
  <1>5. /\ leaves' \in [LeaveIds -> Leave \cup {NoLeave, Cancelled}]
        /\ leaves'[id] = row /\ \A j \in LeaveIds \ {id} : leaves'[j] = leaves[j]
    BY <1>1, <1>3, <1>4 DEF TypeInv, TypeOK
  <1>. QED
    BY <1>1, <1>2, <1>5 DEF id, row

LEMMA DecideUpdateTypeInv ==
  ASSUME TypeInv, NEW t \in Tasks, DecideUpdate(t)
  PROVE  TypeInv'
  <1> DEFINE id == task[t].id
             tracked == asked[id].type \in Tracked
             w == [task[t] EXCEPT !.op = "flag"]
  <1>0. UNCHANGED <<balances, enabled, asked, refunded, adjusted, hasty, contested>>
    BY DEF DecideUpdate
  <1>1. CASE Gone(id)
    <2>1. Goes(t, Idle) /\ UNCHANGED <<leaves, granted, due>>
      BY <1>1 DEF DecideUpdate
    <2>. QED
      BY <1>0, <2>1, IdleKnown, TypeInvOfTask DEF TypeInv, TypeOK
  <1>2. CASE ~Gone(id)
    <2>1. /\ id \in LeaveIds /\ asked[id] # NoLeave /\ leaves[id] \in Leave
          /\ leaves' \in [LeaveIds -> Leave \cup {NoLeave, Cancelled}]
          /\ leaves'[id] = [leaves[id] EXCEPT !.status = task[t].decision]
          /\ \A j \in LeaveIds \ {id} : leaves'[j] = leaves[j]
          /\ task[t].decision \in Decisions
      BY <1>2, DecidedLeave
    <2>2. Goes(t, IF tracked THEN w ELSE Idle)
      BY <1>2 DEF DecideUpdate
    <2>3. task[t] \in TaskStates /\ task[t].op = "decide"
      BY DEF DecideUpdate, TypeInv, TypeOK
    <2>4. w \in [op : DecisionOps, id : LeaveIds, decision : Decisions] /\ w.op = "flag" /\ w.id = id
      BY <2>3 DEF TaskStates, DecisionOps, Idle
    <2>5. tracked => w \in TaskStates /\ Known(w)
      BY <2>1, <2>4 DEF TaskStates, Known, IdOps, BalanceOps
    <2>6. PICK v \in TaskStates : Known(v) /\ Goes(t, v)
      BY <2>2, <2>5, IdleKnown
    <2>7. task' \in [Tasks -> TaskStates] /\ TasksKnow'
      BY <1>0, <2>6, TasksStayKnown
    <2>8. granted' \subseteq LeaveIds
      BY <1>2, <2>1 DEF DecideUpdate, TypeInv, TypeOK
    <2>9. due' \in [Keys -> [Tracked -> Int]]
      <3>1. tracked => Charged(id, Length(asked[id])) \in [Keys -> [Tracked -> Int]]
        BY <2>1, KeyOfType, ChargedType
      <3>2. due' = due \/ (tracked /\ due' = Charged(id, Length(asked[id])))
        BY <1>2 DEF DecideUpdate
      <3>. QED
        BY <3>1, <3>2 DEF TypeInv, TypeOK
    <2>10. AskedKept'
      <3>1. /\ leaves'[id] \notin {NoLeave, Cancelled}
            /\ leaves'[id].member = leaves[id].member
            /\ leaves'[id].start = leaves[id].start
            /\ leaves'[id].end = leaves[id].end
            /\ leaves[id] \notin {NoLeave, Cancelled}
        BY <2>1 DEF Leave, NoLeave, Cancelled, Decisions
      <3> HIDE DEF id
      <3>. QED
        BY <1>0, <2>1, <3>1 DEF TypeInv, AskedKept
    <2>. QED
      BY <1>0, <2>1, <2>7, <2>8, <2>9, <2>10 DEF TypeInv, TypeOK
  <1>. QED
    BY <1>1, <1>2

(* One field of one type of an existing balance is written. *)
Writes(k, y, f, v) == balances' = [balances EXCEPT ![k][y][f] = v]

LEMMA FieldWritten ==
  ASSUME TypeInv, NEW k \in Keys, balances[k] # NoBalance, NEW y \in Tracked, NEW f \in Fields,
         NEW v \in Int, Writes(k, y, f, v)
  PROVE  /\ balances' \in [Keys -> Balance \cup {NoBalance}]
         /\ \A j \in Keys : balances[j] # NoBalance => balances'[j] # NoBalance
         /\ \A j \in Keys \ {k} : balances'[j] = balances[j]
         /\ \A z \in Tracked \ {y} : balances'[k][z] = balances[k][z]
         /\ balances'[k][y][f] = v
         /\ \A g \in Fields \ {f} : balances'[k][y][g] = balances[k][y][g]
  <1> DEFINE b == balances[k]
             bucket == [b[y] EXCEPT ![f] = v]
             new == [b EXCEPT ![y] = bucket]
  <1>1. b \in Balance
    BY DEF TypeInv, TypeOK
  <1>2. /\ bucket \in Bucket /\ bucket[f] = v
        /\ \A g \in Fields \ {f} : bucket[g] = b[y][g]
    BY <1>1 DEF Balance, Bucket
  <1>3. new \in Balance /\ new[y] = bucket /\ \A z \in Tracked \ {y} : new[z] = b[z]
    BY <1>1, <1>2 DEF Balance
  <1>4. new # NoBalance
    BY <1>3 DEF Balance, NoBalance
  <1>5. balances' = [balances EXCEPT ![k] = new]
    BY DEF Writes
  <1> HIDE DEF new, bucket
  <1>6. /\ balances' \in [Keys -> Balance \cup {NoBalance}]
        /\ balances'[k] = new /\ \A j \in Keys \ {k} : balances'[j] = balances[j]
    BY <1>3, <1>5 DEF TypeInv, TypeOK
  <1>. QED
    BY <1>2, <1>3, <1>4, <1>6

(* The update of a balance by a task: its key, its type and the new value. *)
LEMMA DaysUsedWritten ==
  ASSUME TypeInv, NEW t \in Tasks, Deduct(t) \/ Refund(t)
  PROVE  LET id == task[t].id
             k == task[t].key
             y == asked[id].type
         IN  /\ id \in LeaveIds /\ k \in Keys /\ y \in Tracked
             /\ asked[id] # NoLeave /\ balances[k] # NoBalance
             /\ balances[k][y]["used"] \in Int
             /\ \E v \in Int :
                  /\ Writes(k, y, "used", v)
                  /\ Deduct(t) => v = balances[k][y]["used"] + Length(asked[id])
                  /\ Refund(t) => v >= 0
  <1> DEFINE id == task[t].id
             k == task[t].key
             y == asked[id].type
             used == balances[k][y]["used"]
             days == Length(asked[id])
  <1>1. task[t] \in TaskStates /\ task[t].op \in {"deduct", "refund"} /\ Known(task[t])
    BY DEF Deduct, Refund, TypeInv, TypeOK, TasksKnow
  <1>2. /\ id \in LeaveIds /\ k \in Keys /\ y \in Tracked /\ asked[id] # NoLeave
        /\ balances[k] # NoBalance
    BY <1>1, TaskFields DEF Known, IdOps, BalanceOps
  <1>3. used \in Int
    BY <1>2 DEF TypeInv, TypeOK, Balance, Bucket, Fields
  <1>4. days \in Int
    BY <1>2, KeyOfType
  <1>5. CASE Deduct(t)
    <2> DEFINE v == used + days
    <2>1. v \in Int
      BY <1>3, <1>4
    <2>2. Writes(k, y, "used", v)
      BY <1>5 DEF Deduct, Writes
    <2>3. ~Refund(t)
      BY <1>5 DEF Deduct, Refund
    <2>. QED
      BY <1>2, <1>3, <2>1, <2>2, <2>3
  <1>6. CASE Refund(t)
    <2> DEFINE v == Refunded(task[t].seen, days)
    <2>1. task[t].seen \in Int
      BY <1>1, <1>6, TaskFields DEF Refund
    <2>2. v \in Int /\ v >= 0
      BY <1>4, <2>1 DEF Refunded, AtLeast
    <2>3. Writes(k, y, "used", v)
      BY <1>6 DEF Refund, Writes
    <2>4. ~Deduct(t)
      BY <1>6 DEF Deduct, Refund
    <2> HIDE DEF v
    <2>. QED
      BY <1>2, <1>3, <2>2, <2>3, <2>4
  <1>. QED
    BY <1>5, <1>6

LEMMA DaysUsedTypeInv ==
  ASSUME TypeInv, NEW t \in Tasks, Deduct(t) \/ Refund(t)
  PROVE  TypeInv'
  <1> DEFINE k == task[t].key
             y == asked[task[t].id].type
  <1>1. k \in Keys /\ y \in Tracked /\ balances[k] # NoBalance
    BY DaysUsedWritten
  <1>2. PICK v \in Int : Writes(k, y, "used", v)
    BY DaysUsedWritten
  <1>3. /\ balances' \in [Keys -> Balance \cup {NoBalance}]
        /\ \A j \in Keys : balances[j] # NoBalance => balances'[j] # NoBalance
    BY <1>1, <1>2, FieldWritten DEF Fields
  <1>4. /\ Goes(t, Idle)
        /\ UNCHANGED <<leaves, enabled, asked, granted, due, adjusted, hasty, contested>>
        /\ refunded' \in {refunded, refunded \cup {k}}
    BY DEF Deduct, Refund, history
  <1>5. task' \in [Tasks -> TaskStates] /\ TasksKnow'
    BY <1>3, <1>4, IdleKnown, TasksStayKnown
  <1>6. AskedKept'
    BY <1>4 DEF TypeInv, AskedKept
  <1> HIDE DEF k
  <1>. QED
    BY <1>1, <1>3, <1>4, <1>5, <1>6 DEF TypeInv, TypeOK

(* The insert gives a balance to members without one, or does nothing. *)
LEMMA Inserted ==
  ASSUME TypeInv, NEW t \in Tasks, InitializeInsert(t)
  PROVE  /\ task[t].carried \in [Members -> [Tracked -> Int]]
         /\ balances' \in [Keys -> Balance \cup {NoBalance}]
         /\ \A k \in Keys :
              \/ balances'[k] = balances[k]
              \/ /\ balances[k] = NoBalance
                 /\ balances'[k] = [y \in Tracked |->
                                      NewBucket(Entitlement[y], task[t].carried[k[1]][y])]
  <1> DEFINE w == task[t]
             new == {<<m, w.year>> : m \in w.todo}
             Row(k) == [y \in Tracked |-> NewBucket(Entitlement[y], w.carried[k[1]][y])]
  <1>1. w.carried \in [Members -> [Tracked -> Int]]
    BY TaskFields DEF InitializeInsert, TypeInv, TypeOK
  <1>2. ASSUME NEW k \in Keys PROVE Row(k) \in Balance
    <2>1. ASSUME NEW y \in Tracked PROVE NewBucket(Entitlement[y], w.carried[k[1]][y]) \in Bucket
      <3>1. Entitlement[y] \in Int /\ w.carried[k[1]][y] \in Int
        BY <1>1, LeaveAssumption DEF Keys
      <3>. QED
        BY <3>1 DEF NewBucket, Bucket, Fields
    <2>. QED
      BY <2>1 DEF Balance
  <1>3. balances' = IF UniqueViolation(new) THEN balances
                    ELSE [k \in Keys |-> IF k \in new THEN Row(k) ELSE balances[k]]
    BY DEF InitializeInsert
  <1>4. ~UniqueViolation(new) => \A k \in Keys : k \in new => balances[k] = NoBalance
    BY DEF UniqueViolation
  <1> HIDE DEF new, Row
  <1>5. balances' \in [Keys -> Balance \cup {NoBalance}]
    BY <1>2, <1>3 DEF TypeInv, TypeOK
  <1>6. \A k \in Keys : \/ balances'[k] = balances[k]
                        \/ balances[k] = NoBalance /\ balances'[k] = Row(k)
    BY <1>3, <1>4
  <1>. QED
    BY <1>1, <1>5, <1>6 DEF Row

LEMMA InitializeInsertTypeInv ==
  ASSUME TypeInv, NEW t \in Tasks, InitializeInsert(t)
  PROVE  TypeInv'
  <1>1. /\ balances' \in [Keys -> Balance \cup {NoBalance}]
        /\ \A k \in Keys : balances[k] # NoBalance => balances'[k] # NoBalance
    BY Inserted
  <1>2. Goes(t, Idle) /\ UNCHANGED <<leaves, enabled, history>>
    BY DEF InitializeInsert
  <1>3. task' \in [Tasks -> TaskStates] /\ TasksKnow'
    BY <1>1, <1>2, IdleKnown, TasksStayKnown DEF history
  <1>4. AskedKept'
    BY <1>2 DEF TypeInv, AskedKept, history
  <1>. QED
    BY <1>1, <1>2, <1>3, <1>4 DEF TypeInv, TypeOK, history

(* A step that no task takes. *)
LEMMA TasksStay ==
  ASSUME TypeInv, UNCHANGED <<task, asked>>,
         \A k \in Keys : balances[k] # NoBalance => balances'[k] # NoBalance
  PROVE  TasksKnow'
  <1>1. ASSUME NEW t \in Tasks PROVE Known(task[t])'
    <2>1. task[t] \in TaskStates /\ Known(task[t])
      BY DEF TypeInv, TypeOK, TasksKnow
    <2>2. task[t].op \in {"deduct", "refund"} => task[t].key \in Keys
      BY <2>1, TaskFields
    <2>. QED
      BY <2>1, <2>2 DEF Known, KeyOf
  <1>. QED
    BY <1>1 DEF TasksKnow

LEMMA AdjustTypeInv ==
  ASSUME TypeInv, NEW k \in Keys, NEW y \in Tracked, NEW a \in Adjustments, Adjust(k, y, a)
  PROVE  TypeInv'
  <1>1. a.field \in Fields /\ a.value \in Int
    BY LeaveAssumption DEF Fields
  <1>2. /\ balances[k] # NoBalance /\ Writes(k, y, a.field, a.value)
        /\ adjusted' = adjusted \cup {k}
        /\ UNCHANGED <<leaves, enabled, task, asked, granted, due, refunded, hasty, contested>>
    BY DEF Adjust, Writes
  <1>3. /\ balances' \in [Keys -> Balance \cup {NoBalance}]
        /\ \A j \in Keys : balances[j] # NoBalance => balances'[j] # NoBalance
    BY <1>1, <1>2, FieldWritten
  <1>4. TasksKnow'
    BY <1>2, <1>3, TasksStay
  <1>5. AskedKept'
    BY <1>2 DEF TypeInv, AskedKept
  <1>. QED
    BY <1>2, <1>3, <1>4, <1>5 DEF TypeInv, TypeOK

LEMMA LeaveTypeInvNext == TypeInv /\ [Next]_vars => TypeInv'
  <1> SUFFICES ASSUME TypeInv, [Next]_vars PROVE TypeInv'
    OBVIOUS
  <1>1. ASSUME NEW t \in Tasks, TaskStep(t) PROVE TypeInv'
    BY <1>1, RequestTypeInv, CreateTypeInv, ReadTypeInv, CancelDeleteTypeInv,
       DecideUpdateTypeInv, BalanceFlagTypeInv, BalanceReadTypeInv, DaysUsedTypeInv,
       BalanceFailTypeInv, InitializeReadTypeInv, InitializeInsertTypeInv DEF TaskStep
  <1>2. ASSUME NEW k \in Keys, NEW y \in Tracked, NEW a \in Adjustments, Adjust(k, y, a)
        PROVE  TypeInv'
    BY <1>2, AdjustTypeInv
  <1>3. CASE ToggleTracking \/ UNCHANGED vars
    <2>1. /\ UNCHANGED <<leaves, balances, task, asked, granted, due, refunded, adjusted, hasty,
                         contested>>
          /\ enabled' \in BOOLEAN
      BY <1>3 DEF ToggleTracking, vars, history, TypeInv, TypeOK
    <2>2. TasksKnow'
      BY <2>1, TasksStay
    <2>3. AskedKept'
      BY <2>1 DEF TypeInv, AskedKept
    <2>. QED
      BY <2>1, <2>2, <2>3 DEF TypeInv, TypeOK
  <1>. QED
    BY <1>1, <1>2, <1>3 DEF Next

LEMMA LeaveTypeInvAlways == Spec => []TypeInv
  BY LeaveTypeInvInit, LeaveTypeInvNext, PTL DEF Spec

(* Every reachable state is well typed; with it, a leave keeps the member  *)
(* and the dates it was asked for, and every task in progress works on a   *)
(* leave that was created and, past its reads, on a balance that exists.   *)
THEOREM LeaveTypeOK == Spec => []TypeOK
  <1>1. TypeInv => TypeOK
    BY DEF TypeInv
  <1>. QED
    BY <1>1, LeaveTypeInvAlways, PTL

-----------------------------------------------------------------------------
(* Overlaps and decisions. NoOverlap needs that a request on its way to    *)
(* its creation still overlaps nothing, and that a leave which a decision  *)
(* has read is still pending: both are lost when a second request of the   *)
(* member, or a second decision on the leave, reads before the first one   *)
(* writes.                                                                 *)
OneRequest ==
  \A m \in Members \ hasty : \A t, u \in Tasks :
    (/\ task[t].op = "create" /\ task[t].member = m
     /\ task[u].op = "create" /\ task[u].member = m) => t = u

FormsFree ==
  \A m \in Members \ hasty : \A t \in Tasks :
    task[t].op = "create" /\ task[t].member = m =>
      \A id \in LeavesOf(m) \ contested :
        Live(leaves[id]) => ~Overlap(leaves[id], task[t].form)

Deciders == {"cancel", "decide"}

OneDecider ==
  \A id \in LeaveIds \ contested : \A t, u \in Tasks :
    (/\ task[t].op \in Deciders /\ task[t].id = id
     /\ task[u].op \in Deciders /\ task[u].id = id) => t = u /\ Pending(id)

SlotInv == NoOverlap /\ OneRequest /\ FormsFree /\ OneDecider

(* A step under which no uncontested leave becomes live or moves.          *)
Shrinks ==
  \A id \in LeaveIds \ contested :
    \/ leaves'[id] = leaves[id]
    \/ ~Live(leaves'[id])
    \/ /\ Live(leaves[id]) /\ id \in LeavesOf(leaves[id].member)
       /\ leaves'[id].member = leaves[id].member
       /\ leaves'[id].start = leaves[id].start
       /\ leaves'[id].end = leaves[id].end

LEMMA NotLive == ~Live(NoLeave) /\ ~Live(Cancelled)
  BY DEF Live, NoLeave, Cancelled

(* Under such a step the members' leaves stay apart, from each other and   *)
(* from the requests there were.                                           *)
LEMMA ShrinksKeepsApart ==
  ASSUME SlotInv, Shrinks, hasty \subseteq hasty', contested \subseteq contested',
         \A t \in Tasks : task'[t].op = "create" => task'[t] = task[t]
  PROVE  NoOverlap' /\ OneRequest' /\ FormsFree'
  <1>1. ASSUME NEW m \in Members, NEW id \in LeaveIds \ contested', id \in LeavesOf(m)',
               Live(leaves'[id])
        PROVE  /\ id \in LeavesOf(m) \ contested /\ Live(leaves[id])
               /\ leaves'[id].start = leaves[id].start /\ leaves'[id].end = leaves[id].end
    BY <1>1 DEF Shrinks, LeavesOf
  <1>2. NoOverlap'
    <2> SUFFICES ASSUME NEW m \in Members \ hasty', NEW a \in LeavesOf(m)' \ contested',
                        NEW b \in LeavesOf(m)' \ contested', Live(leaves'[a]), Live(leaves'[b]),
                        Overlap(leaves'[a], leaves'[b])
                 PROVE  a = b
      BY DEF NoOverlap, Live, Overlap
    <2>1. a \in LeaveIds /\ b \in LeaveIds
      BY DEF LeavesOf
    <2>. QED
      BY <1>1, <2>1 DEF SlotInv, NoOverlap, Overlap
  <1>3. OneRequest'
    BY DEF SlotInv, OneRequest
  <1>4. FormsFree'
    <2> SUFFICES ASSUME NEW m \in Members \ hasty', NEW t \in Tasks, task'[t].op = "create",
                        task'[t].member = m, NEW id \in LeavesOf(m)' \ contested',
                        Live(leaves'[id])
                 PROVE  ~Overlap(leaves'[id], task'[t].form)
      BY DEF FormsFree, Live, Overlap
    <2>1. id \in LeaveIds
      BY DEF LeavesOf
    <2>2. task'[t] = task[t] /\ m \in Members \ hasty
      OBVIOUS
    <2>3. /\ id \in LeavesOf(m) \ contested /\ Live(leaves[id])
          /\ leaves'[id].start = leaves[id].start /\ leaves'[id].end = leaves[id].end
      BY <1>1, <2>1
    <2>4. ~Overlap(leaves[id], task[t].form)
      BY <2>2, <2>3 DEF SlotInv, FormsFree
    <2>. QED
      BY <2>2, <2>3, <2>4 DEF Overlap
  <1>. QED
    BY <1>2, <1>3, <1>4

(* Between two writes the decisions on a leave are those there were. *)
LEMMA DecidersStay ==
  ASSUME SlotInv, contested \subseteq contested',
         \A t \in Tasks : task'[t].op \in Deciders => task'[t] = task[t],
         \A id \in LeaveIds \ contested :
           leaves'[id] = leaves[id]
             \/ (~\E t \in Tasks : task'[t].op \in Deciders /\ task'[t].id = id)
  PROVE  OneDecider'
  BY DEF SlotInv, OneDecider, Pending

(* A step of a task that neither starts nor ends a request or a decision.  *)
LEMMA QuietStep ==
  ASSUME TypeInv, SlotInv, UNCHANGED <<leaves, hasty, contested>>, NEW t \in Tasks, NEW w,
         Goes(t, w), w.op \notin Deciders \cup {"create"}
  PROVE  SlotInv'
  <1>1. \A u \in Tasks : task'[u] \in {task[u], w}
    BY DEF TypeInv, TypeOK, Goes
  <1>2. /\ \A u \in Tasks : task'[u].op = "create" => task'[u] = task[u]
        /\ \A u \in Tasks : task'[u].op \in Deciders => task'[u] = task[u]
    BY <1>1
  <1>3. Shrinks
    BY DEF Shrinks
  <1>4. OneDecider'
    BY <1>2, DecidersStay
  <1>. QED
    BY <1>2, <1>3, <1>4, ShrinksKeepsApart DEF SlotInv

LEMMA RequestSlots ==
  ASSUME TypeInv, SlotInv, NEW t \in Tasks, NEW m \in Members, NEW form \in Forms,
         Request(t, m, form)
  PROVE  SlotInv'
  <1> DEFINE w == [op |-> "create", member |-> m, form |-> form]
  <1>0. /\ task[t] = Idle /\ Overlapping(m, form) = {}
        /\ UNCHANGED <<leaves, contested>>
        /\ hasty \subseteq hasty'
        /\ (\E u \in Doing({"create"}) : task[u].member = m) => m \in hasty'
    BY DEF Request
  <1>1. task'[t] = w /\ \A u \in Tasks \ {t} : task'[u] = task[u]
    BY DEF Request, Goes, TypeInv, TypeOK
  <1>2. NoOverlap'
    BY <1>0 DEF SlotInv, NoOverlap, LeavesOf
  <1>3. OneRequest'
    <2>1. \A u \in Tasks \ {t} : task[u].op = "create" /\ task[u].member = m => m \in hasty'
      BY <1>0 DEF Doing
    <2>. QED
      BY <1>0, <1>1, <2>1 DEF SlotInv, OneRequest
  <1>4. FormsFree'
    <2>1. \A id \in LeavesOf(m) : Live(leaves[id]) => ~Overlap(leaves[id], form)
      BY <1>0 DEF Overlapping
    <2>2. LeavesOf(m)' = LeavesOf(m) /\ \A k \in Members : LeavesOf(k)' = LeavesOf(k)
      BY <1>0 DEF LeavesOf
    <2>. QED
      BY <1>0, <1>1, <2>1, <2>2 DEF SlotInv, FormsFree
  <1>5. OneDecider'
    BY <1>0, <1>1 DEF SlotInv, OneDecider, Deciders, Pending
  <1>. QED
    BY <1>2, <1>3, <1>4, <1>5 DEF SlotInv

LEMMA ReadSlots ==
  ASSUME TypeInv, SlotInv, NEW t \in Tasks, NEW id \in LeaveIds,
         CancelRead(t, id) \/ \E decision \in Decisions : DecideRead(t, id, decision)
  PROVE  SlotInv'
  <1>0. /\ task[t] = Idle /\ Pending(id) /\ Contest(id) /\ UNCHANGED <<leaves, hasty>>
    BY DEF CancelRead, DecideRead
  <1>1. PICK w : Goes(t, w) /\ w.op \in Deciders /\ w.id = id
    <2>1. CASE CancelRead(t, id)
      BY <2>1 DEF CancelRead, Deciders
    <2>2. ASSUME NEW decision \in Decisions, DecideRead(t, id, decision)
          PROVE  \E w : Goes(t, w) /\ w.op \in Deciders /\ w.id = id
      <3> DEFINE w == [op |-> "decide", id |-> id, decision |-> decision]
      <3>1. Goes(t, w) /\ w.op \in Deciders /\ w.id = id
        BY <2>2 DEF DecideRead, Deciders
      <3>. QED
        BY <3>1
    <2>. QED
      BY <2>1, <2>2
  <1>2. task'[t] = w /\ \A u \in Tasks \ {t} : task'[u] = task[u]
    BY <1>1 DEF Goes, TypeInv, TypeOK
  <1>3. /\ contested \subseteq contested'
        /\ (\E u \in Tasks : task[u].op \in Deciders /\ task[u].id = id) => id \in contested'
    BY <1>0 DEF Contest, Doing, Deciders
  <1>4. OneDecider'
    BY <1>0, <1>1, <1>2, <1>3 DEF SlotInv, OneDecider, Pending
  <1>5. Shrinks /\ \A u \in Tasks : task'[u].op = "create" => task'[u] = task[u]
    BY <1>0, <1>1, <1>2 DEF Shrinks, Deciders
  <1>. QED
    BY <1>0, <1>3, <1>4, <1>5, ShrinksKeepsApart DEF SlotInv

LEMMA CreateSlots ==
  ASSUME TypeInv, SlotInv, NEW t \in Tasks, NEW id \in LeaveIds, Create(t, id)
  PROVE  SlotInv'
  <1> DEFINE m == task[t].member
             form == task[t].form
             row == [member |-> m, start |-> form.start, end |-> form.end,
                     type |-> form.type, status |-> "PENDING"]
  <1>0. /\ task[t].op = "create" /\ leaves[id] = NoLeave
        /\ leaves' = [leaves EXCEPT ![id] = row]
        /\ Goes(t, Idle) /\ UNCHANGED <<hasty, contested>>
    BY DEF Create
  <1>1. /\ row.member = m /\ row.start = form.start /\ row.end = form.end
        /\ m \in Members
    BY <1>0, TaskFields DEF TypeInv, TypeOK
  <1> HIDE DEF row
  <1>2. /\ leaves'[id] = row /\ \A j \in LeaveIds \ {id} : leaves'[j] = leaves[j]
        /\ task'[t] = Idle /\ \A u \in Tasks \ {t} : task'[u] = task[u]
    BY <1>0 DEF Goes, TypeInv, TypeOK
  <1>3. ASSUME NEW k \in Members PROVE LeavesOf(k)' \subseteq IF k = m THEN LeavesOf(k) \cup {id} ELSE LeavesOf(k)
    BY <1>1, <1>2 DEF LeavesOf
  <1>4. m \notin hasty => \A a \in LeavesOf(m) \ contested :
                            Live(leaves[a]) => ~Overlap(leaves[a], form)
    BY <1>0, <1>1 DEF SlotInv, FormsFree
  <1>5. \A a : Overlap(row, a) => Overlap(a, form)
    BY <1>1 DEF Overlap
  <1>6. \A a : Overlap(a, row) => Overlap(a, form)
    BY <1>1 DEF Overlap
  <1>7. NoOverlap'
    <2> SUFFICES ASSUME NEW k \in Members \ hasty, NEW a \in LeavesOf(k)' \ contested,
                        NEW b \in LeavesOf(k)' \ contested, Live(leaves'[a]), Live(leaves'[b]),
                        Overlap(leaves'[a], leaves'[b])
                 PROVE  a = b
      BY <1>0 DEF NoOverlap, Live, Overlap
    <2>1. a \in LeaveIds /\ b \in LeaveIds
      BY DEF LeavesOf
    <2>2. CASE a # id /\ b # id
      <3>1. /\ a \in LeavesOf(k) /\ b \in LeavesOf(k)
            /\ leaves'[a] = leaves[a] /\ leaves'[b] = leaves[b]
        BY <1>2, <1>3, <2>1, <2>2
      <3>. QED
        BY <3>1 DEF SlotInv, NoOverlap
    <2>3. CASE a = id /\ b # id
      <3>1. k = m /\ b \in LeavesOf(m) /\ leaves'[b] = leaves[b] /\ leaves'[a] = row
        BY <1>0, <1>1, <1>2, <1>3, <2>1, <2>3 DEF LeavesOf
      <3>2. Overlap(leaves[b], form)
        BY <1>5, <3>1
      <3>. QED
        BY <1>4, <3>1, <3>2
    <2>4. CASE a # id /\ b = id
      <3>1. k = m /\ a \in LeavesOf(m) /\ leaves'[a] = leaves[a] /\ leaves'[b] = row
        BY <1>0, <1>1, <1>2, <1>3, <2>1, <2>4 DEF LeavesOf
      <3>2. Overlap(leaves[a], form)
        BY <1>6, <3>1
      <3>. QED
        BY <1>4, <3>1, <3>2
    <2>. QED
      BY <2>2, <2>3, <2>4
  <1>8. Idle.op \notin Deciders \cup {"create"}
    BY DEF Idle, Deciders
  <1>9. OneRequest'
    BY <1>0, <1>2, <1>8 DEF SlotInv, OneRequest
  <1>10. FormsFree'
    <2> SUFFICES ASSUME NEW k \in Members \ hasty, NEW u \in Tasks, task'[u].op = "create",
                        task'[u].member = k, NEW a \in LeavesOf(k)' \ contested,
                        Live(leaves'[a])
                 PROVE  ~Overlap(leaves'[a], task'[u].form)
      BY <1>0 DEF FormsFree, Live, Overlap
    <2>1. u # t /\ task'[u] = task[u]
      BY <1>2, <1>8
    <2>2. k # m
      BY <1>0, <2>1 DEF SlotInv, OneRequest
    <2>3. a \in LeavesOf(k) /\ a # id
      BY <1>0, <1>3, <2>2 DEF LeavesOf
    <2>4. leaves'[a] = leaves[a]
      BY <1>2, <2>3 DEF LeavesOf
    <2>. QED
      BY <2>1, <2>3, <2>4 DEF SlotInv, FormsFree
  <1>11. OneDecider'
    <2>1. asked[id] = NoLeave
      BY <1>0 DEF TypeInv, AskedKept
    <2>2. \A u \in Tasks : task[u].op \in Deciders => task[u].id # id
      BY <2>1 DEF TypeInv, TasksKnow, Known, IdOps, Deciders
    <2>3. \A u \in Tasks : task'[u].op \in Deciders => task'[u] = task[u]
      BY <1>2, <1>8
    <2>. QED
      BY <1>0, <1>2, <2>2, <2>3, DecidersStay
  <1>. QED
    BY <1>7, <1>9, <1>10, <1>11 DEF SlotInv

(* A decision or a cancellation writes a leave no other has read. *)
LEMMA DecisionSlots ==
  ASSUME TypeInv, SlotInv, NEW t \in Tasks, CancelDelete(t) \/ DecideUpdate(t)
  PROVE  /\ SlotInv'
         /\ \A id \in LeaveIds \ contested : leaves'[id] = leaves[id] \/ Pending(id)
  <1> DEFINE id == task[t].id
  <1>0. /\ task[t].op \in Deciders /\ UNCHANGED <<hasty, contested>>
    BY DEF CancelDelete, DecideUpdate, Deciders, history
  <1>1. id \in LeaveIds
    BY <1>0, TaskFields DEF TypeInv, TypeOK, IdOps, Deciders
  <1>2. \/ leaves'[id] = leaves[id]
        \/ ~Live(leaves'[id])
        \/ /\ leaves[id] \in Leave
           /\ leaves'[id].member = leaves[id].member
           /\ leaves'[id].start = leaves[id].start /\ leaves'[id].end = leaves[id].end
    <2>1. CASE CancelDelete(t)
      <3>1. leaves'[id] = Cancelled
        BY <1>1, <2>1 DEF CancelDelete, TypeInv, TypeOK
      <3>. QED
        BY <3>1, NotLive
    <2>2. CASE DecideUpdate(t) /\ Gone(id)
      BY <2>2 DEF DecideUpdate
    <2>3. CASE DecideUpdate(t) /\ ~Gone(id)
      <3>1. leaves[id] \in Leave /\ leaves'[id] = [leaves[id] EXCEPT !.status = task[t].decision]
        BY <2>3, DecidedLeave
      <3> HIDE DEF id
      <3>2. /\ leaves'[id].member = leaves[id].member
            /\ leaves'[id].start = leaves[id].start /\ leaves'[id].end = leaves[id].end
        BY <3>1 DEF Leave
      <3>. QED
        BY <3>1, <3>2
    <2>. QED
      BY <2>1, <2>2, <2>3
  <1>3. \A j \in LeaveIds \ {id} : leaves'[j] = leaves[j]
    <2>1. leaves' = leaves \/ \E v : leaves' = [leaves EXCEPT ![id] = v]
      <3>1. CASE CancelDelete(t)
        BY <3>1 DEF CancelDelete
      <3>2. CASE DecideUpdate(t) /\ Gone(id)
        BY <3>2 DEF DecideUpdate
      <3>3. CASE DecideUpdate(t) /\ ~Gone(id)
        <4> DEFINE v == [leaves[id] EXCEPT !.status = task[t].decision]
        <4>1. leaves' = [leaves EXCEPT ![id] = v]
          BY <3>3 DEF DecideUpdate
        <4>. QED
          BY <4>1
      <3>. QED
        BY <3>1, <3>2, <3>3
    <2>. QED
      BY <2>1 DEF TypeInv, TypeOK
  <1>4. id \notin contested => Pending(id)
    BY <1>0, <1>1 DEF SlotInv, OneDecider
  <1>5. Shrinks
    <2>1. Pending(id) => Live(leaves[id])
      BY DEF Pending, Live
    <2>2. leaves[id] \in Leave => id \in LeavesOf(leaves[id].member)
      BY <1>1, LeaveFields DEF LeavesOf
    <2> HIDE DEF id
    <2>. QED
      BY <1>2, <1>3, <1>4, <2>1, <2>2 DEF Shrinks
  <1>6. PICK w : Goes(t, w) /\ w.op \notin Deciders \cup {"create"}
    <2>1. Idle.op \notin Deciders \cup {"create"}
      BY DEF Idle, Deciders
    <2>2. task[t].op = "decide" => [task[t] EXCEPT !.op = "flag"].op = "flag"
      BY DEF TypeInv, TypeOK, TaskStates, Idle
    <2>3. \/ Goes(t, Idle)
          \/ task[t].op = "decide" /\ Goes(t, [task[t] EXCEPT !.op = "flag"])
      BY DEF CancelDelete, DecideUpdate
    <2>4. "flag" \notin Deciders \cup {"create"}
      BY DEF Deciders
    <2> DEFINE flag == [task[t] EXCEPT !.op = "flag"]
    <2> HIDE DEF flag
    <2>5. Goes(t, Idle) \/ (Goes(t, flag) /\ flag.op = "flag")
      BY <2>2, <2>3 DEF flag
    <2>. QED
      BY <2>1, <2>4, <2>5
  <1>7. /\ \A u \in Tasks : task'[u].op \in Deciders \cup {"create"} => u # t /\ task'[u] = task[u]
    BY <1>6 DEF Goes, TypeInv, TypeOK
  <1>8. OneDecider'
    <2>1. id \notin contested => ~\E u \in Tasks : task'[u].op \in Deciders /\ task'[u].id = id
      BY <1>0, <1>1, <1>7 DEF SlotInv, OneDecider
    <2>2. \A u \in Tasks : task'[u].op \in Deciders => task'[u] = task[u]
      BY <1>7
    <2> HIDE DEF id
    <2>. QED
      BY <1>0, <1>3, <2>1, <2>2, DecidersStay
  <1>9. NoOverlap' /\ OneRequest' /\ FormsFree'
    BY <1>0, <1>5, <1>7, ShrinksKeepsApart
  <1>. QED
    BY <1>3, <1>4, <1>8, <1>9 DEF SlotInv

LEMMA SlotInvInit == Init => SlotInv
  BY DEF Init, SlotInv, NoOverlap, OneRequest, FormsFree, OneDecider, LeavesOf, Idle, Deciders

(* Every other step of a task is quiet. *)
LEMMA QuietSteps ==
  ASSUME TypeInv, NEW t \in Tasks,
         \/ BalanceFlag(t) \/ BalanceRead(t) \/ Deduct(t) \/ Refund(t) \/ BalanceFail(t)
         \/ InitializePrevious(t) \/ InitializeInsert(t)
         \/ \E year \in Years : InitializeExisting(t, year)
  PROVE  /\ UNCHANGED <<leaves, hasty, contested>>
         /\ \E w : Goes(t, w) /\ w.op \notin Deciders \cup {"create"}
  <1>1. UNCHANGED <<leaves, hasty, contested>>
    BY DEF BalanceFlag, BalanceRead, Deduct, Refund, BalanceFail, InitializePrevious,
       InitializeInsert, InitializeExisting, history
  <1>2. Idle.op \notin Deciders \cup {"create"}
    BY DEF Idle, Deciders
  <1>3. CASE Deduct(t) \/ Refund(t) \/ BalanceFail(t) \/ InitializeInsert(t)
    BY <1>1, <1>2, <1>3 DEF Deduct, Refund, BalanceFail, InitializeInsert, Dropped
  <1>4. CASE BalanceFlag(t)
    <2>1. task[t].op = "flag" => [task[t] EXCEPT !.op = "balance"].op = "balance"
      BY DEF TypeInv, TypeOK, TaskStates, Idle
    <2> DEFINE w == [task[t] EXCEPT !.op = "balance"]
    <2>2. task[t].op = "flag" /\ (Goes(t, w) \/ Goes(t, Idle))
      BY <1>4 DEF BalanceFlag, Dropped
    <2>3. w.op = "balance" /\ "balance" \notin Deciders \cup {"create"}
      BY <2>1, <2>2 DEF Deciders
    <2> HIDE DEF w
    <2>. QED
      BY <1>1, <1>2, <2>2, <2>3
  <1>5. CASE BalanceRead(t)
    <2> DEFINE id == task[t].id
               deduct == [op |-> "deduct", id |-> id, key |-> KeyOf(id)]
               refund == [op |-> "refund", id |-> id, key |-> KeyOf(id),
                          seen |-> balances[KeyOf(id)][asked[id].type]["used"]]
    <2>1. Goes(t, Idle) \/ Goes(t, deduct) \/ Goes(t, refund)
      BY <1>5 DEF BalanceRead, Dropped
    <2>2. /\ deduct.op \notin Deciders \cup {"create"}
          /\ refund.op \notin Deciders \cup {"create"}
      BY DEF Deciders
    <2> HIDE DEF deduct, refund
    <2>. QED
      BY <1>1, <1>2, <2>1, <2>2
  <1>6. ASSUME NEW year \in Years, InitializeExisting(t, year)
        PROVE  \E w : Goes(t, w) /\ w.op \notin Deciders \cup {"create"}
    <2> DEFINE w == [op |-> "initialize", year |-> year,
                     todo |-> {m \in Members : balances[<<m, year>>] = NoBalance}]
    <2>1. Goes(t, w) /\ w.op \notin Deciders \cup {"create"}
      BY <1>6 DEF InitializeExisting, Deciders
    <2>. QED
      BY <2>1
  <1>7. ASSUME InitializePrevious(t)
        PROVE  \E w : Goes(t, w) /\ w.op \notin Deciders \cup {"create"}
    <2> DEFINE w == [op |-> "insert", year |-> task[t].year, todo |-> task[t].todo,
                     carried |-> [m \in Members |->
                                    [y \in Tracked |-> Carried(m, task[t].year, y)]]]
    <2>1. Goes(t, w) /\ w.op \notin Deciders \cup {"create"}
      BY <1>7 DEF InitializePrevious, Deciders
    <2>. QED
      BY <2>1
  <1>. QED
    BY <1>1, <1>3, <1>4, <1>5, <1>6, <1>7

LEMMA SlotInvNext == TypeInv /\ SlotInv /\ [Next]_vars => SlotInv'
  <1> SUFFICES ASSUME TypeInv, SlotInv, [Next]_vars PROVE SlotInv'
    OBVIOUS
  <1>1. ASSUME NEW t \in Tasks, TaskStep(t) PROVE SlotInv'
    BY <1>1, RequestSlots, CreateSlots, ReadSlots, DecisionSlots, QuietSteps, QuietStep
       DEF TaskStep
  <1>2. CASE UNCHANGED <<leaves, task, hasty, contested>>
    <2>1. Shrinks
      BY <1>2 DEF Shrinks
    <2>2. OneDecider'
      BY <1>2, DecidersStay
    <2>. QED
      BY <1>2, <2>1, <2>2, ShrinksKeepsApart DEF SlotInv
  <1>. QED
    BY <1>1, <1>2 DEF Next, Adjust, ToggleTracking, history, vars

LEMMA SlotInvAlways == Spec => [](TypeInv /\ SlotInv)
  <1>1. TypeInv /\ SlotInv /\ [Next]_vars => (TypeInv /\ SlotInv)'
    BY LeaveTypeInvNext, SlotInvNext
  <1>. QED
    BY <1>1, LeaveTypeInvInit, SlotInvInit, PTL DEF Spec

(* Two live leaves of a member never overlap, whatever is asked, decided   *)
(* and cancelled between the look and the creation of a request, unless    *)
(* two requests of the member or two decisions on a leave crossed.         *)
THEOREM LeaveNoOverlap == Spec => []NoOverlap
  <1>1. SlotInv => NoOverlap
    BY DEF SlotInv
  <1>. QED
    BY <1>1, SlotInvAlways, PTL

(* A decided leave is never decided again nor deleted, unless a second     *)
(* decision or a cancellation had read it while it was pending.            *)
THEOREM LeaveDecisionFinal == Spec => DecisionFinal
  <1> DEFINE Final == \A id \in LeaveIds \ contested :
                        leaves[id].status \in Decisions => leaves'[id] = leaves[id]
  <1>1. ASSUME TypeInv, SlotInv, NEW t \in Tasks, TaskStep(t) PROVE Final
    <2>1. CASE UNCHANGED leaves
      BY <2>1
    <2>2. CASE CancelDelete(t) \/ DecideUpdate(t)
      <3>1. \A id \in LeaveIds \ contested : leaves'[id] = leaves[id] \/ Pending(id)
        BY <1>1, <2>2, DecisionSlots
      <3>. QED
        BY <3>1 DEF Pending, Decisions
    <2>3. ASSUME NEW id \in LeaveIds, Create(t, id) PROVE Final
      <3>1. leaves[id].status \notin Decisions
        BY <2>3 DEF Create, NoLeave, Decisions
      <3>2. \A j \in LeaveIds \ {id} : leaves'[j] = leaves[j]
        BY <2>3 DEF Create, TypeInv, TypeOK
      <3>. QED
        BY <3>1, <3>2
    <2>. QED
      BY <1>1, <2>1, <2>2, <2>3, QuietSteps DEF TaskStep, Request, CancelRead, DecideRead
  <1>2. TypeInv /\ SlotInv /\ [Next]_vars => [Final]_vars
    BY <1>1 DEF Next, Adjust, ToggleTracking, vars
  <1>. QED
    BY <1>2, SlotInvAlways, PTL DEF Spec, DecisionFinal

-----------------------------------------------------------------------------
(* Balances. BalanceSane needs that what an initialisation carries over to *)
(* the next year, computed one statement before its insert, is capped.     *)
WithinCap(y, entitlement, carried) ==
  carried >= 0 /\ (carried = 0 \/ entitlement + carried <= Cap[y])

Sane(y, b) == WithinCap(y, b["entitlement"], b["carriedOver"]) /\ b["used"] >= 0

InsertSane(w) ==
  w.op = "insert" =>
    \A m \in Members, y \in Tracked : WithinCap(y, Entitlement[y], w.carried[m][y])

SaneInv ==
  /\ \A k \in Keys \ adjusted : balances[k] # NoBalance => \A y \in Tracked : Sane(y, balances[k][y])
  /\ \A t \in Tasks : InsertSane(task[t])

(* What a year carries over never exceeds the room the entitlement leaves  *)
(* under the cap, and is never a debt.                                     *)
LEMMA CarryOverWithinCap ==
  ASSUME NEW y \in Tracked, NEW b \in Bucket
  PROVE  WithinCap(y, Entitlement[y], CarryOver(y, b))
  <1>1. Entitlement[y] \in Int /\ Cap[y] \in Int /\ Available(b) \in Int
    BY LeaveAssumption DEF Available, Bucket, Fields
  <1>. QED
    BY <1>1 DEF WithinCap, CarryOver, AtMost, AtLeast

LEMMA CarriedWithinCap ==
  ASSUME TypeInv, NEW m \in Members, NEW year \in Years, NEW y \in Tracked
  PROVE  WithinCap(y, Entitlement[y], Carried(m, year, y))
  <1> DEFINE k == <<m, year - 1>>
  <1>1. year # 1 => k \in Keys
    BY DEF Keys, Years
  <1>2. year # 1 /\ balances[k] # NoBalance => balances[k][y] \in Bucket
    BY <1>1 DEF TypeInv, TypeOK, Balance
  <1>3. WithinCap(y, Entitlement[y], 0)
    BY DEF WithinCap
  <1>4. Carried(m, year, y) = IF year = 1 \/ balances[k] = NoBalance THEN 0
                              ELSE CarryOver(y, balances[k][y])
    BY DEF Carried
  <1> HIDE DEF k
  <1>. QED
    BY <1>2, <1>3, <1>4, CarryOverWithinCap

(* A step in which no task prepares an insert. *)
LEMMA InsertsStaySane ==
  ASSUME TypeInv, SaneInv, NEW t \in Tasks, NEW w, Goes(t, w), InsertSane(w)
  PROVE  \A u \in Tasks : InsertSane(task[u])'
  <1>1. \A u \in Tasks : task'[u] \in {task[u], w}
    BY DEF TypeInv, TypeOK, Goes
  <1>. QED
    BY <1>1 DEF SaneInv, InsertSane

LEMMA DaysUsedSane ==
  ASSUME TypeInv, SaneInv, NEW t \in Tasks, Deduct(t) \/ Refund(t)
  PROVE  SaneInv'
  <1> DEFINE id == task[t].id
             k == task[t].key
             y == asked[id].type
             used == balances[k][y]["used"]
  <1>1. /\ id \in LeaveIds /\ k \in Keys /\ y \in Tracked
        /\ asked[id] # NoLeave /\ balances[k] # NoBalance /\ used \in Int
    BY DaysUsedWritten
  <1>2. PICK v \in Int : /\ Writes(k, y, "used", v)
                         /\ Deduct(t) => v = used + Length(asked[id])
                         /\ Refund(t) => v >= 0
    BY DaysUsedWritten
  <1>3. /\ \A j \in Keys \ {k} : balances'[j] = balances[j]
        /\ \A z \in Tracked \ {y} : balances'[k][z] = balances[k][z]
        /\ balances'[k][y]["used"] = v
        /\ \A g \in Fields \ {"used"} : balances'[k][y][g] = balances[k][y][g]
    <2>1. "used" \in Fields
      BY DEF Fields
    <2> HIDE DEF k, y, id, used
    <2>. QED
      BY <1>1, <1>2, <2>1, FieldWritten
  <1>4. Length(asked[id]) \in Int /\ Length(asked[id]) > 0
    BY <1>1, KeyOfType
  <1>5. balances[k][y] \in Bucket
    BY <1>1 DEF TypeInv, TypeOK, Balance
  <1>6. UNCHANGED adjusted /\ Goes(t, Idle)
    BY DEF Deduct, Refund, history
  <1> HIDE DEF k, y, id
  <1>7. Sane(y, balances[k][y]) => Sane(y, balances'[k][y])
    <2>1. used >= 0 => v >= 0
      BY <1>1, <1>2, <1>4
    <2>2. /\ balances'[k][y]["entitlement"] = balances[k][y]["entitlement"]
          /\ balances'[k][y]["carriedOver"] = balances[k][y]["carriedOver"]
          /\ balances'[k][y]["used"] = v
      BY <1>3 DEF Fields
    <2>. QED
      BY <2>1, <2>2 DEF Sane, WithinCap
  <1>8. \A j \in Keys \ adjusted' : balances'[j] # NoBalance =>
          \A z \in Tracked : Sane(z, balances'[j][z])
    BY <1>1, <1>3, <1>6, <1>7 DEF SaneInv
  <1>9. \A u \in Tasks : InsertSane(task[u])'
    BY <1>6, InsertsStaySane DEF InsertSane, Idle
  <1>. QED
    BY <1>8, <1>9 DEF SaneInv, Sane, WithinCap

LEMMA InsertedSane ==
  ASSUME TypeInv, SaneInv, NEW t \in Tasks, InitializeInsert(t)
  PROVE  SaneInv'
  <1>1. \A k \in Keys :
          \/ balances'[k] = balances[k]
          \/ /\ balances[k] = NoBalance
             /\ balances'[k] = [y \in Tracked |->
                                  NewBucket(Entitlement[y], task[t].carried[k[1]][y])]
    BY Inserted
  <1>2. UNCHANGED adjusted /\ Goes(t, Idle) /\ task[t].op = "insert"
    BY DEF InitializeInsert, history
  <1>3. ASSUME NEW k \in Keys, NEW y \in Tracked
        PROVE  Sane(y, NewBucket(Entitlement[y], task[t].carried[k[1]][y]))
    <2> DEFINE c == task[t].carried[k[1]][y]
    <2>1. WithinCap(y, Entitlement[y], c)
      BY <1>2 DEF SaneInv, InsertSane, Keys
    <2> HIDE DEF c
    <2>2. /\ NewBucket(Entitlement[y], c)["entitlement"] = Entitlement[y]
          /\ NewBucket(Entitlement[y], c)["carriedOver"] = c
          /\ NewBucket(Entitlement[y], c)["used"] = 0
      BY DEF NewBucket, Fields
    <2>3. Sane(y, NewBucket(Entitlement[y], c))
      BY <2>1, <2>2 DEF Sane
    <2>. QED
      BY <2>3 DEF c
  <1>4. \A k \in Keys \ adjusted' : balances'[k] # NoBalance =>
          \A y \in Tracked : Sane(y, balances'[k][y])
    <2> SUFFICES ASSUME NEW k \in Keys \ adjusted', balances'[k] # NoBalance, NEW y \in Tracked
                 PROVE  Sane(y, balances'[k][y])
      OBVIOUS
    <2>1. CASE balances'[k] = balances[k]
      BY <1>2, <2>1 DEF SaneInv
    <2>2. CASE balances'[k] # balances[k]
      <3>1. balances'[k][y] = NewBucket(Entitlement[y], task[t].carried[k[1]][y])
        BY <1>1, <2>2
      <3>. QED
        BY <1>3, <3>1
    <2>. QED
      BY <2>1, <2>2
  <1>5. \A u \in Tasks : InsertSane(task[u])'
    BY <1>2, InsertsStaySane DEF InsertSane, Idle
  <1>. QED
    BY <1>4, <1>5 DEF SaneInv, Sane, WithinCap

(* The steps of a task that write no balance. *)
LEMMA OtherTasksSane ==
  ASSUME TypeInv, SaneInv, NEW t \in Tasks, NEW w, Goes(t, w), InsertSane(w),
         UNCHANGED <<balances, adjusted>>
  PROVE  SaneInv'
  BY InsertsStaySane DEF SaneInv

LEMMA InitializePreviousSane ==
  ASSUME TypeInv, SaneInv, NEW t \in Tasks, InitializePrevious(t)
  PROVE  SaneInv'
  <1> DEFINE year == task[t].year
             w == [op |-> "insert", year |-> year, todo |-> task[t].todo,
                   carried |-> [m \in Members |-> [y \in Tracked |-> Carried(m, year, y)]]]
  <1>1. year \in Years
    BY TaskFields DEF InitializePrevious, TypeInv, TypeOK
  <1>2. Goes(t, w) /\ UNCHANGED <<balances, adjusted>>
    BY DEF InitializePrevious, history
  <1>3. \A m \in Members, y \in Tracked : w.carried[m][y] = Carried(m, year, y)
    OBVIOUS
  <1> HIDE DEF w, year
  <1>4. InsertSane(w)
    BY <1>1, <1>3, CarriedWithinCap DEF InsertSane
  <1>. QED
    BY <1>2, <1>4, OtherTasksSane

(* The operations that neither write a balance nor prepare an insert. *)
LEMMA NoInsert ==
  ASSUME TypeInv, NEW t \in Tasks,
         \/ \E m \in Members, form \in Forms : Request(t, m, form)
         \/ \E id \in LeaveIds : Create(t, id)
         \/ \E id \in LeaveIds : CancelRead(t, id)
         \/ CancelDelete(t)
         \/ \E id \in LeaveIds, decision \in Decisions : DecideRead(t, id, decision)
         \/ DecideUpdate(t) \/ BalanceFlag(t) \/ BalanceRead(t) \/ BalanceFail(t)
         \/ \E year \in Years : InitializeExisting(t, year)
  PROVE  UNCHANGED <<balances, adjusted>> /\ \E w : Goes(t, w) /\ w.op # "insert"
  <1>1. UNCHANGED <<balances, adjusted>>
    BY DEF Request, Create, CancelRead, CancelDelete, DecideRead, DecideUpdate, BalanceFlag,
       BalanceRead, BalanceFail, InitializeExisting, history
  <1>2. Idle.op # "insert"
    BY DEF Idle
  <1>3. ASSUME NEW m \in Members, NEW form \in Forms, Request(t, m, form)
        PROVE  \E w : Goes(t, w) /\ w.op # "insert"
    <2> DEFINE w == [op |-> "create", member |-> m, form |-> form]
    <2>1. Goes(t, w) /\ w.op # "insert"
      BY <1>3 DEF Request
    <2>. QED
      BY <2>1
  <1>4. ASSUME NEW id \in LeaveIds,
               \/ CancelRead(t, id)
               \/ \E decision \in Decisions : DecideRead(t, id, decision)
        PROVE  \E w : Goes(t, w) /\ w.op # "insert"
    <2>1. CASE CancelRead(t, id)
      BY <2>1 DEF CancelRead
    <2>2. ASSUME NEW decision \in Decisions, DecideRead(t, id, decision)
          PROVE  \E w : Goes(t, w) /\ w.op # "insert"
      <3> DEFINE w == [op |-> "decide", id |-> id, decision |-> decision]
      <3>1. Goes(t, w) /\ w.op # "insert"
        BY <2>2 DEF DecideRead
      <3>. QED
        BY <3>1
    <2>. QED
      BY <1>4, <2>1, <2>2
  <1>5. CASE CancelDelete(t) \/ BalanceFail(t) \/ \E id \in LeaveIds : Create(t, id)
    BY <1>1, <1>2, <1>5 DEF CancelDelete, BalanceFail, Dropped, Create
  <1>6. CASE DecideUpdate(t)
    <2> DEFINE w == [task[t] EXCEPT !.op = "flag"]
    <2>1. task[t].op = "decide" => w.op = "flag"
      BY DEF TypeInv, TypeOK, TaskStates, Idle
    <2>2. task[t].op = "decide" /\ (Goes(t, w) \/ Goes(t, Idle))
      BY <1>6 DEF DecideUpdate
    <2> HIDE DEF w
    <2>. QED
      BY <1>1, <1>2, <2>1, <2>2
  <1>7. CASE BalanceFlag(t) \/ BalanceRead(t) \/ \E year \in Years : InitializeExisting(t, year)
    <2>1. ASSUME NEW year \in Years, InitializeExisting(t, year)
          PROVE  \E w : Goes(t, w) /\ w.op # "insert"
      <3> DEFINE w == [op |-> "initialize", year |-> year,
                       todo |-> {m \in Members : balances[<<m, year>>] = NoBalance}]
      <3>1. Goes(t, w) /\ w.op # "insert"
        BY <2>1 DEF InitializeExisting
      <3>. QED
        BY <3>1
    <2>2. CASE BalanceFlag(t)
      <3> DEFINE w == [task[t] EXCEPT !.op = "balance"]
      <3>1. task[t].op = "flag" => w.op = "balance"
        BY DEF TypeInv, TypeOK, TaskStates, Idle
      <3>2. task[t].op = "flag" /\ (Goes(t, w) \/ Goes(t, Idle))
        BY <2>2 DEF BalanceFlag, Dropped
      <3> HIDE DEF w
      <3>. QED
        BY <1>1, <1>2, <3>1, <3>2
    <2>3. CASE BalanceRead(t)
      <3> DEFINE id == task[t].id
                 deduct == [op |-> "deduct", id |-> id, key |-> KeyOf(id)]
                 refund == [op |-> "refund", id |-> id, key |-> KeyOf(id),
                            seen |-> balances[KeyOf(id)][asked[id].type]["used"]]
      <3>1. Goes(t, Idle) \/ Goes(t, deduct) \/ Goes(t, refund)
        BY <2>3 DEF BalanceRead, Dropped
      <3>2. deduct.op # "insert" /\ refund.op # "insert"
        OBVIOUS
      <3> HIDE DEF deduct, refund
      <3>. QED
        BY <1>1, <1>2, <3>1, <3>2
    <2>. QED
      BY <1>1, <1>7, <2>1, <2>2, <2>3
  <1>. QED
    BY <1>1, <1>3, <1>4, <1>5, <1>6, <1>7

LEMMA SaneInvInit == Init => SaneInv
  BY DEF Init, SaneInv, InsertSane, Idle

LEMMA SaneInvNext == TypeInv /\ SaneInv /\ [Next]_vars => SaneInv'
  <1> SUFFICES ASSUME TypeInv, SaneInv, [Next]_vars PROVE SaneInv'
    OBVIOUS
  <1>1. ASSUME NEW t \in Tasks, TaskStep(t) PROVE SaneInv'
    <2>1. CASE Deduct(t) \/ Refund(t)
      BY <2>1, DaysUsedSane
    <2>2. CASE InitializeInsert(t)
      BY <2>2, InsertedSane
    <2>3. CASE InitializePrevious(t)
      BY <2>3, InitializePreviousSane
    <2>4. ASSUME NEW w, Goes(t, w), w.op # "insert", UNCHANGED <<balances, adjusted>>
          PROVE  SaneInv'
      BY <2>4, OtherTasksSane DEF InsertSane
    <2>. QED
      BY <1>1, <2>1, <2>2, <2>3, <2>4, NoInsert DEF TaskStep
  <1>2. ASSUME NEW k \in Keys, NEW y \in Tracked, NEW a \in Adjustments, Adjust(k, y, a)
        PROVE  SaneInv'
    <2>1. /\ UNCHANGED task /\ adjusted' = adjusted \cup {k}
          /\ \A j \in Keys \ {k} : balances'[j] = balances[j]
      BY <1>2 DEF Adjust, TypeInv, TypeOK
    <2>. QED
      BY <2>1 DEF SaneInv, InsertSane, Sane, WithinCap
  <1>3. CASE ToggleTracking \/ UNCHANGED vars
    BY <1>3 DEF ToggleTracking, vars, history, SaneInv, InsertSane
  <1>. QED
    BY <1>1, <1>2, <1>3 DEF Next

(* No year's carry-over lifts a balance above the cap, and no deduction,   *)
(* refund or initialisation, however they interleave, makes days used or   *)
(* carried over negative, until an admin writes the balance.               *)
THEOREM LeaveBalanceSane == Spec => []BalanceSane
  <1>1. Spec => []SaneInv
    BY SaneInvInit, SaneInvNext, LeaveTypeInvAlways, PTL DEF Spec
  <1>2. SaneInv => BalanceSane
    BY DEF SaneInv, BalanceSane, Sane, WithinCap
  <1>. QED
    BY <1>1, <1>2, PTL

-----------------------------------------------------------------------------
(* No approved day is forgotten: the days on their way to a balance are a  *)
(* sum over the tasks that deduct, which one step of a task moves by what  *)
(* that task adds to it or takes off.                                      *)

OnTheWay(k, y) == MapThenSumSet(LAMBDA t : Length(asked[task[t].id]), Deducting(k, y))
Carries(t, k, y) == IF t \in Deducting(k, y) THEN Length(asked[task[t].id]) ELSE 0
DaysUsed(k, y) == IF balances[k] = NoBalance THEN 0 ELSE balances[k][y]["used"]

(* The sum, of any tasks w and leaves a, over the tasks in S. *)
DaysIn(w, a, S) == [t \in S |-> Length(a[w[t].id])]
SummedDays(w, a, S) ==
  CHOOSE it : it = [s \in SUBSET S |->
    IF s = {} THEN 0 ELSE Length(a[w[Pick(s)].id]) + it[s \ {Pick(s)}]]

LEMMA SummedDaysIsSum ==
  ASSUME NEW w, NEW a, NEW S, IsFiniteSet(S)
  PROVE  SumsTo(SummedDays(w, a, S), DaysIn(w, a, S), S)
  <1>. DEFINE Eq(it) == it = [s \in SUBSET S |->
                IF s = {} THEN 0 ELSE Length(a[w[Pick(s)].id]) + it[s \ {Pick(s)}]]
  <1>1. \A s \in SUBSET S : s # {} => DaysIn(w, a, S)[Pick(s)] = Length(a[w[Pick(s)].id])
    BY PickIn DEF DaysIn
  <1>2. ASSUME NEW it PROVE Eq(it) <=> SumsTo(it, DaysIn(w, a, S), S)
    BY <1>1 DEF SumsTo
  <1>3. \E it : SumsTo(it, DaysIn(w, a, S), S)
    BY SumExists
  <1>4. \E it : Eq(it)
    BY <1>2, <1>3
  <1>5. SummedDays(w, a, S) = CHOOSE it : Eq(it)
    BY DEF SummedDays
  <1>. HIDE DEF Eq
  <1>6. Eq(CHOOSE it : Eq(it))
    BY <1>4
  <1>. QED
    BY <1>2, <1>5, <1>6

LEMMA OnTheWayIsSum ==
  ASSUME NEW k, NEW y
  PROVE  /\ OnTheWay(k, y) = SummedDays(task, asked, Deducting(k, y))[Deducting(k, y)]
         /\ OnTheWay(k, y)' = SummedDays(task', asked', Deducting(k, y)')[Deducting(k, y)']
  BY DEF OnTheWay, MapThenSumSet, MapThenFoldSet, Pick, SummedDays

(* The tasks that deduct work on created leaves, a number of days each. *)
DeductingSound(k, y) ==
  /\ IsFiniteSet(Deducting(k, y)) /\ Deducting(k, y) \subseteq Tasks
  /\ \A t \in Deducting(k, y) : /\ task[t].id \in LeaveIds /\ asked[task[t].id] # NoLeave
                                /\ Length(asked[task[t].id]) \in Int

AllDeductingSound == \A k, y : DeductingSound(k, y)

LEMMA DeductingIsSound == TypeInv => AllDeductingSound
  <1>. SUFFICES ASSUME TypeInv, NEW k, NEW y PROVE DeductingSound(k, y)
    BY DEF AllDeductingSound
  <1>1. Deducting(k, y) \subseteq Tasks /\ IsFiniteSet(Deducting(k, y))
    <2>1. Deducting(k, y) \subseteq Tasks
      BY DEF Deducting, Doing
    <2>. QED
      BY <2>1, LeaveAssumption, FS_Subset
  <1>2. ASSUME NEW t \in Deducting(k, y)
        PROVE  /\ task[t].id \in LeaveIds /\ asked[task[t].id] # NoLeave
               /\ Length(asked[task[t].id]) \in Int
    <2>1. t \in Tasks /\ task[t] \in TaskStates /\ task[t].op \in IdOps /\ Known(task[t])
      BY <1>1, <1>2 DEF Deducting, Doing, IdOps, BalanceOps, TypeInv, TypeOK, TasksKnow
    <2>2. task[t].id \in LeaveIds /\ asked[task[t].id] # NoLeave
      BY <2>1, TaskFields DEF Known
    <2>. QED
      BY <2>2, KeyOfType
  <1>. QED
    BY <1>1, <1>2 DEF DeductingSound

LEMMA DaysOnTheWayMove ==
  ASSUME TypeInv, TypeInv', NEW t \in Tasks, \A u \in Tasks \ {t} : task'[u] = task[u],
         \A id \in LeaveIds : asked[id] # NoLeave => asked'[id] = asked[id],
         NEW k, NEW y
  PROVE  /\ OnTheWay(k, y) \in Int /\ Carries(t, k, y) \in Int /\ Carries(t, k, y)' \in Int
         /\ OnTheWay(k, y)' = OnTheWay(k, y) + Carries(t, k, y)' - Carries(t, k, y)
  <1>. DEFINE D == Deducting(k, y)
              E == Deducting(k, y)'
              f == DaysIn(task, asked, D)
              g == DaysIn(task', asked', E)
              it == SummedDays(task, asked, D)
              jt == SummedDays(task', asked', E)
  <1>1. DeductingSound(k, y) /\ DeductingSound(k, y)'
    <2>1. AllDeductingSound /\ AllDeductingSound'
      BY DeductingIsSound, PTL
    <2>. QED
      BY <2>1 DEF AllDeductingSound
  <1>. HIDE DEF D, E
  <1>2. f \in [D -> Int] /\ g \in [E -> Int]
    BY <1>1 DEF DeductingSound, DaysIn, D, E
  <1>3. SumsTo(it, f, D) /\ SumsTo(jt, g, E)
    <2>1. IsFiniteSet(D) /\ IsFiniteSet(E)
      BY <1>1 DEF DeductingSound, D, E
    <2>. QED
      BY <2>1, SummedDaysIsSum
  <1>4. ASSUME NEW u \in Tasks \ {t}
        PROVE  /\ u \in D <=> u \in E
               /\ u \in D => Length(asked'[task'[u].id]) = Length(asked[task[u].id])
    <2>1. task'[u] = task[u]
      OBVIOUS
    <2>2. task[u].op \in {"flag", "balance", "deduct"} =>
            /\ task[u].id \in LeaveIds /\ asked[task[u].id] # NoLeave
      <3>1. task[u] \in TaskStates /\ Known(task[u])
        BY DEF TypeInv, TypeOK, TasksKnow
      <3>. QED
        BY <3>1, TaskFields DEF Known, IdOps, BalanceOps
    <2>3. task[u].op \in {"flag", "balance", "deduct"} =>
            asked'[task[u].id] = asked[task[u].id]
      BY <2>2
    <2>. QED
      BY <2>1, <2>2, <2>3 DEF D, E, Deducting, Doing, KeyOf
  <1>5. D \ {t} = E \ {t} /\ \A u \in D \ {t} : f[u] = g[u]
    <2>1. D \subseteq Tasks /\ E \subseteq Tasks
      BY <1>1 DEF DeductingSound, D, E
    <2>. QED
      BY <1>4, <2>1 DEF DaysIn
  <1>6. /\ t \in E => g[t] = Length(asked'[task'[t].id])
        /\ t \in D => f[t] = Length(asked[task[t].id])
    BY DEF DaysIn
  <1>7. IsFiniteSet(D) /\ IsFiniteSet(E)
    BY <1>1 DEF DeductingSound, D, E
  <1>8. OnTheWay(k, y) = it[D] /\ OnTheWay(k, y)' = jt[E]
    BY OnTheWayIsSum DEF D, E
  <1>9. /\ Carries(t, k, y) = (IF t \in D THEN f[t] ELSE 0)
        /\ Carries(t, k, y)' = (IF t \in E THEN g[t] ELSE 0)
    BY <1>6 DEF Carries, D, E
  <1>10. Carries(t, k, y) \in Int /\ Carries(t, k, y)' \in Int
    BY <1>2, <1>9
  <1>. HIDE DEF f, g, it, jt
  <1>11. it[D] \in Int /\ jt[E] = it[D] + (IF t \in E THEN g[t] ELSE 0) - (IF t \in D THEN f[t] ELSE 0)
    BY <1>2, <1>3, <1>5, <1>7, SumMoves
  <1>. QED
    BY <1>8, <1>9, <1>10, <1>11

(* A step balances the books of k and y: what is added to the days due is  *)
(* added to the days on their way, or to the days used.                    *)
Books(k, y) == due[k][y] = OnTheWay(k, y) + DaysUsed(k, y)

AllBooks == \A k \in Keys \ (refunded \cup adjusted) : \A y \in Tracked : Books(k, y)

LEMMA DeductionsAreBooks == DeductionsKept <=> AllBooks
  BY DEF DeductionsKept, AllBooks, Books, OnTheWay, DaysUsed

LEMMA DaysUsedType ==
  ASSUME TypeInv, NEW k \in Keys, NEW y \in Tracked
  PROVE  DaysUsed(k, y) \in Int /\ due[k][y] \in Int
  BY DEF TypeInv, TypeOK, DaysUsed, Balance, Bucket, Fields

LEMMA BooksMove ==
  ASSUME TypeInv, TypeInv', NEW t \in Tasks, \A u \in Tasks \ {t} : task'[u] = task[u],
         \A id \in LeaveIds : asked[id] # NoLeave => asked'[id] = asked[id],
         NEW k \in Keys, NEW y \in Tracked, NEW more \in Int, NEW spent \in Int, Books(k, y),
         due'[k][y] = due[k][y] + more, DaysUsed(k, y)' = DaysUsed(k, y) + spent,
         Carries(t, k, y)' + spent = Carries(t, k, y) + more
  PROVE  Books(k, y)'
  <1>1. /\ OnTheWay(k, y) \in Int /\ Carries(t, k, y) \in Int /\ Carries(t, k, y)' \in Int
        /\ OnTheWay(k, y)' = OnTheWay(k, y) + Carries(t, k, y)' - Carries(t, k, y)
    BY DaysOnTheWayMove
  <1>2. DaysUsed(k, y) \in Int
    BY DaysUsedType
  <1>3. due[k][y] = OnTheWay(k, y) + DaysUsed(k, y)
    BY DEF Books
  <1>4. due'[k][y] = OnTheWay(k, y)' + DaysUsed(k, y)'
    BY <1>1, <1>2, <1>3
  <1>. QED
    BY <1>4 DEF Books

(* A task that is on its way to deduct its leave from k and y, or not. *)
On(w, k, y) ==
  /\ w.op \in {"flag", "balance", "deduct"} /\ (w.op # "deduct" => w.decision = "APPROVED")
  /\ KeyOf(w.id) = k /\ asked[w.id].type = y

LEMMA CarriesOn ==
  ASSUME NEW t \in Tasks, NEW k, NEW y
  PROVE  Carries(t, k, y) = IF On(task[t], k, y) THEN Length(asked[task[t].id]) ELSE 0
  BY DEF Carries, Deducting, Doing, On

(* What is charged to a leave is charged to its key and type alone. *)
LEMMA ChargedIsDue ==
  ASSUME TypeInv, NEW id \in LeaveIds, asked[id] # NoLeave, asked[id].type \in Tracked,
         NEW days \in Int, NEW k \in Keys, NEW y \in Tracked
  PROVE  Charged(id, days)[k][y] =
           IF KeyOf(id) = k /\ asked[id].type = y THEN due[k][y] + days ELSE due[k][y]
  <1>. DEFINE j == KeyOf(id)
             charged == [due[j] EXCEPT ![asked[id].type] = @ + days]
             PerType == [Tracked -> Int]
  <1>1. due \in [Keys -> PerType] /\ j \in Keys
    BY KeyOfType DEF TypeInv, TypeOK
  <1>2. Charged(id, days) = [due EXCEPT ![j] = charged]
    BY DEF Charged
  <1>3. charged[y] = IF asked[id].type = y THEN due[j][y] + days ELSE due[j][y]
    BY <1>1
  <1>. HIDE DEF charged, PerType
  <1>4. [due EXCEPT ![j] = charged][k] = IF j = k THEN charged ELSE due[k]
    BY <1>1
  <1>. HIDE DEF j
  <1>. QED
    BY <1>2, <1>3, <1>4 DEF j

(* The steps of a task that leave the balances and the rows asked alone.   *)
LEMMA TaskBooks ==
  ASSUME TypeInv, TypeInv', DeductionsKept, NEW t \in Tasks, NEW w, Goes(t, w),
         w.op \in {"flag", "balance", "deduct"} => w.id \in LeaveIds /\ asked[w.id] # NoLeave,
         \A id \in LeaveIds : asked[id] # NoLeave => asked'[id] = asked[id],
         UNCHANGED <<balances, refunded, adjusted>>,
         \A k \in Keys : \A y \in Tracked :
           due'[k][y] = due[k][y] + (IF On(w, k, y) THEN Length(asked[w.id]) ELSE 0)
                                  - (IF On(task[t], k, y) THEN Length(asked[task[t].id]) ELSE 0)
  PROVE  DeductionsKept'
  <1>1. task'[t] = w /\ \A u \in Tasks \ {t} : task'[u] = task[u]
    BY DEF TypeInv, TypeOK, Goes
  <1>2. ASSUME NEW k \in Keys \ (refunded \cup adjusted), NEW y \in Tracked
        PROVE  Books(k, y)'
    <2>1. Books(k, y)
      BY DeductionsAreBooks DEF AllBooks
    <2>2. Carries(t, k, y) = IF On(task[t], k, y) THEN Length(asked[task[t].id]) ELSE 0
      BY CarriesOn
    <2>3. Carries(t, k, y)' = IF On(w, k, y) THEN Length(asked[w.id]) ELSE 0
      BY <1>1 DEF Carries, Deducting, Doing, On, KeyOf
    <2>4. Carries(t, k, y) \in Int /\ Carries(t, k, y)' \in Int
      BY <1>1, DaysOnTheWayMove
    <2>5. DaysUsed(k, y)' = DaysUsed(k, y) + 0 /\ due[k][y] \in Int
      BY DaysUsedType DEF DaysUsed
    <2>. DEFINE more == Carries(t, k, y)' - Carries(t, k, y)
    <2>6. due'[k][y] = due[k][y] + more /\ more \in Int
      BY <2>2, <2>3, <2>4, <2>5
    <2>7. Carries(t, k, y)' + 0 = Carries(t, k, y) + more
      BY <2>4
    <2>. HIDE DEF more
    <2>. QED
      BY <1>1, <2>1, <2>5, <2>6, <2>7, BooksMove
  <1>3. AllBooks'
    BY <1>2 DEF AllBooks
  <1>. QED
    BY <1>3, DeductionsAreBooks, PTL

DeductOps == {"flag", "balance", "deduct"}

LEMMA NotOn == \A w, k, y : w.op \notin DeductOps => ~On(w, k, y)
  BY DEF On, DeductOps

LEMMA DeductOpsKnown ==
  ASSUME TypeInv, NEW t \in Tasks
  PROVE  /\ task[t] \in TaskStates
         /\ task[t].op \in BalanceOps \cup {"decide"} =>
              /\ task[t].id \in LeaveIds /\ asked[task[t].id] # NoLeave
              /\ Length(asked[task[t].id]) \in Int
         /\ task[t].op \in BalanceOps => asked[task[t].id].type \in Tracked
         /\ task[t].op \in DecisionOps =>
              /\ task[t] \in [op : DecisionOps, id : LeaveIds, decision : Decisions]
              /\ task[t].decision \in Decisions
  <1>1. task[t] \in TaskStates /\ Known(task[t])
    BY DEF TypeInv, TypeOK, TasksKnow
  <1>2. task[t].op \in BalanceOps \cup {"decide"} =>
              task[t].id \in LeaveIds /\ asked[task[t].id] # NoLeave
    BY <1>1, TaskFields DEF Known, IdOps
  <1>3. task[t].op \in DecisionOps =>
          task[t] \in [op : DecisionOps, id : LeaveIds, decision : Decisions]
    BY <1>1 DEF TaskStates, DecisionOps, Idle
  <1>. QED
    BY <1>1, <1>2, <1>3, TaskFields, KeyOfType DEF Known

(* The steps on other business. *)
QuietOf(t) == task[t].op \notin DeductOps /\ \E w : Goes(t, w) /\ w.op \notin DeductOps

LEMMA OtherBusinessBooks ==
  ASSUME TypeInv, TypeInv', DeductionsKept, NEW t \in Tasks,
         \/ \E m \in Members, form \in Forms : Request(t, m, form)
         \/ \E id \in LeaveIds : Create(t, id) \/ CancelRead(t, id)
                                 \/ \E decision \in Decisions : DecideRead(t, id, decision)
         \/ CancelDelete(t) \/ InitializePrevious(t)
         \/ \E year \in Years : InitializeExisting(t, year)
  PROVE  DeductionsKept'
  <1>1. UNCHANGED <<balances, due, refunded, adjusted>>
    BY DEF Request, Create, CancelRead, DecideRead, CancelDelete, InitializePrevious,
       InitializeExisting, history
  <1>2. \A id \in LeaveIds : asked[id] # NoLeave => asked'[id] = asked[id]
    BY DEF Request, Create, CancelRead, DecideRead, CancelDelete, InitializePrevious,
       InitializeExisting, history, TypeInv, TypeOK, AskedKept
  <1>3. QuietOf(t)
    <2>0. Idle.op \notin DeductOps
      BY DEF Idle, DeductOps
    <2>1. ASSUME NEW m \in Members, NEW form \in Forms, Request(t, m, form) PROVE  QuietOf(t)
      <3>1. Goes(t, [op |-> "create", member |-> m, form |-> form]) /\ task[t] = Idle
        BY <2>1 DEF Request
      <3>. QED
        BY <2>0, <3>1 DEF QuietOf, DeductOps
    <2>2. ASSUME NEW id \in LeaveIds, Create(t, id) PROVE  QuietOf(t)
      BY <2>0, <2>2 DEF Create, QuietOf, DeductOps
    <2>3. ASSUME NEW id \in LeaveIds, CancelRead(t, id) PROVE  QuietOf(t)
      <3>1. Goes(t, [op |-> "cancel", id |-> id]) /\ task[t] = Idle
        BY <2>3 DEF CancelRead
      <3>. QED
        BY <2>0, <3>1 DEF QuietOf, DeductOps
    <2>4. ASSUME NEW id \in LeaveIds, NEW decision \in Decisions, DecideRead(t, id, decision)
          PROVE  QuietOf(t)
      <3>1. Goes(t, [op |-> "decide", id |-> id, decision |-> decision]) /\ task[t] = Idle
        BY <2>4 DEF DecideRead
      <3>. QED
        BY <2>0, <3>1 DEF QuietOf, DeductOps
    <2>5. CASE CancelDelete(t)
      BY <2>0, <2>5 DEF CancelDelete, QuietOf, DeductOps
    <2>6. CASE InitializePrevious(t)
      <3>1. \E todo, year, carried : Goes(t, [op |-> "insert", year |-> year, todo |-> todo,
                                             carried |-> carried])
        BY <2>6 DEF InitializePrevious
      <3>. QED
        BY <2>6, <3>1 DEF InitializePrevious, QuietOf, DeductOps
    <2>7. ASSUME NEW year \in Years, InitializeExisting(t, year) PROVE  QuietOf(t)
      <3>1. /\ \E todo : Goes(t, [op |-> "initialize", year |-> year, todo |-> todo])
            /\ task[t] = Idle
        BY <2>7 DEF InitializeExisting
      <3>. QED
        BY <2>0, <3>1 DEF QuietOf, DeductOps
    <2>. QED
      BY <2>1, <2>2, <2>3, <2>4, <2>5, <2>6, <2>7
  <1>4. PICK w : Goes(t, w) /\ w.op \notin DeductOps
    BY <1>3 DEF QuietOf
  <1>5. \A k \in Keys : \A y \in Tracked : due'[k][y] = due[k][y] + 0 - 0
    BY <1>1, DaysUsedType
  <1>6. \A k, y : ~On(w, k, y) /\ ~On(task[t], k, y)
    BY <1>3, <1>4, NotOn DEF QuietOf
  <1>. QED
    BY <1>1, <1>2, <1>4, <1>5, <1>6, TaskBooks DEF DeductOps

(* The decision: what is approved is due, and on its way. *)
LEMMA DecideUpdateBooks ==
  ASSUME TypeInv, TypeInv', DeductionsKept, NEW t \in Tasks, DecideUpdate(t)
  PROVE  DeductionsKept'
  <1>. DEFINE id == task[t].id
              approved == task[t].decision = "APPROVED"
              tracked == asked[id].type \in Tracked
              days == Length(asked[id])
              flag == [task[t] EXCEPT !.op = "flag"]
  <1>1. /\ task[t].op = "decide" /\ id \in LeaveIds /\ asked[id] # NoLeave /\ days \in Int
        /\ task[t] \in [op : DecisionOps, id : LeaveIds, decision : Decisions]
    BY DeductOpsKnown DEF DecideUpdate, DecisionOps
  <1>2. UNCHANGED <<balances, asked, refunded, adjusted>>
    BY DEF DecideUpdate
  <1>3. \A k, y : ~On(task[t], k, y)
    BY <1>1, NotOn DEF DeductOps
  <1>4. flag.op = "flag" /\ flag.id = id /\ flag.decision = task[t].decision
    BY <1>1
  <1>5. \A k \in Keys : \A y \in Tracked : due[k][y] \in Int
    BY DaysUsedType
  <1>6. CASE Gone(id) \/ ~tracked
    <2>1. Goes(t, Idle) /\ due' = due
      BY <1>6 DEF DecideUpdate
    <2>2. Idle.op \notin DeductOps
      BY DEF Idle, DeductOps
    <2>3. \A k, y : ~On(Idle, k, y)
      BY <2>2, NotOn
    <2>4. \A k \in Keys : \A y \in Tracked : due'[k][y] = due[k][y] + 0 - 0
      BY <1>5, <2>1
    <2>. QED
      BY <1>2, <1>3, <2>1, <2>2, <2>3, <2>4, TaskBooks DEF DeductOps
  <1>7. CASE ~Gone(id) /\ tracked
    <2>1. Goes(t, flag) /\ due' = IF approved THEN Charged(id, days) ELSE due
      BY <1>7 DEF DecideUpdate
    <2>2. \A k \in Keys : \A y \in Tracked :
            On(flag, k, y) <=> approved /\ KeyOf(id) = k /\ asked[id].type = y
      BY <1>4 DEF On
    <2>3. \A k \in Keys : \A y \in Tracked :
            due'[k][y] = due[k][y] + (IF On(flag, k, y) THEN days ELSE 0) - 0
      BY <1>1, <1>5, <1>7, <2>1, <2>2, ChargedIsDue
    <2>. HIDE DEF flag
    <2>. QED
      BY <1>1, <1>2, <1>3, <1>4, <2>1, <2>3, TaskBooks
  <1>. QED
    BY <1>6, <1>7

(* The task ends: what it would have deducted is due no more. *)
LEMMA DroppedBooks ==
  ASSUME TypeInv, TypeInv', DeductionsKept, NEW t \in Tasks, task[t].op \in BalanceOps,
         Dropped(t), UNCHANGED <<balances, asked, refunded, adjusted>>
  PROVE  DeductionsKept'
  <1>. DEFINE id == task[t].id
              days == Length(asked[id])
              deducting == \/ task[t].op = "deduct"
                           \/ task[t].op # "refund" /\ task[t].decision = "APPROVED"
  <1>1. id \in LeaveIds /\ asked[id] # NoLeave /\ days \in Int /\ asked[id].type \in Tracked
    BY DeductOpsKnown
  <1>2. Goes(t, Idle) /\ due' = IF deducting THEN Charged(id, -days) ELSE due
    BY DEF Dropped
  <1>3. Idle.op \notin DeductOps
    BY DEF Idle, DeductOps
  <1>4. \A k, y : ~On(Idle, k, y)
    BY <1>3, NotOn
  <1>5. \A k \in Keys : \A y \in Tracked :
          On(task[t], k, y) <=> deducting /\ KeyOf(id) = k /\ asked[id].type = y
    BY DEF On, BalanceOps
  <1>6. \A k \in Keys : \A y \in Tracked : due[k][y] \in Int
    BY DaysUsedType
  <1>. HIDE DEF deducting
  <1>7. \A k \in Keys : \A y \in Tracked :
          due'[k][y] = due[k][y] + 0 - (IF On(task[t], k, y) THEN days ELSE 0)
    <2>1. -days \in Int
      BY <1>1
    <2>. QED
      BY <1>1, <1>2, <1>5, <1>6, <2>1, ChargedIsDue
  <1>. QED
    BY <1>2, <1>3, <1>4, <1>7, TaskBooks DEF DeductOps

LEMMA FlagAndReadBooks ==
  ASSUME TypeInv, TypeInv', DeductionsKept, NEW t \in Tasks,
         BalanceFlag(t) \/ BalanceRead(t) \/ BalanceFail(t)
  PROVE  DeductionsKept'
  <1>. DEFINE id == task[t].id
              k == KeyOf(id)
  <1>1. UNCHANGED <<balances, asked, refunded, adjusted>> /\ task[t].op \in BalanceOps
    BY DEF BalanceFlag, BalanceRead, BalanceFail, BalanceOps
  <1>2. id \in LeaveIds /\ asked[id] # NoLeave /\ Length(asked[id]) \in Int
    BY <1>1, DeductOpsKnown
  <1>3. ASSUME NEW w, Goes(t, w), due' = due, w.op \in DeductOps => w.id \in LeaveIds /\ asked[w.id] # NoLeave,
               \A j, y : On(w, j, y) <=> On(task[t], j, y),
               \A j, y : On(w, j, y) => w.id = id
        PROVE  DeductionsKept'
    <2>1. \A j \in Keys : \A y \in Tracked :
            due'[j][y] = due[j][y] + (IF On(w, j, y) THEN Length(asked[w.id]) ELSE 0)
                                   - (IF On(task[t], j, y) THEN Length(asked[id]) ELSE 0)
      BY <1>2, <1>3, DaysUsedType
    <2>. QED
      BY <1>1, <1>3, <2>1, TaskBooks DEF DeductOps
  <1>4. CASE Dropped(t)
    BY <1>1, <1>4, DroppedBooks
  <1>5. CASE BalanceFlag(t) /\ ~Dropped(t)
    <2>. DEFINE w == [task[t] EXCEPT !.op = "balance"]
    <2>1. task[t].op = "flag" /\ Goes(t, w) /\ due' = due
      BY <1>5 DEF BalanceFlag
    <2>2. w.op = "balance" /\ w.id = id /\ w.decision = task[t].decision
      BY <2>1, DeductOpsKnown DEF DecisionOps
    <2>. HIDE DEF w
    <2>3. \A j, y : On(w, j, y) <=> On(task[t], j, y)
      BY <2>1, <2>2 DEF On
    <2>. QED
      BY <1>2, <1>3, <2>1, <2>2, <2>3
  <1>6. CASE BalanceRead(t) /\ ~Dropped(t)
    <2>. DEFINE deduct == [op |-> "deduct", id |-> id, key |-> k]
                refund == [op |-> "refund", id |-> id, key |-> k,
                           seen |-> balances[k][asked[id].type]["used"]]
    <2>1. /\ task[t].op = "balance" /\ due' = due
          /\ Goes(t, IF task[t].decision = "APPROVED" THEN deduct ELSE refund)
      BY <1>6 DEF BalanceRead
    <2>2. deduct.op = "deduct" /\ deduct.id = id /\ refund.op = "refund"
      OBVIOUS
    <2>. HIDE DEF deduct, refund, id
    <2>3. CASE task[t].decision = "APPROVED"
      <3>1. \A j, y : On(deduct, j, y) <=> On(task[t], j, y)
        BY <2>1, <2>2, <2>3 DEF On, id
      <3>. QED
        BY <1>2, <1>3, <2>1, <2>2, <2>3, <3>1
    <2>4. CASE task[t].decision # "APPROVED"
      <3>1. \A j, y : ~On(refund, j, y) /\ ~On(task[t], j, y)
        BY <2>1, <2>2, <2>4 DEF On
      <3>2. refund.op \notin DeductOps
        BY <2>2 DEF DeductOps
      <3>. QED
        BY <1>3, <2>1, <2>4, <3>1, <3>2
    <2>. QED
      BY <2>3, <2>4
  <1>. QED
    BY <1>4, <1>5, <1>6 DEF BalanceFail

(* The last step of a task: the days it carried reach the balance, unless  *)
(* the balance is one that the step takes out of the books.                *)
LEMMA LastStepBooks ==
  ASSUME TypeInv, TypeInv', DeductionsKept, NEW t \in Tasks, Goes(t, Idle),
         UNCHANGED <<asked, due>>, refunded \subseteq refunded', adjusted \subseteq adjusted',
         \A k \in Keys \ (refunded' \cup adjusted') : \A y \in Tracked :
           DaysUsed(k, y)' = DaysUsed(k, y)
                             + (IF On(task[t], k, y) THEN Length(asked[task[t].id]) ELSE 0)
  PROVE  DeductionsKept'
  <1>1. task'[t] = Idle /\ \A u \in Tasks \ {t} : task'[u] = task[u]
    BY DEF TypeInv, TypeOK, Goes
  <1>2. ASSUME NEW k \in Keys \ (refunded' \cup adjusted'), NEW y \in Tracked
        PROVE  Books(k, y)'
    <2>1. Books(k, y)
      BY DeductionsAreBooks DEF AllBooks
    <2>2. Carries(t, k, y) = IF On(task[t], k, y) THEN Length(asked[task[t].id]) ELSE 0
      BY CarriesOn
    <2>3. Carries(t, k, y)' = 0
      BY <1>1 DEF Carries, Deducting, Doing, Idle
    <2>4. Carries(t, k, y) \in Int
      BY <1>1, DaysOnTheWayMove
    <2>5. due'[k][y] = due[k][y] + 0
      BY DaysUsedType
    <2>6. DaysUsed(k, y)' = DaysUsed(k, y) + Carries(t, k, y)
      BY <2>2
    <2>7. Carries(t, k, y)' + Carries(t, k, y) = Carries(t, k, y) + 0
      BY <2>3, <2>4
    <2>8. \A i \in LeaveIds : asked[i] # NoLeave => asked'[i] = asked[i]
      OBVIOUS
    <2>. DEFINE none == 0
    <2>9. none \in Int /\ due'[k][y] = due[k][y] + none
          /\ Carries(t, k, y)' + Carries(t, k, y) = Carries(t, k, y) + none
      BY <2>5, <2>7
    <2>. HIDE DEF none
    <2>. QED
      BY <1>1, <2>1, <2>4, <2>6, <2>8, <2>9, BooksMove
  <1>3. AllBooks'
    BY <1>2 DEF AllBooks
  <1>. QED
    BY <1>3, DeductionsAreBooks, PTL

(* The update of a balance by a decision. A refund reads the days used     *)
(* before it writes them, so that its balance leaves the books.            *)
LEMMA DaysUsedBooks ==
  ASSUME TypeInv, TypeInv', DeductionsKept, NEW t \in Tasks, Deduct(t) \/ Refund(t)
  PROVE  DeductionsKept'
  <1>. DEFINE id == task[t].id
              key == task[t].key
              type == asked[id].type
              days == Length(asked[id])
  <1>1. /\ id \in LeaveIds /\ key \in Keys /\ type \in Tracked /\ asked[id] # NoLeave
        /\ balances[key] # NoBalance /\ balances[key][type]["used"] \in Int
    BY DaysUsedWritten
  <1>2. PICK v \in Int : /\ Writes(key, type, "used", v)
                         /\ Deduct(t) => v = balances[key][type]["used"] + days
    BY DaysUsedWritten
  <1>3. "used" \in Fields
    BY DEF Fields
  <1>4. /\ \A j \in Keys \ {key} : balances'[j] = balances[j]
        /\ \A z \in Tracked \ {type} : balances'[key][z] = balances[key][z]
        /\ balances'[key][type]["used"] = v
        /\ \A j \in Keys : balances[j] # NoBalance => balances'[j] # NoBalance
    BY <1>1, <1>2, <1>3, FieldWritten
  <1>5. days \in Int
    BY <1>1, KeyOfType
  <1>6. CASE Deduct(t)
    <2>1. task[t].op = "deduct" /\ Goes(t, Idle) /\ UNCHANGED history
      BY <1>6 DEF Deduct
    <2>2. key = KeyOf(id)
      BY <2>1 DEF TypeInv, TasksKnow, Known
    <2>3. \A k \in Keys : \A y \in Tracked : On(task[t], k, y) <=> key = k /\ type = y
      BY <2>1, <2>2 DEF On
    <2>4. \A k \in Keys : \A y \in Tracked : DaysUsed(k, y) \in Int
      BY DaysUsedType
    <2>. HIDE DEF id, key, type, days
    <2>5. \A k \in Keys : \A y \in Tracked :
            DaysUsed(k, y)' = DaysUsed(k, y) + (IF key = k /\ type = y THEN days ELSE 0)
      <3>. SUFFICES ASSUME NEW k \in Keys, NEW y \in Tracked
           PROVE DaysUsed(k, y)' = DaysUsed(k, y) + (IF key = k /\ type = y THEN days ELSE 0)
        OBVIOUS
      <3>1. CASE key = k /\ type = y
        BY <1>1, <1>2, <1>4, <1>6, <3>1 DEF DaysUsed
      <3>2. CASE ~(key = k /\ type = y)
        <4>1. DaysUsed(k, y)' = DaysUsed(k, y)
          BY <1>1, <1>4, <3>2 DEF DaysUsed
        <4>. QED
          BY <2>4, <3>2, <4>1
      <3>. QED
        BY <3>1, <3>2
    <2>6. \A k \in Keys : \A y \in Tracked :
            DaysUsed(k, y)' = DaysUsed(k, y) + (IF On(task[t], k, y) THEN days ELSE 0)
      BY <2>3, <2>5
    <2>. QED
      BY <2>1, <2>6, LastStepBooks DEF history, days, id
  <1>7. CASE Refund(t)
    <2>1. /\ task[t].op = "refund" /\ Goes(t, Idle) /\ UNCHANGED <<asked, due, adjusted>>
          /\ refunded' = refunded \cup {key}
      BY <1>7 DEF Refund
    <2>2. \A k, y : ~On(task[t], k, y)
      BY <2>1, NotOn DEF DeductOps
    <2>3. \A k \in Keys \ {key} : \A y \in Tracked :
            DaysUsed(k, y)' = DaysUsed(k, y) /\ DaysUsed(k, y) \in Int
      BY <1>4, DaysUsedType DEF DaysUsed
    <2>. HIDE DEF key
    <2>4. \A k \in Keys \ (refunded' \cup adjusted') : \A y \in Tracked :
            DaysUsed(k, y)' = DaysUsed(k, y) + 0
      BY <2>1, <2>3
    <2>. QED
      BY <2>1, <2>2, <2>4, LastStepBooks
  <1>. QED
    BY <1>6, <1>7

(* A row is inserted with no days used, where there was none. *)
LEMMA InsertedBooks ==
  ASSUME TypeInv, TypeInv', DeductionsKept, NEW t \in Tasks, InitializeInsert(t)
  PROVE  DeductionsKept'
  <1>1. task[t].op = "insert" /\ Goes(t, Idle) /\ UNCHANGED history
    BY DEF InitializeInsert
  <1>2. \A k, y : ~On(task[t], k, y)
    BY <1>1, NotOn DEF DeductOps
  <1>3. ASSUME NEW k \in Keys, NEW y \in Tracked
        PROVE  DaysUsed(k, y)' = DaysUsed(k, y) /\ DaysUsed(k, y) \in Int
    <2>. DEFINE row == [z \in Tracked |-> NewBucket(Entitlement[z], task[t].carried[k[1]][z])]
    <2>1. \/ balances'[k] = balances[k]
          \/ balances[k] = NoBalance /\ balances'[k] = row
      BY Inserted
    <2>2. row[y]["used"] = 0
      BY DEF NewBucket, Fields
    <2>. HIDE DEF row
    <2>. QED
      BY <2>1, <2>2, DaysUsedType DEF DaysUsed
  <1>4. \A k \in Keys : \A y \in Tracked : DaysUsed(k, y)' = DaysUsed(k, y) + 0
    BY <1>3
  <1>. QED
    BY <1>1, <1>2, <1>4, LastStepBooks DEF history

LEMMA AdjustBooks ==
  ASSUME TypeInv, DeductionsKept, NEW k \in Keys, NEW y \in Tracked, NEW a \in Adjustments,
         Adjust(k, y, a)
  PROVE  DeductionsKept'
  <1>1. a.field \in Fields /\ a.value \in Int
    BY LeaveAssumption DEF Fields
  <1>2. /\ balances[k] # NoBalance /\ Writes(k, y, a.field, a.value)
        /\ adjusted' = adjusted \cup {k} /\ UNCHANGED <<task, asked, due, refunded>>
    BY DEF Adjust, Writes
  <1>3. \A j \in Keys \ {k} : balances'[j] = balances[j]
    BY <1>1, <1>2, FieldWritten
  <1>4. ASSUME NEW j \in Keys \ (refunded' \cup adjusted'), NEW z \in Tracked PROVE Books(j, z)'
    <2>1. Books(j, z) /\ balances'[j] = balances[j]
      BY <1>2, <1>3, DeductionsAreBooks DEF AllBooks
    <2>2. OnTheWay(j, z)' = OnTheWay(j, z)
      <3>1. Deducting(j, z)' = Deducting(j, z)
        BY <1>2 DEF Deducting, Doing, KeyOf
      <3>. QED
        BY <1>2, <3>1, OnTheWayIsSum
    <2>. QED
      BY <1>2, <2>1, <2>2 DEF Books, DaysUsed
  <1>5. AllBooks'
    BY <1>4 DEF AllBooks
  <1>. QED
    BY <1>5, DeductionsAreBooks, PTL

LEMMA StillBooks ==
  ASSUME DeductionsKept, UNCHANGED <<balances, task, asked, due, refunded, adjusted>>
  PROVE  DeductionsKept'
  <1>1. ASSUME NEW j \in Keys \ (refunded' \cup adjusted'), NEW z \in Tracked PROVE Books(j, z)'
    <2>1. Books(j, z)
      BY DeductionsAreBooks DEF AllBooks
    <2>2. Deducting(j, z)' = Deducting(j, z)
      BY DEF Deducting, Doing, KeyOf
    <2>3. OnTheWay(j, z)' = OnTheWay(j, z)
      BY <2>2, OnTheWayIsSum
    <2>. QED
      BY <2>1, <2>3 DEF Books, DaysUsed
  <1>2. AllBooks'
    BY <1>1 DEF AllBooks
  <1>. QED
    BY <1>2, DeductionsAreBooks, PTL

LEMMA DeductionsInit == Init => DeductionsKept
  <1>. SUFFICES ASSUME Init PROVE DeductionsKept
    OBVIOUS
  <1>1. ASSUME NEW k \in Keys, NEW y \in Tracked PROVE Books(k, y)
    <2>1. Deducting(k, y) = {}
      BY DEF Init, Deducting, Doing, Idle
    <2>2. SumsTo(SummedDays(task, asked, {}), DaysIn(task, asked, {}), {})
      BY SummedDaysIsSum, FS_EmptySet
    <2>3. SummedDays(task, asked, {})[{}] = 0
      BY <2>2 DEF SumsTo
    <2>4. OnTheWay(k, y) = 0
      BY <2>1, <2>3, OnTheWayIsSum
    <2>5. DaysUsed(k, y) = 0 /\ due[k][y] = 0
      BY DEF Init, DaysUsed
    <2>. QED
      BY <2>4, <2>5 DEF Books
  <1>. QED
    BY <1>1, DeductionsAreBooks DEF AllBooks

LEMMA DeductionsNext == TypeInv /\ TypeInv' /\ DeductionsKept /\ [Next]_vars => DeductionsKept'
  <1>. SUFFICES ASSUME TypeInv, TypeInv', DeductionsKept, [Next]_vars PROVE DeductionsKept'
    OBVIOUS
  <1>1. ASSUME NEW t \in Tasks, TaskStep(t) PROVE DeductionsKept'
    BY <1>1, OtherBusinessBooks, DecideUpdateBooks, FlagAndReadBooks, DaysUsedBooks,
       InsertedBooks DEF TaskStep
  <1>2. ASSUME NEW k \in Keys, NEW y \in Tracked, NEW a \in Adjustments, Adjust(k, y, a)
        PROVE  DeductionsKept'
    BY <1>2, AdjustBooks
  <1>3. CASE ToggleTracking \/ UNCHANGED vars
    BY <1>3, StillBooks DEF ToggleTracking, vars, history
  <1>. QED
    BY <1>1, <1>2, <1>3 DEF Next

(* No approved day is forgotten and none is counted twice: a balance that  *)
(* nobody adjusted and no rejection was refunded to shows the days that    *)
(* were approved, less those still on their way, whichever way decisions,  *)
(* initialisations, toggles and failures interleave.                       *)
THEOREM LeaveDeductionsKept == Spec => []DeductionsKept
  <1>1. TypeInv /\ DeductionsKept /\ [Next]_vars => (TypeInv /\ DeductionsKept)'
    BY LeaveTypeInvNext, DeductionsNext
  <1>. QED
    BY <1>1, LeaveTypeInvInit, DeductionsInit, PTL DEF Spec

=============================================================================
