------------------------- MODULE SubscriptionProofs -------------------------
(***************************************************************************)
(* The subscription proved for every number of organisations, calls,       *)
(* plans and days.                                                         *)
(***************************************************************************)
EXTENDS Subscription, TLAPS

(* Rows are never deleted: a call and a visit that have read one find one. *)
Existing ==
  /\ \A a \in Admins : call[a] # Idle /\ call[a].row # NoRow => sub[call[a].org] # NoRow
  /\ \A v \in Visits : visit[v] # NoRow => sub[v[2]] # NoRow

TypeInv == TypeOK /\ Existing

-----------------------------------------------------------------------------
LEMMA RowFields ==
  ASSUME NEW row \in Row
  PROVE  /\ row # NoRow
         /\ row.plan \in Tiers /\ row.status \in Statuses /\ row.trialUsed \in BOOLEAN
         /\ row.count \in Counts /\ row.trialLeft \in Deadline
         /\ row.graceLeft \in Deadline /\ row.suspendedFor \in Deadline
  BY DEF Row, NoRow, Statuses

(* What a call in progress holds.                                          *)
LEMMA CallFields ==
  ASSUME NEW c \in Calls
  PROVE  /\ c # Idle /\ c.org \in Orgs /\ c.row \in Reads \cup {NoRow}
         /\ c.op # "assign" => c.row # NoRow
         /\ c.op = "assign" => c.tier \in Tiers /\ c.force \in BOOLEAN
         /\ c.op = "extend" => c.days \in Nat \ {0}
         /\ c.row # NoRow => /\ c.row.trialUsed \in BOOLEAN
                             /\ c.row.trialLeft \in Deadline
<1>1. \A r \in Reads : r # NoRow /\ r.trialUsed \in BOOLEAN /\ r.trialLeft \in Deadline
  BY DEF Reads, NoRow, Statuses
<1>2. CASE c \in [op : {"assign"}, org : Orgs, row : Reads \cup {NoRow}, tier : Tiers, force : BOOLEAN]
  BY <1>1, <1>2 DEF Idle
<1>3. CASE c \in [op : {"extend"}, org : Orgs, row : Reads, days : Extensions]
  <2>1. c.days \in Nat \ {0}
    BY <1>3, SubscriptionAssumption
  <2>2. c.op = "extend" /\ c.org \in Orgs /\ c.row \in Reads
    BY <1>3
  <2> QED  BY <1>1, <2>1, <2>2 DEF Idle
<1>4. CASE c \in [op : Ops, org : Orgs, row : Reads]
  BY <1>1, <1>4 DEF Idle, Ops
<1> QED  BY <1>2, <1>3, <1>4 DEF Calls

(* Each way of changing a row gives a row, with the deadline that its new  *)
(* status needs if the old one had its own.                                *)
LEMMA ChangedRows ==
  ASSUME NEW row \in Row
  PROVE  /\ Suspended(row) \in Row /\ Expired(row) \in Row /\ Reactivated(row) \in Row
         /\ InGrace(row) \in Row
         /\ Timed(Suspended(row)) /\ Timed(Expired(row)) /\ Timed(Reactivated(row))
         /\ Timed(InGrace(row))
<1>1. Suspended(row) \in Row /\ Timed(Suspended(row))
  BY SubscriptionAssumption DEF Suspended, Row, Timed, Deadline, Statuses
<1>2. Expired(row) \in Row /\ Timed(Expired(row))
  BY DEF Expired, Row, Timed, Statuses
<1>3. Reactivated(row) \in Row /\ Timed(Reactivated(row))
  BY DEF Reactivated, Row, Timed, Deadline, Statuses
<1>4. InGrace(row) \in Row /\ Timed(InGrace(row))
  BY SubscriptionAssumption DEF InGrace, Row, Timed, Deadline, Statuses
<1> QED  BY <1>1, <1>2, <1>3, <1>4

LEMMA GraceOverRow ==
  ASSUME NEW row \in Row, NEW seen
  PROVE  GraceOver(row, seen) \in Row /\ Timed(GraceOver(row, seen))
<1>1. CASE seen.count <= StarterMax
  BY <1>1, SubscriptionAssumption DEF GraceOver, Row, Timed, Deadline, Statuses
<1>2. CASE ~(seen.count <= StarterMax)
  BY <1>2, SubscriptionAssumption DEF GraceOver, Suspended, Row, Timed, Deadline, Statuses
<1> QED  BY <1>1, <1>2

LEMMA ExtendedRow ==
  ASSUME NEW row \in Row, NEW c \in Calls, c.op = "extend"
  PROVE  Extended(row, c) \in Row /\ Timed(Extended(row, c))
<1>1. c.days \in Nat /\ c.row.trialLeft \in Deadline
  BY CallFields
<1> DEFINE base == IF c.row.trialLeft = NoDate THEN 0 ELSE c.row.trialLeft
<1>2. base + c.days \in Nat
  BY <1>1 DEF Deadline
<1>3. base + c.days # NoDate
  BY <1>2, SubscriptionAssumption
<1> HIDE DEF base
<1>4. [row EXCEPT !.status = "TRIALING", !.trialLeft = base + c.days, !.graceLeft = NoDate] \in Row
  BY <1>2 DEF Row, Deadline, Statuses
<1>5. Timed([row EXCEPT !.status = "TRIALING", !.trialLeft = base + c.days, !.graceLeft = NoDate])
  BY <1>3 DEF Row, Timed
<1> QED  BY <1>4, <1>5 DEF Extended, base

LEMMA AssignedRow ==
  ASSUME NEW c \in Calls, c.op = "assign", NEW n \in Counts
  PROVE  Assigned(c, n) \in Row /\ Timed(Assigned(c, n))
<1>1. c.tier \in Tiers /\ TrialDays[c.tier] \in Nat /\ TrialUsed(c) \in BOOLEAN
  BY CallFields, SubscriptionAssumption DEF TrialUsed, CanUseTrial
<1>2. TrialDays[c.tier] # NoDate
  BY <1>1, SubscriptionAssumption
<1> QED  BY <1>1, <1>2 DEF Assigned, Row, Timed, Deadline, Statuses

(* A day older, a row has the deadlines it had.                            *)
LEMMA DayOlderRow ==
  ASSUME NEW row \in Row \cup {NoRow}
  PROVE  /\ DayOlder(row) \in Row \cup {NoRow}
         /\ DayOlder(row) = NoRow <=> row = NoRow
         /\ Timed(row) => Timed(DayOlder(row))
<1>1. CASE row = NoRow
  BY <1>1 DEF DayOlder
<1>2. CASE row \in Row
  <2>1. \A d \in Deadline : /\ Sooner(d) \in Deadline /\ Longer(d) \in Deadline
                            /\ Sooner(d) = NoDate <=> d = NoDate
                            /\ Longer(d) = NoDate <=> d = NoDate
    BY SubscriptionAssumption DEF Sooner, Longer, Deadline
  <2>2. row # NoRow
    BY <1>2, RowFields
  <2>3. DayOlder(row) \in Row
    BY <1>2, <2>1, <2>2 DEF DayOlder, Row
  <2>4. Timed(row) => Timed(DayOlder(row))
    BY <1>2, <2>1, <2>2, <2>3 DEF DayOlder, Row, Timed
  <2> QED  BY <1>2, <2>2, <2>3, <2>4, RowFields
<1> QED  BY <1>1, <1>2
-----------------------------------------------------------------------------
(* What Save does to the rows: one becomes another row.                    *)
LEMMA SavedTypes ==
  ASSUME TypeInv, NEW o \in Orgs, NEW row \in Row, Save(o, row)
  PROVE  /\ sub' \in [Orgs -> Row \cup {NoRow}]
         /\ \A p \in Orgs : sub[p] # NoRow => sub'[p] # NoRow
<1>1. row # NoRow
  BY RowFields
<1> QED  BY <1>1 DEF TypeInv, TypeOK, Save

(* What a call and a visit keep of a row.                                  *)
LEMMA ReadTypes ==
  ASSUME NEW row \in Row \cup {NoRow}
  PROVE  /\ Read(row) \in Reads \cup {NoRow}
         /\ Read(row) = NoRow <=> row = NoRow
         /\ row # NoRow => Read(row) \in Reads
<1>1. CASE row = NoRow
  BY <1>1 DEF Read
<1>2. CASE row \in Row
  <2>1. Read(row) \in Reads
    BY <1>2, RowFields DEF Read, Reads
  <2>2. \A r \in Reads : r # NoRow
    BY DEF Reads, NoRow, Statuses
  <2> QED  BY <1>2, <2>1, <2>2, RowFields
<1> QED  BY <1>1, <1>2

LEMMA SelectedType ==
  ASSUME NEW row \in Row
  PROVE  Selected(row) \in [plan : Tiers, status : Statuses, count : Counts]
  BY RowFields DEF Selected

(* The beginning of a call on a row as it is now.                          *)
LEMMA BegunTypes ==
  ASSUME TypeInv, NEW a \in Admins, NEW c \in Calls, Begin(a, c),
         c.row # NoRow => sub[c.org] # NoRow, crowded' \subseteq Orgs
  PROVE  TypeInv'
<1>1. calls' \in 0..MaxCalls
  BY SubscriptionAssumption DEF TypeInv, TypeOK, Begin
<1>2. call' \in [Admins -> Calls \cup {Idle}]
  BY DEF TypeInv, TypeOK, Begin
<1>3. Existing'
  BY <1>2 DEF TypeInv, TypeOK, Existing, Begin
<1> QED  BY <1>1, <1>2, <1>3 DEF TypeInv, TypeOK, Begin

(* The end of a call that saves a row.                                     *)
LEMMA FinishedTypes ==
  ASSUME TypeInv, NEW a \in Admins, NEW o \in Orgs, NEW row \in Row, Save(o, row), Finish(a),
         trials' \in [Orgs -> Nat]
  PROVE  TypeInv'
<1>1. call' \in [Admins -> Calls \cup {Idle}] /\ \A b \in Admins : call'[b] \in {call[b], Idle}
  BY DEF TypeInv, TypeOK, Finish
<1>2. Existing'
  <2>1. ASSUME NEW b \in Admins, call'[b] # Idle, call'[b].row # NoRow
        PROVE  sub'[call'[b].org] # NoRow
    <3>1. call'[b] = call[b] /\ call[b] \in Calls
      BY <1>1, <2>1 DEF TypeInv, TypeOK
    <3> QED  BY <2>1, <3>1, CallFields, SavedTypes DEF TypeInv, Existing
  <2>2. ASSUME NEW v \in Visits, visit'[v] # NoRow
        PROVE  sub'[v[2]] # NoRow
    BY <2>2, SavedTypes DEF TypeInv, Existing, Finish, Visits
  <2> QED  BY <2>1, <2>2 DEF Existing
<1> QED  BY <1>1, <1>2, SavedTypes DEF TypeInv, TypeOK, Finish
-----------------------------------------------------------------------------
(* The types hold throughout: every row, call and visit is one the code    *)
(* can write. The rows that calls and visits rely on exist.                *)
LEMMA InitTypes == Init => TypeInv
<1> SUFFICES ASSUME Init PROVE TypeInv
  OBVIOUS
<1>1. Existing
  BY DEF Init, Existing
<1>2. calls \in 0..MaxCalls
  BY SubscriptionAssumption DEF Init
<1> QED  BY <1>1, <1>2 DEF Init, TypeInv, TypeOK

LEMMA CallTypes ==
  ASSUME TypeInv, NEW a \in Admins, AdminNext(a)
  PROVE  TypeInv'
<1> USE DEF TypeInv
<1>1. ASSUME NEW o \in Orgs, NEW tier \in Tiers, NEW force \in BOOLEAN,
             AssignTierRead(a, o, tier, force)
      PROVE  TypeInv'
  <2>1. sub[o] \in Row \cup {NoRow}
    BY DEF TypeOK
  <2> DEFINE c == [op |-> "assign", org |-> o, row |-> Read(sub[o]), tier |-> tier, force |-> force]
  <2>2. c \in Calls /\ c.org = o /\ c.row = Read(sub[o])
    BY <2>1, ReadTypes DEF Calls
  <2>3. crowded' \subseteq Orgs
    BY <1>1 DEF AssignTierRead, TypeOK
  <2>4. Begin(a, c)
    BY <1>1 DEF AssignTierRead
  <2>5. c.row # NoRow => sub[c.org] # NoRow
    BY <2>1, <2>2, ReadTypes
  <2> HIDE DEF c
  <2> QED  BY <2>2, <2>3, <2>4, <2>5, BegunTypes
<1>2. ASSUME NEW o \in Orgs, SuspendRead(a, o) \/ MarkAsExpiredRead(a, o) \/ ReactivateRead(a, o)
      PROVE  TypeInv'
  <2>1. PICK op \in Ops : Begin(a, [op |-> op, org |-> o, row |-> Read(sub[o])])
    BY <1>2 DEF SuspendRead, MarkAsExpiredRead, ReactivateRead, Ops
  <2>2. sub[o] \in Row
    BY <1>2 DEF SuspendRead, MarkAsExpiredRead, ReactivateRead, TypeOK
  <2> DEFINE c == [op |-> op, org |-> o, row |-> Read(sub[o])]
  <2>3. c \in Calls /\ c.org = o
    BY <2>2, ReadTypes, RowFields DEF Calls
  <2>4. crowded' \subseteq Orgs
    BY <1>2 DEF SuspendRead, MarkAsExpiredRead, ReactivateRead, TypeOK
  <2> QED  BY <2>1, <2>2, <2>3, <2>4, BegunTypes, RowFields
<1>3. ASSUME NEW o \in Orgs, NEW days \in Extensions, ExtendTrialRead(a, o, days)
      PROVE  TypeInv'
  <2>1. sub[o] \in Row /\ crowded' \subseteq Orgs
    BY <1>3 DEF ExtendTrialRead, TypeOK
  <2> DEFINE c == [op |-> "extend", org |-> o, row |-> Read(sub[o]), days |-> days]
  <2>2. c \in Calls /\ c.org = o
    BY <2>1, ReadTypes, RowFields DEF Calls
  <2>3. Begin(a, c)
    BY <1>3 DEF ExtendTrialRead
  <2> QED  BY <2>1, <2>2, <2>3, BegunTypes, RowFields
<1>4. CASE AssignTierWrite(a)
  <2>1. call[a] \in Calls /\ call[a].op = "assign"
    BY <1>4 DEF AssignTierWrite, TypeOK, Idle
  <2>2. call[a].org \in Orgs
    BY <2>1, CallFields
  <2>3. call[a].row # NoRow => sub[call[a].org] \in Row
    BY <2>1, <2>2, CallFields DEF TypeOK, Existing
  <2> DEFINE n == IF call[a].row = NoRow THEN 0 ELSE sub[call[a].org].count
  <2>4. n \in Counts
    BY <2>3, RowFields, SubscriptionAssumption
  <2>5. Save(call[a].org, Assigned(call[a], n)) /\ Finish(a)
    BY <1>4 DEF AssignTierWrite
  <2>6. trials' \in [Orgs -> Nat]
    BY <1>4, <2>2 DEF AssignTierWrite, TypeOK
  <2>7. Assigned(call[a], n) \in Row
    BY <2>1, <2>4, AssignedRow
  <2> QED  BY <2>2, <2>5, <2>6, <2>7, FinishedTypes
<1>5. CASE SuspendWrite(a) \/ MarkAsExpiredWrite(a) \/ ReactivateWrite(a) \/ ExtendTrialWrite(a)
  <2>1. call[a] \in Calls /\ call[a].op # "assign"
    BY <1>5 DEF SuspendWrite, MarkAsExpiredWrite, ReactivateWrite, ExtendTrialWrite, TypeOK, Idle
  <2>2. call[a].org \in Orgs /\ sub[call[a].org] \in Row
    BY <2>1, CallFields DEF TypeOK, Existing
  <2>3. PICK row \in Row : Save(call[a].org, row)
    BY <1>5, <2>1, <2>2, ChangedRows, ExtendedRow
       DEF SuspendWrite, MarkAsExpiredWrite, ReactivateWrite, ExtendTrialWrite
  <2>4. Finish(a) /\ trials' \in [Orgs -> Nat]
    BY <1>5 DEF SuspendWrite, MarkAsExpiredWrite, ReactivateWrite, ExtendTrialWrite, TypeOK
  <2> QED  BY <2>2, <2>3, <2>4, FinishedTypes
<1>6. CASE CallFail(a)
  <2>1. call' \in [Admins -> Calls \cup {Idle}] /\ \A b \in Admins : call'[b] \in {call[b], Idle}
    BY <1>6 DEF CallFail, Finish, TypeOK
  <2>2. Existing'
    BY <1>6, <2>1 DEF CallFail, Finish, Existing
  <2> QED  BY <1>6, <2>1, <2>2 DEF CallFail, Finish, TypeOK
<1> QED  BY <1>1, <1>2, <1>3, <1>4, <1>5, <1>6 DEF AdminNext
LEMMA JobTypes ==
  ASSUME TypeInv, NEW j \in Jobs, JobNext(j)
  PROVE  TypeInv'
<1> USE DEF TypeInv
<1>1. CASE JobStart(j)
  <2>1. ASSUME NEW v \in Visits
        PROVE  /\ visit'[v] \in [plan : Tiers, status : Statuses, count : Counts] \cup {NoRow}
               /\ visit'[v] # NoRow => sub[v[2]] # NoRow
    <3>1. v[2] \in Orgs
      BY DEF Visits
    <3>2. CASE v[1] = j /\ Due(j, sub[v[2]])
      <4>1. sub[v[2]] # NoRow
        BY <3>2 DEF Due, TrialOver, GraceExpired, Abandoned, NoRow
      <4>2. sub[v[2]] \in Row
        BY <3>1, <4>1 DEF TypeOK
      <4>3. visit'[v] = Selected(sub[v[2]])
        BY <1>1, <3>2 DEF JobStart
      <4> QED  BY <4>1, <4>2, <4>3, SelectedType
    <3>3. CASE ~(v[1] = j /\ Due(j, sub[v[2]]))
      BY <1>1, <3>3 DEF JobStart, TypeOK, Existing
    <3> QED  BY <3>2, <3>3
  <2>2. visit' \in [Visits -> [plan : Tiers, status : Statuses, count : Counts] \cup {NoRow}]
    BY <1>1, <2>1 DEF JobStart
  <2>3. Existing'
    BY <1>1, <2>1 DEF JobStart, Existing
  <2>4. ran' \subseteq Jobs
    BY <1>1 DEF JobStart, TypeOK
  <2> QED  BY <1>1, <2>2, <2>3, <2>4 DEF JobStart, TypeOK
<1>2. ASSUME NEW o \in Orgs, JobWrite(j, o)
      PROVE  TypeInv'
  <2>1. <<j, o>> \in Visits /\ sub[o] \in Row
    BY <1>2 DEF JobWrite, TypeOK, Existing, Visits
  <2>2. PICK row \in Row : Save(o, row)
    BY <1>2, <2>1, ChangedRows, GraceOverRow DEF JobWrite, Jobs
  <2>3. visit' \in [Visits -> [plan : Tiers, status : Statuses, count : Counts] \cup {NoRow}]
    BY <1>2 DEF JobWrite, Visited, TypeOK
  <2>4. Existing'
    <3>1. ASSUME NEW v \in Visits, visit'[v] # NoRow
          PROVE  sub'[v[2]] # NoRow
      <4>1. v[2] \in Orgs /\ visit[v] # NoRow
        BY <1>2, <3>1 DEF JobWrite, Visited, TypeOK, Visits
      <4> QED  BY <2>2, <4>1, SavedTypes DEF Existing
    <3>2. ASSUME NEW a \in Admins, call'[a] # Idle, call'[a].row # NoRow
          PROVE  sub'[call'[a].org] # NoRow
      <4>1. call'[a] = call[a] /\ call[a] \in Calls
        BY <1>2, <3>2 DEF JobWrite, TypeOK
      <4> QED  BY <2>2, <3>2, <4>1, SavedTypes, CallFields DEF Existing
    <3> QED  BY <3>1, <3>2 DEF Existing
  <2> QED  BY <1>2, <2>2, <2>3, <2>4, SavedTypes DEF JobWrite, TypeOK
<1>3. ASSUME NEW o \in Orgs, JobFail(j, o)
      PROVE  TypeInv'
  <2>1. <<j, o>> \in Visits
    BY DEF Visits
  <2>2. visit' \in [Visits -> [plan : Tiers, status : Statuses, count : Counts] \cup {NoRow}]
    BY <1>3 DEF JobFail, Visited, TypeOK
  <2>3. Existing'
    BY <1>3 DEF JobFail, Visited, TypeOK, Existing
  <2>4. missed' \subseteq Visits
    BY <1>3, <2>1 DEF JobFail, TypeOK
  <2> QED  BY <1>3, <2>2, <2>3, <2>4 DEF JobFail, TypeOK
<1> QED  BY <1>1, <1>2, <1>3 DEF JobNext

LEMMA OtherTypes ==
  ASSUME TypeInv
  PROVE  /\ \A o \in Orgs, n \in Counts : SyncEmployeeCount(o, n) => TypeInv'
         /\ Restart => TypeInv'
         /\ Tick => TypeInv'
<1> USE DEF TypeInv
<1>1. ASSUME NEW o \in Orgs, NEW n \in Counts, SyncEmployeeCount(o, n)
      PROVE  TypeInv'
  <2>1. [sub[o] EXCEPT !.count = n] \in Row
    BY <1>1 DEF SyncEmployeeCount, TypeOK, Row
  <2>2. /\ sub' \in [Orgs -> Row \cup {NoRow}]
        /\ \A p \in Orgs : sub[p] # NoRow => sub'[p] # NoRow
    BY <1>1, <2>1, SavedTypes DEF SyncEmployeeCount
  <2>3. Existing'
    BY <1>1, <2>2, CallFields DEF SyncEmployeeCount, Existing, TypeOK, Visits
  <2> QED  BY <1>1, <2>2, <2>3 DEF SyncEmployeeCount, TypeOK
<1>2. CASE Restart
  <2>1. Existing'
    BY <1>2 DEF Restart, Existing
  <2>2. missed' \subseteq Visits
    BY <1>2 DEF Restart, Pending, TypeOK
  <2> QED  BY <1>2, <2>1, <2>2 DEF Restart, TypeOK
<1>3. CASE Tick
  <2>1. \A o \in Orgs : /\ sub'[o] \in Row \cup {NoRow}
                        /\ sub'[o] = NoRow <=> sub[o] = NoRow
    BY <1>3, DayOlderRow DEF Tick, TypeOK
  <2>2. sub' \in [Orgs -> Row \cup {NoRow}]
    BY <1>3, <2>1 DEF Tick
  <2>3. Existing'
    BY <1>3, <2>1, CallFields DEF Tick, Existing, TypeOK, Visits
  <2> QED  BY <1>3, <2>2, <2>3 DEF Tick, TypeOK
<1> QED  BY <1>1, <1>2, <1>3

LEMMA TypeStep ==
  ASSUME TypeInv, [Next]_vars
  PROVE  TypeInv'
<1>1. CASE UNCHANGED vars
  BY <1>1 DEF vars, TypeInv, TypeOK, Existing
<1>2. CASE Next
  BY <1>2, CallTypes, JobTypes, OtherTypes DEF Next
<1> QED  BY <1>1, <1>2

THEOREM SubscriptionTypes == Spec => []TypeInv
<1>1. TypeInv /\ [Next]_vars => TypeInv'
  BY TypeStep
<1> QED  BY <1>1, InitTypes, PTL DEF Spec

THEOREM SubscriptionTypeOK == Spec => []TypeOK
<1>1. TypeInv => TypeOK
  BY DEF TypeInv
<1> QED  BY <1>1, SubscriptionTypes, PTL
-----------------------------------------------------------------------------
(* What a step does to the rows. Fresh: a row just written has reached no  *)
(* deadline yet.                                                           *)
Fresh(row) ==
  /\ row.status = "TRIALING" => row.trialLeft # 0
  /\ row.status = "GRACE_PERIOD" => row.graceLeft # 0
  /\ row.status = "SUSPENDED" => row.suspendedFor # AbandonDays

LEMMA FreshRows ==
  /\ \A row \in Row : /\ Fresh(Suspended(row)) /\ Fresh(Expired(row))
                       /\ Fresh(Reactivated(row)) /\ Fresh(InGrace(row))
  /\ \A row \in Row : \A seen : Fresh(GraceOver(row, seen))
  /\ \A row \in Row, c \in Calls : c.op = "extend" => Fresh(Extended(row, c))
  /\ \A c \in Calls, n \in Counts : c.op = "assign" => Fresh(Assigned(c, n))
<1>1. ASSUME NEW row \in Row
      PROVE  /\ Fresh(Suspended(row)) /\ Fresh(Expired(row))
             /\ Fresh(Reactivated(row)) /\ Fresh(InGrace(row))
  BY SubscriptionAssumption DEF Fresh, Suspended, Expired, Reactivated, InGrace, Row
<1>2. ASSUME NEW row \in Row, NEW seen
      PROVE  Fresh(GraceOver(row, seen))
  <2>1. GraceOver(row, seen).status = "SUSPENDED" => GraceOver(row, seen).suspendedFor = 0
    BY DEF GraceOver, Suspended, Row
  <2>2. GraceOver(row, seen).status \in {"ACTIVE", "SUSPENDED"}
    BY DEF GraceOver, Suspended, Row
  <2> QED  BY <2>1, <2>2, SubscriptionAssumption DEF Fresh
<1>3. ASSUME NEW row \in Row, NEW c \in Calls, c.op = "extend"
      PROVE  Fresh(Extended(row, c))
  <2>1. c.days \in Nat \ {0} /\ c.row.trialLeft \in Deadline
    BY <1>3, CallFields
  <2>2. Extended(row, c).status = "TRIALING"
    BY DEF Extended, Row
  <2>3. Extended(row, c).trialLeft = (IF c.row.trialLeft = NoDate THEN 0 ELSE c.row.trialLeft) + c.days
    BY DEF Extended, Row
  <2> QED  BY <2>1, <2>2, <2>3 DEF Fresh, Deadline
<1>4. ASSUME NEW c \in Calls, NEW n \in Counts, c.op = "assign"
      PROVE  Fresh(Assigned(c, n))
  BY <1>4, CallFields, SubscriptionAssumption DEF Fresh, Assigned, CanUseTrial
<1> QED  BY <1>1, <1>2, <1>3, <1>4

LEMMA JobWriteRow ==
  ASSUME TypeInv, NEW j \in Jobs, NEW o \in Orgs, JobWrite(j, o)
  PROVE  \E row \in Row : Save(o, row) /\ Timed(row) /\ Fresh(row)
<1>1. sub[o] \in Row
  BY DEF JobWrite, TypeInv, TypeOK, Existing, Visits
<1> QED  BY <1>1, ChangedRows, GraceOverRow, FreshRows DEF JobWrite, Jobs

(* A step that changes rows saves one, or lets a day pass.                 *)
LEMMA RowSteps ==
  ASSUME TypeInv, [Next]_vars
  PROVE  \/ sub' = sub
         \/ \E o \in Orgs, row \in Row : Save(o, row) /\ Timed(row) /\ Fresh(row)
         \/ \E o \in Orgs, n \in Counts : SyncEmployeeCount(o, n)
         \/ Tick
<1> USE DEF TypeInv
<1>1. ASSUME NEW a \in Admins, AssignTierWrite(a)
      PROVE  \E o \in Orgs, row \in Row : Save(o, row) /\ Timed(row) /\ Fresh(row)
  <2>1. call[a] \in Calls /\ call[a].op = "assign"
    BY <1>1 DEF AssignTierWrite, TypeOK, Idle
  <2>2. call[a].org \in Orgs /\ (call[a].row # NoRow => sub[call[a].org] \in Row)
    BY <2>1, CallFields DEF TypeOK, Existing
  <2> DEFINE n == IF call[a].row = NoRow THEN 0 ELSE sub[call[a].org].count
  <2>3. n \in Counts
    BY <2>2, RowFields, SubscriptionAssumption
  <2>4. Save(call[a].org, Assigned(call[a], n))
    BY <1>1 DEF AssignTierWrite
  <2> QED  BY <2>1, <2>2, <2>3, <2>4, AssignedRow, FreshRows
<1>2. ASSUME NEW a \in Admins,
             SuspendWrite(a) \/ MarkAsExpiredWrite(a) \/ ReactivateWrite(a) \/ ExtendTrialWrite(a)
      PROVE  \E o \in Orgs, row \in Row : Save(o, row) /\ Timed(row) /\ Fresh(row)
  <2>1. call[a] \in Calls /\ call[a].op # "assign"
    BY <1>2 DEF SuspendWrite, MarkAsExpiredWrite, ReactivateWrite, ExtendTrialWrite, TypeOK, Idle
  <2>2. call[a].org \in Orgs /\ sub[call[a].org] \in Row
    BY <2>1, CallFields DEF TypeOK, Existing
  <2> QED  BY <1>2, <2>1, <2>2, ChangedRows, ExtendedRow, FreshRows
       DEF SuspendWrite, MarkAsExpiredWrite, ReactivateWrite, ExtendTrialWrite
<1>3. ASSUME NEW j \in Jobs, NEW o \in Orgs, JobWrite(j, o)
      PROVE  \E row \in Row : Save(o, row) /\ Timed(row) /\ Fresh(row)
  BY <1>3, JobWriteRow
<1>4. ASSUME NEW a \in Admins, AdminNext(a),
             ~AssignTierWrite(a), ~SuspendWrite(a), ~MarkAsExpiredWrite(a),
             ~ReactivateWrite(a), ~ExtendTrialWrite(a)
      PROVE  sub' = sub
  BY <1>4 DEF AdminNext, AssignTierRead, SuspendRead, MarkAsExpiredRead, ReactivateRead,
              ExtendTrialRead, Begin, CallFail
<1>5. ASSUME NEW j \in Jobs, JobNext(j), \A o \in Orgs : ~JobWrite(j, o)
      PROVE  sub' = sub
  BY <1>5 DEF JobNext, JobStart, JobFail
<1>6. Restart \/ UNCHANGED vars => sub' = sub
  BY DEF Restart, vars
<1> QED  BY <1>1, <1>2, <1>3, <1>4, <1>5, <1>6 DEF Next

-----------------------------------------------------------------------------
(* No subscription waits for a deadline it does not have.                  *)
THEOREM SubscriptionNoLimbo == Spec => []NoLimbo
<1>1. Init => NoLimbo
  BY DEF Init, NoLimbo, Timed, NoRow
<1>2. TypeInv /\ NoLimbo /\ [Next]_vars => NoLimbo'
  <2> SUFFICES ASSUME TypeInv, NoLimbo, [Next]_vars, NEW p \in Orgs
               PROVE  Timed(sub'[p])
    BY DEF NoLimbo
  <2>1. Timed(sub[p]) /\ sub[p] \in Row \cup {NoRow}
    BY DEF NoLimbo, TypeInv, TypeOK
  <2>2. CASE sub' = sub
    BY <2>1, <2>2
  <2>3. ASSUME NEW o \in Orgs, NEW row \in Row, Save(o, row), Timed(row)
        PROVE  Timed(sub'[p])
    BY <2>1, <2>3 DEF Save, TypeInv, TypeOK
  <2>4. ASSUME NEW o \in Orgs, NEW n \in Counts, SyncEmployeeCount(o, n)
        PROVE  Timed(sub'[p])
    <3>1. CASE p = o
      <4>1. sub[o] \in Row /\ sub'[o] = [sub[o] EXCEPT !.count = n]
        BY <2>4 DEF SyncEmployeeCount, Save, TypeInv, TypeOK
      <4> QED  BY <2>1, <3>1, <4>1 DEF Timed, Row
    <3>2. CASE p # o
      BY <2>1, <2>4, <3>2 DEF SyncEmployeeCount, Save, TypeInv, TypeOK
    <3> QED  BY <3>1, <3>2
  <2>5. CASE Tick
    BY <2>1, <2>5, DayOlderRow DEF Tick
  <2> QED  BY <2>2, <2>3, <2>4, <2>5, RowSteps
<1> QED  BY <1>1, <1>2, SubscriptionTypes, PTL DEF Spec
-----------------------------------------------------------------------------
(* No deadline is passed over: the row is still to be visited, or its      *)
(* visit went wrong today.                                                 *)
LEMMA VisitSteps ==
  ASSUME TypeInv, [Next]_vars
  PROVE  \/ UNCHANGED <<visit, ran, missed>>
         \/ \E j \in Jobs : JobStart(j)
         \/ \E j \in Jobs, o \in Orgs : JobWrite(j, o) \/ JobFail(j, o)
         \/ Restart
         \/ Tick
<1>1. ASSUME NEW a \in Admins, AdminNext(a)
      PROVE  UNCHANGED <<visit, ran, missed>>
  BY <1>1 DEF AdminNext, AssignTierRead, SuspendRead, MarkAsExpiredRead, ReactivateRead,
              ExtendTrialRead, Begin, AssignTierWrite, SuspendWrite, MarkAsExpiredWrite,
              ReactivateWrite, ExtendTrialWrite, CallFail, Finish
<1>2. ASSUME NEW o \in Orgs, NEW n \in Counts, SyncEmployeeCount(o, n)
      PROVE  UNCHANGED <<visit, ran, missed>>
  BY <1>2 DEF SyncEmployeeCount
<1> QED  BY <1>1, <1>2 DEF Next, JobNext, vars

LEMMA OverdueSaved ==
  ASSUME TypeInv, [Next]_vars, ~Tick, NEW j \in Jobs, NEW o \in Orgs, Overdue(j, sub'[o])
  PROVE  Overdue(j, sub[o])
<1>1. CASE sub' = sub
  BY <1>1
<1>2. ASSUME NEW p \in Orgs, NEW row \in Row, Save(p, row), Fresh(row)
      PROVE  Overdue(j, sub[o])
  BY <1>2 DEF Save, Fresh, Overdue, TypeInv, TypeOK
<1>3. ASSUME NEW p \in Orgs, NEW n \in Counts, SyncEmployeeCount(p, n)
      PROVE  Overdue(j, sub[o])
  <2>1. CASE p = o
    <3>1. sub[o] \in Row /\ sub'[o] = [sub[o] EXCEPT !.count = n]
      BY <1>3, <2>1 DEF SyncEmployeeCount, Save, TypeInv, TypeOK
    <3> QED  BY <3>1 DEF Overdue, Row
  <2>2. CASE p # o
    BY <1>3, <2>2 DEF SyncEmployeeCount, Save, TypeInv, TypeOK
  <2> QED  BY <2>1, <2>2
<1> QED  BY <1>1, <1>2, <1>3, RowSteps

THEOREM SubscriptionDeadlinesServed == Spec => []DeadlinesServed
<1>1. Init => DeadlinesServed
  BY DEF Init, DeadlinesServed
<1>2. TypeInv /\ DeadlinesServed /\ [Next]_vars => DeadlinesServed'
  <2> SUFFICES ASSUME TypeInv, DeadlinesServed, [Next]_vars,
                      NEW j \in ran', NEW o \in Orgs, Overdue(j, sub'[o])
               PROVE  <<j, o>> \in Pending' \cup missed'
    BY DEF DeadlinesServed
  <2>1. j \in Jobs /\ <<j, o>> \in Visits
    BY TypeStep DEF TypeInv, TypeOK, Visits
  <2>2. CASE Tick
    BY <2>2 DEF Tick
  <2> SUFFICES ASSUME ~Tick PROVE <<j, o>> \in Pending' \cup missed'
    BY <2>2
  <2>3. Overdue(j, sub[o])
    BY <2>1, OverdueSaved
  <2>4. j \in ran => <<j, o>> \in Pending \cup missed
    BY <2>3 DEF DeadlinesServed
  <2>5. CASE UNCHANGED <<visit, ran, missed>>
    BY <2>4, <2>5 DEF Pending
  <2>6. ASSUME NEW k \in Jobs, JobStart(k)
        PROVE  <<j, o>> \in Pending' \cup missed'
    <3>1. CASE j = k
      <4>1. Due(j, sub[o])
        BY <2>3, SubscriptionAssumption
           DEF Overdue, Due, TrialOver, GraceExpired, Abandoned, AbandonedSince
      <4>2. visit'[<<j, o>>] = Selected(sub[o])
        BY <2>1, <2>6, <3>1, <4>1 DEF JobStart
      <4>3. sub[o] \in Row
        BY <2>3 DEF Overdue, TypeInv, TypeOK, NoRow
      <4>4. Selected(sub[o]) # NoRow
        BY <4>3, RowFields DEF Selected, NoRow, Statuses
      <4> QED  BY <2>1, <4>2, <4>4 DEF Pending
    <3>2. CASE j # k
      <4>1. j \in ran /\ visit'[<<j, o>>] = visit[<<j, o>>] /\ missed' = missed
        BY <2>1, <2>6, <3>2 DEF JobStart
      <4> QED  BY <2>1, <2>4, <4>1 DEF Pending
    <3> QED  BY <3>1, <3>2
  <2>7. ASSUME NEW k \in Jobs, NEW p \in Orgs, JobWrite(k, p)
        PROVE  <<j, o>> \in Pending' \cup missed'
    <3>1. PICK row \in Row : Save(p, row) /\ Fresh(row)
      BY <2>7, JobWriteRow
    <3>2. p # o
      BY <2>1, <3>1 DEF Save, Fresh, Overdue, TypeInv, TypeOK
    <3>3. visit'[<<j, o>>] = visit[<<j, o>>] /\ ran' = ran /\ missed' = missed
      BY <2>1, <2>7, <3>2 DEF JobWrite, Visited, TypeInv, TypeOK
    <3> QED  BY <2>1, <2>4, <3>3 DEF Pending
  <2>8. ASSUME NEW k \in Jobs, NEW p \in Orgs, JobFail(k, p)
        PROVE  <<j, o>> \in Pending' \cup missed'
    <3>1. /\ ran' = ran /\ missed' = missed \cup {<<k, p>>}
          /\ <<k, p>> # <<j, o>> => visit'[<<j, o>>] = visit[<<j, o>>]
      BY <2>1, <2>8 DEF JobFail, Visited, TypeInv, TypeOK
    <3> QED  BY <2>1, <2>4, <3>1 DEF Pending
  <2>9. CASE Restart
    BY <2>4, <2>9 DEF Restart
  <2> QED  BY <2>5, <2>6, <2>7, <2>8, <2>9, VisitSteps
<1> QED  BY <1>1, <1>2, SubscriptionTypes, PTL DEF Spec
-----------------------------------------------------------------------------
(* One free trial: where assignments do not overlap, the one in progress   *)
(* has read the flag as it is, and the flag is set once a trial started.   *)
Assigning(a, o) == call[a].op = "assign" /\ call[a].org = o

TrialInv ==
  \A o \in Orgs \ crowded :
    /\ \A a, b \in Admins : Assigning(a, o) /\ Assigning(b, o) => a = b
    /\ \A a \in Admins : Assigning(a, o) =>
         /\ call[a].row = NoRow <=> sub[o] = NoRow
         /\ call[a].row # NoRow => call[a].row.trialUsed = sub[o].trialUsed
    /\ trials[o] # 0 => trials[o] = 1 /\ sub[o] # NoRow /\ sub[o].trialUsed

SameTrial(o) ==
  /\ sub'[o] = NoRow <=> sub[o] = NoRow
  /\ sub[o] # NoRow => sub'[o].trialUsed = sub[o].trialUsed

LEMMA ChangedTrial ==
  ASSUME TypeInv, NEW o \in Orgs, sub[o] \in Row, NEW row \in Row,
         Save(o, row), row.trialUsed = sub[o].trialUsed
  PROVE  \A p \in Orgs : SameTrial(p)
<1>1. sub'[o] = row /\ row # NoRow /\ sub[o] # NoRow
  BY RowFields DEF Save, TypeInv, TypeOK
<1>2. \A p \in Orgs : p # o => sub'[p] = sub[p]
  BY DEF Save, TypeInv, TypeOK
<1> QED  BY <1>1, <1>2 DEF SameTrial

(* Only an assignment changes the flag.                                    *)
LEMMA TrialKept ==
  ASSUME TypeInv, [Next]_vars, \A a \in Admins : ~AssignTierWrite(a), NEW p \in Orgs
  PROVE  SameTrial(p)
<1> USE DEF TypeInv
<1>1. ASSUME NEW a \in Admins,
             SuspendWrite(a) \/ MarkAsExpiredWrite(a) \/ ReactivateWrite(a) \/ ExtendTrialWrite(a)
      PROVE  SameTrial(p)
  <2>1. call[a] \in Calls /\ call[a].op # "assign"
    BY <1>1 DEF SuspendWrite, MarkAsExpiredWrite, ReactivateWrite, ExtendTrialWrite, TypeOK, Idle
  <2> DEFINE o == call[a].org
  <2>2. o \in Orgs /\ sub[o] \in Row
    BY <2>1, CallFields DEF TypeOK, Existing
  <2>3. /\ Suspended(sub[o]).trialUsed = sub[o].trialUsed
        /\ Expired(sub[o]).trialUsed = sub[o].trialUsed
        /\ Reactivated(sub[o]).trialUsed = sub[o].trialUsed
        /\ Extended(sub[o], call[a]).trialUsed = sub[o].trialUsed
    BY <2>2 DEF Suspended, Expired, Reactivated, Extended, Row
  <2>4. PICK row \in Row : Save(o, row) /\ row.trialUsed = sub[o].trialUsed
    BY <1>1, <2>1, <2>2, <2>3, ChangedRows, ExtendedRow
       DEF SuspendWrite, MarkAsExpiredWrite, ReactivateWrite, ExtendTrialWrite
  <2> QED  BY <2>2, <2>4, ChangedTrial
<1>2. ASSUME NEW j \in Jobs, NEW o \in Orgs, JobWrite(j, o)
      PROVE  SameTrial(p)
  <2>1. sub[o] \in Row
    BY <1>2 DEF JobWrite, TypeOK, Existing, Visits
  <2>2. \A seen : GraceOver(sub[o], seen).trialUsed = sub[o].trialUsed
    BY <2>1 DEF GraceOver, Suspended, Row
  <2>3. /\ InGrace(sub[o]).trialUsed = sub[o].trialUsed
        /\ Expired(sub[o]).trialUsed = sub[o].trialUsed
    BY <2>1 DEF InGrace, Expired, Row
  <2>4. PICK row \in Row : Save(o, row) /\ row.trialUsed = sub[o].trialUsed
    BY <1>2, <2>1, <2>2, <2>3, ChangedRows, GraceOverRow DEF JobWrite, Jobs
  <2> QED  BY <2>1, <2>4, ChangedTrial
<1>3. ASSUME NEW o \in Orgs, NEW n \in Counts, SyncEmployeeCount(o, n)
      PROVE  SameTrial(p)
  <2>1. sub[o] \in Row
    BY <1>3 DEF SyncEmployeeCount, TypeOK
  <2>2. [sub[o] EXCEPT !.count = n] \in Row /\ [sub[o] EXCEPT !.count = n].trialUsed = sub[o].trialUsed
    BY <2>1 DEF Row
  <2> QED  BY <1>3, <2>1, <2>2, ChangedTrial DEF SyncEmployeeCount
<1>4. CASE Tick
  <2>1. sub[p] \in Row \cup {NoRow} /\ sub'[p] = DayOlder(sub[p])
    BY <1>4 DEF Tick, TypeOK
  <2>2. sub[p] \in Row => DayOlder(sub[p]).trialUsed = sub[p].trialUsed
    BY RowFields DEF DayOlder, Row
  <2> QED  BY <2>1, <2>2, DayOlderRow DEF SameTrial
<1>5. CASE sub' = sub
  BY <1>5 DEF SameTrial
<1>6. ASSUME NEW a \in Admins, AdminNext(a), ~SuspendWrite(a), ~MarkAsExpiredWrite(a),
             ~ReactivateWrite(a), ~ExtendTrialWrite(a)
      PROVE  sub' = sub
  BY <1>6 DEF AdminNext, AssignTierRead, SuspendRead, MarkAsExpiredRead, ReactivateRead,
              ExtendTrialRead, Begin, CallFail
<1>7. ASSUME NEW j \in Jobs, JobNext(j), \A o \in Orgs : ~JobWrite(j, o)
      PROVE  sub' = sub
  BY <1>7 DEF JobNext, JobStart, JobFail
<1>8. Restart \/ UNCHANGED vars => sub' = sub
  BY DEF Restart, vars
<1> QED  BY <1>1, <1>2, <1>3, <1>4, <1>5, <1>6, <1>7, <1>8 DEF Next

(* Only the beginning of an assignment adds one in progress.               *)
LEMMA AssigningSteps ==
  ASSUME TypeInv, [Next]_vars,
         \A a \in Admins, o \in Orgs, tier \in Tiers, force \in BOOLEAN :
            ~AssignTierRead(a, o, tier, force),
         \A a \in Admins : ~AssignTierWrite(a)
  PROVE  /\ crowded' = crowded /\ trials' = trials
         /\ \A b \in Admins : call'[b] = call[b] \/ call'[b].op # "assign"
<1> USE DEF TypeInv
<1>1. ASSUME NEW a \in Admins, NEW o \in Orgs,
             SuspendRead(a, o) \/ MarkAsExpiredRead(a, o) \/ ReactivateRead(a, o)
      PROVE  /\ crowded' = crowded /\ trials' = trials
             /\ \A b \in Admins : call'[b] = call[b] \/ call'[b].op # "assign"
  BY <1>1 DEF SuspendRead, MarkAsExpiredRead, ReactivateRead, Begin, TypeOK
<1>2. ASSUME NEW a \in Admins, NEW o \in Orgs, NEW days \in Extensions, ExtendTrialRead(a, o, days)
      PROVE  /\ crowded' = crowded /\ trials' = trials
             /\ \A b \in Admins : call'[b] = call[b] \/ call'[b].op # "assign"
  BY <1>2 DEF ExtendTrialRead, Begin, TypeOK
<1>3. ASSUME NEW a \in Admins,
             \/ SuspendWrite(a) \/ MarkAsExpiredWrite(a) \/ ReactivateWrite(a)
             \/ ExtendTrialWrite(a) \/ CallFail(a)
      PROVE  /\ crowded' = crowded /\ trials' = trials
             /\ \A b \in Admins : call'[b] = call[b] \/ call'[b].op # "assign"
  BY <1>3 DEF SuspendWrite, MarkAsExpiredWrite, ReactivateWrite, ExtendTrialWrite, CallFail,
              Finish, Idle, TypeOK
<1>4. ASSUME \/ \E j \in Jobs : JobNext(j)
             \/ \E o \in Orgs, n \in Counts : SyncEmployeeCount(o, n)
             \/ Tick \/ UNCHANGED vars
      PROVE  crowded' = crowded /\ trials' = trials /\ call' = call
  BY <1>4 DEF JobNext, JobStart, JobWrite, JobFail, SyncEmployeeCount, Tick, vars
<1>5. Restart => crowded' = crowded /\ trials' = trials /\ \A b \in Admins : call'[b].op # "assign"
  BY DEF Restart, Idle
<1> QED  BY <1>1, <1>2, <1>3, <1>4, <1>5 DEF Next, AdminNext

THEOREM SubscriptionTrialOnce == Spec => []TrialOnce
<1>1. Init => TrialInv
  BY DEF Init, TrialInv, Assigning, Idle
<1>2. TypeInv /\ TrialInv /\ [Next]_vars => TrialInv'
  <2> SUFFICES ASSUME TypeInv, TrialInv, [Next]_vars PROVE TrialInv'
    OBVIOUS
  <2> USE DEF TypeInv
  <2>1. ASSUME NEW a \in Admins, NEW o \in Orgs, NEW tier \in Tiers, NEW force \in BOOLEAN,
               AssignTierRead(a, o, tier, force)
        PROVE  TrialInv'
    <3>1. /\ call[a] = Idle /\ UNCHANGED <<sub, trials>>
          /\ call' = [call EXCEPT ![a] = [op |-> "assign", org |-> o, row |-> Read(sub[o]),
                                          tier |-> tier, force |-> force]]
          /\ crowded \subseteq crowded'
          /\ o \notin crowded' => \A b \in Admins : ~Assigning(b, o)
      BY <2>1 DEF AssignTierRead, Begin, Assigning
    <3>2. /\ call'[a].op = "assign" /\ call'[a].org = o /\ call'[a].row = Read(sub[o])
          /\ \A b \in Admins \ {a} : call'[b] = call[b]
      BY <3>1 DEF TypeOK
    <3>3. sub[o] \in Row => Read(sub[o]).trialUsed = sub[o].trialUsed
      BY RowFields DEF Read
    <3>4. sub[o] \in Row \cup {NoRow}
      BY DEF TypeOK
    <3>5. /\ Read(sub[o]) = NoRow <=> sub[o] = NoRow
          /\ Read(sub[o]) # NoRow => Read(sub[o]).trialUsed = sub[o].trialUsed
      BY <3>3, <3>4, ReadTypes
    <3> QED  BY <3>1, <3>2, <3>5 DEF TrialInv, Assigning
  <2>2. ASSUME NEW a \in Admins, AssignTierWrite(a)
        PROVE  TrialInv'
    <3>1. call[a] \in Calls /\ call[a].op = "assign"
      BY <2>2 DEF AssignTierWrite, TypeOK, Idle
    <3>2. PICK o \in Orgs :
            /\ o = call[a].org
            /\ call[a].row # NoRow => sub[o] \in Row /\ call[a].row.trialUsed \in BOOLEAN
      BY <3>1, CallFields DEF TypeOK, Existing
    <3> DEFINE n == IF call[a].row = NoRow THEN 0 ELSE sub[o].count
    <3>3. n \in Counts
      BY <3>2, RowFields, SubscriptionAssumption
    <3>4. /\ Assigned(call[a], n) \in Row /\ Assigned(call[a], n) # NoRow
          /\ TrialUsed(call[a]) => Assigned(call[a], n).trialUsed = TRUE
      BY <3>1, <3>3, AssignedRow, RowFields DEF Assigned
    <3>5. /\ sub'[o] = Assigned(call[a], n)
          /\ \A p \in Orgs \ {o} : sub'[p] = sub[p]
      BY <2>2, <3>2 DEF AssignTierWrite, Save, TypeOK
    <3>6. /\ call'[a] = Idle /\ \A b \in Admins \ {a} : call'[b] = call[b]
          /\ crowded' = crowded
      BY <2>2 DEF AssignTierWrite, Finish, TypeOK
    <3>7. /\ \A p \in Orgs \ {o} : trials'[p] = trials[p]
          /\ trials'[o] = IF CanUseTrial(call[a]) /\ ~call[a].force THEN trials[o] + 1 ELSE trials[o]
      BY <2>2, <3>2 DEF AssignTierWrite, TypeOK
    <3>8. \A b \in Admins, p \in Orgs : Assigning(b, p)' => Assigning(b, p) /\ call'[b] = call[b] /\ b # a
      BY <3>6 DEF Assigning, Idle
    <3>9. o \notin crowded =>
            /\ \A b \in Admins : ~Assigning(b, o)'
            /\ trials'[o] # 0 => trials'[o] = 1 /\ sub'[o] # NoRow /\ sub'[o].trialUsed
      <4> SUFFICES ASSUME o \notin crowded
                   PROVE  /\ \A b \in Admins : ~Assigning(b, o)'
                          /\ trials'[o] # 0 => trials'[o] = 1 /\ sub'[o] # NoRow /\ sub'[o].trialUsed
        OBVIOUS
      <4>1. Assigning(a, o)
        BY <3>1, <3>2 DEF Assigning
      <4>2. /\ \A b \in Admins : Assigning(b, o) => a = b
            /\ call[a].row = NoRow <=> sub[o] = NoRow
            /\ call[a].row # NoRow => call[a].row.trialUsed = sub[o].trialUsed
            /\ trials[o] # 0 => trials[o] = 1 /\ sub[o] # NoRow /\ sub[o].trialUsed
        BY <3>2, <4>1 DEF TrialInv
      <4>3. trials[o] # 0 => call[a].row # NoRow /\ call[a].row.trialUsed
        BY <4>2
      <4>6. \A b \in Admins : ~Assigning(b, o)'
        <5> SUFFICES ASSUME NEW b \in Admins, Assigning(b, o)'
                     PROVE  FALSE
          OBVIOUS
        <5>1. call'[b].op = "assign" /\ b # a /\ call'[b] = call[b] /\ call[b].org = o
          BY <3>6 DEF Assigning, Idle
        <5> QED  BY <4>2, <5>1 DEF Assigning
      <4>4. CASE CanUseTrial(call[a]) /\ ~call[a].force
        <5>1. trials[o] = 0
          BY <4>3, <4>4 DEF CanUseTrial
        <5>2. trials'[o] = 1
          BY <3>7, <4>4, <5>1
        <5>3. TrialUsed(call[a])
          BY <4>4 DEF TrialUsed
        <5>4. sub'[o] # NoRow /\ sub'[o].trialUsed = TRUE
          BY <3>4, <3>5, <5>3
        <5> QED  BY <4>6, <5>2, <5>4
      <4>5. CASE ~(CanUseTrial(call[a]) /\ ~call[a].force)
        <5>1. trials'[o] = trials[o]
          BY <3>7, <4>5
        <5>2. trials[o] # 0 => TrialUsed(call[a])
          BY <4>3 DEF TrialUsed
        <5>3. TrialUsed(call[a]) => sub'[o] # NoRow /\ sub'[o].trialUsed = TRUE
          BY <3>4, <3>5
        <5> QED  BY <4>2, <4>6, <5>1, <5>2, <5>3
      <4> QED  BY <4>4, <4>5
    <3>10. ASSUME NEW p \in Orgs \ crowded', p # o
           PROVE  /\ \A b, c \in Admins : Assigning(b, p)' /\ Assigning(c, p)' => b = c
                  /\ \A b \in Admins : Assigning(b, p)' =>
                       /\ call'[b].row = NoRow <=> sub'[p] = NoRow
                       /\ call'[b].row # NoRow => call'[b].row.trialUsed = sub'[p].trialUsed
                  /\ trials'[p] # 0 => trials'[p] = 1 /\ sub'[p] # NoRow /\ sub'[p].trialUsed
      BY <3>5, <3>6, <3>7, <3>8, <3>10 DEF TrialInv
    <3>11. ASSUME NEW p \in Orgs \ crowded'
           PROVE  /\ \A b, c \in Admins : Assigning(b, p)' /\ Assigning(c, p)' => b = c
                  /\ \A b \in Admins : Assigning(b, p)' =>
                       /\ call'[b].row = NoRow <=> sub'[p] = NoRow
                       /\ call'[b].row # NoRow => call'[b].row.trialUsed = sub'[p].trialUsed
                  /\ trials'[p] # 0 => trials'[p] = 1 /\ sub'[p] # NoRow /\ sub'[p].trialUsed
      <4>1. CASE p = o
        BY <3>6, <3>9, <4>1
      <4>2. CASE p # o
        BY <3>10, <4>2
      <4> QED  BY <4>1, <4>2
    <3> QED  BY <3>11 DEF TrialInv
  <2>3. CASE /\ \A a \in Admins, o \in Orgs, tier \in Tiers, force \in BOOLEAN :
                    ~AssignTierRead(a, o, tier, force)
             /\ \A a \in Admins : ~AssignTierWrite(a)
    <3>1. /\ crowded' = crowded /\ trials' = trials
          /\ \A b \in Admins : call'[b] = call[b] \/ call'[b].op # "assign"
      BY <2>3, AssigningSteps
    <3>2. \A p \in Orgs : SameTrial(p)
      BY <2>3, TrialKept
    <3>3. \A b \in Admins, p \in Orgs : Assigning(b, p)' => Assigning(b, p) /\ call'[b] = call[b]
      BY <3>1 DEF Assigning
    <3>4. ASSUME NEW p \in Orgs \ crowded
          PROVE  /\ \A b, c \in Admins : Assigning(b, p)' /\ Assigning(c, p)' => b = c
                 /\ \A b \in Admins : Assigning(b, p)' =>
                      /\ call'[b].row = NoRow <=> sub'[p] = NoRow
                      /\ call'[b].row # NoRow => call'[b].row.trialUsed = sub'[p].trialUsed
                 /\ trials'[p] # 0 => trials'[p] = 1 /\ sub'[p] # NoRow /\ sub'[p].trialUsed
      BY <3>1, <3>2, <3>3 DEF TrialInv, SameTrial
    <3> QED  BY <3>1, <3>4 DEF TrialInv
  <2> QED  BY <2>1, <2>2, <2>3
<1>3. TypeInv /\ TrialInv => TrialOnce
  BY DEF TypeInv, TypeOK, TrialInv, TrialOnce
<1> QED  BY <1>1, <1>2, <1>3, SubscriptionTypes, PTL DEF Spec
-----------------------------------------------------------------------------
(* The implementation of the life cycle. Seen: what calls and visits have  *)
(* checked of the row they read; a visit belongs to a job that has started *)
(* today, so that the job's query never replaces a visit.                  *)
Seen ==
  /\ \A a \in Admins : /\ call[a].op = "expire" => call[a].row.status = "SUSPENDED"
                       /\ call[a].op = "suspend" => call[a].row.status # "SUSPENDED"
  /\ \A j \in Jobs, o \in Orgs : visit[<<j, o>>] # NoRow =>
       /\ j \in ran
       /\ j = "trial" => visit[<<j, o>>].status = "TRIALING"
       /\ j = "grace" => visit[<<j, o>>].status = "GRACE_PERIOD"
       /\ j = "abandoned" => visit[<<j, o>>].status = "SUSPENDED"

LEMMA SeenStep ==
  ASSUME TypeInv, Seen, [Next]_vars
  PROVE  Seen'
<1> USE DEF TypeInv
<1>1. ASSUME NEW a \in Admins, AdminNext(a)
      PROVE  Seen'
  <2>1. ASSUME NEW o \in Orgs,
               SuspendRead(a, o) \/ MarkAsExpiredRead(a, o) \/ ReactivateRead(a, o)
        PROVE  Seen'
    <3>1. sub[o] \in Row
      BY <2>1 DEF SuspendRead, MarkAsExpiredRead, ReactivateRead, TypeOK
    <3>2. Read(sub[o]).status = sub[o].status
      BY <3>1, RowFields DEF Read
    <3>3. \A b \in Admins : call'[b] = call[b] \/
            /\ call'[b].op = "expire" => call'[b].row.status = "SUSPENDED"
            /\ call'[b].op = "suspend" => call'[b].row.status # "SUSPENDED"
      BY <2>1, <3>2 DEF SuspendRead, MarkAsExpiredRead, ReactivateRead, MaySuspend, MayExpire,
                        Begin, TypeOK
    <3>4. UNCHANGED <<visit, ran>>
      BY <2>1 DEF SuspendRead, MarkAsExpiredRead, ReactivateRead, Begin
    <3> QED  BY <3>3, <3>4 DEF Seen
  <2>2. ASSUME NEW o \in Orgs,
               \/ \E tier \in Tiers, force \in BOOLEAN : AssignTierRead(a, o, tier, force)
               \/ \E days \in Extensions : ExtendTrialRead(a, o, days)
        PROVE  Seen'
    <3>1. /\ UNCHANGED <<visit, ran>>
          /\ \A b \in Admins : call'[b] = call[b] \/ call'[b].op \in {"assign", "extend"}
      BY <2>2 DEF AssignTierRead, ExtendTrialRead, Begin, TypeOK
    <3> QED  BY <3>1 DEF Seen
  <2>3. ASSUME Finish(a)
        PROVE  Seen'
    <3>1. /\ UNCHANGED <<visit, ran>>
          /\ \A b \in Admins : call'[b] = call[b] \/ call'[b].op = "idle"
      BY <2>3 DEF Finish, Idle, TypeOK
    <3> QED  BY <3>1 DEF Seen
  <2> QED  BY <1>1, <2>1, <2>2, <2>3 DEF AdminNext, AssignTierWrite, SuspendWrite,
             MarkAsExpiredWrite, ReactivateWrite, ExtendTrialWrite, CallFail
<1>2. ASSUME NEW j \in Jobs, JobStart(j)
      PROVE  Seen'
  <2>1. ASSUME NEW k \in Jobs, NEW o \in Orgs, visit'[<<k, o>>] # NoRow
        PROVE  /\ k \in ran'
               /\ k = "trial" => visit'[<<k, o>>].status = "TRIALING"
               /\ k = "grace" => visit'[<<k, o>>].status = "GRACE_PERIOD"
               /\ k = "abandoned" => visit'[<<k, o>>].status = "SUSPENDED"
    <3>1. <<k, o>> \in Visits
      BY DEF Visits
    <3>2. CASE k = j /\ Due(j, sub[o])
      <4>1. visit'[<<k, o>>] = Selected(sub[o]) /\ k \in ran'
        BY <1>2, <3>1, <3>2 DEF JobStart
      <4> QED  BY <3>2, <4>1 DEF Selected, Due, TrialOver, GraceExpired, Abandoned
    <3>3. CASE ~(k = j /\ Due(j, sub[o]))
      <4>1. visit'[<<k, o>>] = visit[<<k, o>>] /\ ran \subseteq ran'
        BY <1>2, <3>1, <3>3 DEF JobStart
      <4> QED  BY <2>1, <4>1 DEF Seen
    <3> QED  BY <3>2, <3>3
  <2>2. call' = call
    BY <1>2 DEF JobStart
  <2> QED  BY <2>1, <2>2 DEF Seen
<1>3. ASSUME NEW j \in Jobs, NEW o \in Orgs, JobWrite(j, o) \/ JobFail(j, o)
      PROVE  Seen'
  <2>1. /\ UNCHANGED <<call, ran>>
        /\ \A v \in Visits : visit'[v] = visit[v] \/ visit'[v] = NoRow
    BY <1>3 DEF JobWrite, JobFail, Visited, TypeOK
  <2>2. \A k \in Jobs, p \in Orgs : <<k, p>> \in Visits
    BY DEF Visits
  <2> QED  BY <2>1, <2>2 DEF Seen
<1>4. ASSUME \/ \E o \in Orgs, n \in Counts : SyncEmployeeCount(o, n)
             \/ UNCHANGED vars
      PROVE  Seen'
  <2>1. UNCHANGED <<call, visit, ran>>
    BY <1>4 DEF SyncEmployeeCount, vars
  <2> QED  BY <2>1 DEF Seen
<1>5. CASE Restart
  BY <1>5 DEF Restart, Seen, Idle, Visits
<1>6. CASE Tick
  <2>1. \A j \in Jobs, o \in Orgs : visit'[<<j, o>>] = NoRow
    BY <1>6 DEF Tick, Quiet, Pending, Visits
  <2>2. call' = call
    BY <1>6 DEF Tick
  <2> QED  BY <2>1, <2>2 DEF Seen
<1> QED  BY <1>1, <1>2, <1>3, <1>4, <1>5, <1>6 DEF Next, JobNext
Behind(a, p) == call[a] # Idle /\ call[a].org = p /\ View(call[a].row) # View(sub[p])
BehindVisit(j, p) == visit[<<j, p>>] # NoRow /\ View(visit[<<j, p>>]) # View(sub[p])

Lawful(x, y) ==
  \/ y \in {"TRIALING", "ACTIVE"}
  \/ x = "TRIALING" /\ y = "GRACE_PERIOD"
  \/ x \in Statuses \ {"SUSPENDED"} /\ y = "SUSPENDED"
  \/ x = "SUSPENDED" /\ y = "EXPIRED"

(* The standings allow one organisation to move and any to settle.         *)
Moves(o) ==
  /\ \A p \in Orgs \ {o} : Standing(p)' = Standing(p)
  /\ \/ Standing(o)' = "CONTENDED"
     \/ Standing(o) = "CONTENDED" /\ Standing(o)' \in Statuses
     \/ Lawful(Standing(o), Standing(o)')

Settled ==
  \A p \in Orgs : \/ Standing(p)' = Standing(p)
                  \/ Standing(p) = "CONTENDED" /\ Standing(p)' \in Statuses

LEMMA Views ==
  ASSUME NEW row \in Row \cup {NoRow}
  PROVE  /\ View(Read(row)) = View(row)
         /\ row # NoRow => View(Selected(row)) = View(row)
         /\ View(row).status = row.status
<1>1. CASE row = NoRow
  BY <1>1 DEF View, Read
<1>2. CASE row \in Row
  <2>1. row # NoRow /\ Read(row) # NoRow
    BY <1>2, RowFields, ReadTypes
  <2>2. Selected(row) # NoRow
    BY <1>2, RowFields DEF Selected, NoRow, Statuses
  <2> QED  BY <2>1, <2>2 DEF View, Read, Selected
<1> QED  BY <1>1, <1>2

(* Two rows of the same view have the same status.                         *)
LEMMA ViewStatus ==
  ASSUME NEW x, NEW y, View(x) = View(y)
  PROVE  x.status = y.status
  BY DEF View

(* Nothing is behind an organisation that has no row yet.                  *)
LEMMA OutdatedRow ==
  ASSUME TypeInv, NEW p \in Orgs, Outdated(p)
  PROVE  sub[p] \in Row /\ sub[p].status \in Statuses
<1>1. CASE \E a \in Admins : Behind(a, p)
  <2>1. PICK a \in Admins : Behind(a, p)
    BY <1>1
  <2>2. sub[p] # NoRow
    BY <2>1 DEF Behind, TypeInv, Existing
  <2> QED  BY <2>2, RowFields DEF TypeInv, TypeOK
<1>2. CASE \E j \in Jobs : BehindVisit(j, p)
  <2>1. PICK j \in Jobs : BehindVisit(j, p)
    BY <1>2
  <2>2. <<j, p>> \in Visits
    BY DEF Visits
  <2>3. sub[p] # NoRow
    BY <2>1, <2>2 DEF BehindVisit, TypeInv, Existing
  <2> QED  BY <2>3, RowFields DEF TypeInv, TypeOK
<1> QED  BY <1>1, <1>2 DEF Outdated, Behind, BehindVisit

(* A standing depends on the row and on what is behind it.                 *)
LEMMA StandingKept ==
  ASSUME NEW p \in Orgs, sub'[p].status = sub[p].status,
         \A a \in Admins : Behind(a, p)' <=> Behind(a, p),
         \A j \in Jobs : BehindVisit(j, p)' <=> BehindVisit(j, p)
  PROVE  Standing(p)' = Standing(p)
<1>1. Outdated(p)' <=> Outdated(p)
  BY DEF Outdated, Behind, BehindVisit
<1> QED  BY <1>1 DEF Standing

(* What drops out without a write can only settle.                         *)
LEMMA StandingDropped ==
  ASSUME TypeInv, sub' = sub,
         \A a \in Admins : call'[a] \in {call[a], Idle},
         \A v \in Visits : visit'[v] \in {visit[v], NoRow}
  PROVE  Settled
<1> SUFFICES ASSUME NEW p \in Orgs
             PROVE  \/ Standing(p)' = Standing(p)
                    \/ Standing(p) = "CONTENDED" /\ Standing(p)' \in Statuses
  BY DEF Settled
<1>1. Outdated(p)' => Outdated(p)
  BY DEF Outdated, Visits
<1>2. Outdated(p) => sub[p].status \in Statuses
  BY OutdatedRow
<1> QED  BY <1>1, <1>2 DEF Standing

(* A write moves its own organisation only, and lawfully unless something  *)
(* was behind it.                                                          *)
LEMMA StandingSaved ==
  ASSUME TypeInv, NEW o \in Orgs, NEW row \in Row, Save(o, row),
         \A a \in Admins : \/ call'[a] = call[a]
                           \/ call[a].org = o /\ call'[a] = Idle,
         \A j \in Jobs, p \in Orgs \ {o} : visit'[<<j, p>>] = visit[<<j, p>>],
         Outdated(o) \/ Lawful(sub[o].status, row.status)
  PROVE  Moves(o)
<1>1. sub'[o] = row /\ \A p \in Orgs \ {o} : sub'[p] = sub[p]
  BY DEF Save, TypeInv, TypeOK
<1>2. ASSUME NEW p \in Orgs \ {o}
      PROVE  Standing(p)' = Standing(p)
  <2>1. \A a \in Admins : Behind(a, p)' <=> Behind(a, p)
    BY <1>1 DEF Behind
  <2>2. \A j \in Jobs : BehindVisit(j, p)' <=> BehindVisit(j, p)
    BY <1>1 DEF BehindVisit
  <2> QED  BY <1>1, <2>1, <2>2, StandingKept
<1>3. \/ Standing(o)' = "CONTENDED"
      \/ Standing(o) = "CONTENDED" /\ Standing(o)' \in Statuses
      \/ Lawful(Standing(o), Standing(o)')
  <2>1. row.status \in Statuses
    BY RowFields
  <2> QED  BY <1>1, <2>1 DEF Standing
<1> QED  BY <1>2, <1>3 DEF Moves
(* A call begins on the row as it is, so it is not behind.                 *)
LEMMA StandingBegun ==
  ASSUME TypeInv, NEW a \in Admins, NEW o \in Orgs, NEW c, Begin(a, c),
         c.org = o, c.row = Read(sub[o])
  PROVE  Settled
<1> SUFFICES ASSUME NEW p \in Orgs
             PROVE  Standing(p)' = Standing(p)
  BY DEF Settled
<1>1. /\ call[a] = Idle /\ call'[a] = c /\ UNCHANGED <<sub, visit>>
      /\ \A b \in Admins \ {a} : call'[b] = call[b]
  BY DEF Begin, TypeInv, TypeOK
<1>2. View(c.row) = View(sub[o])
  BY Views DEF TypeInv, TypeOK
<1>3. \A b \in Admins : Behind(b, p)' <=> Behind(b, p)
  BY <1>1, <1>2 DEF Behind
<1>4. \A j \in Jobs : BehindVisit(j, p)' <=> BehindVisit(j, p)
  BY <1>1 DEF BehindVisit
<1> QED  BY <1>1, <1>3, <1>4, StandingKept

LEMMA CallStanding ==
  ASSUME TypeInv, Seen, NEW a \in Admins, AdminNext(a)
  PROVE  Settled \/ \E o \in Orgs : Moves(o)
<1> USE DEF TypeInv
<1>1. ASSUME NEW o \in Orgs,
             \/ \E tier \in Tiers, force \in BOOLEAN : AssignTierRead(a, o, tier, force)
             \/ SuspendRead(a, o) \/ MarkAsExpiredRead(a, o) \/ ReactivateRead(a, o)
             \/ \E days \in Extensions : ExtendTrialRead(a, o, days)
      PROVE  Settled
  <2>1. \E c : Begin(a, c) /\ c.org = o /\ c.row = Read(sub[o])
    <3>1. CASE \E tier \in Tiers, force \in BOOLEAN : AssignTierRead(a, o, tier, force)
      BY <3>1 DEF AssignTierRead
    <3>2. CASE SuspendRead(a, o)
      BY <3>2 DEF SuspendRead
    <3>3. CASE MarkAsExpiredRead(a, o)
      BY <3>3 DEF MarkAsExpiredRead
    <3>4. CASE ReactivateRead(a, o)
      BY <3>4 DEF ReactivateRead
    <3>5. CASE \E days \in Extensions : ExtendTrialRead(a, o, days)
      BY <3>5 DEF ExtendTrialRead
    <3> QED  BY <1>1, <3>1, <3>2, <3>3, <3>4, <3>5
  <2> QED  BY <2>1, StandingBegun
<1>2. CASE CallFail(a)
  <2>1. /\ sub' = sub /\ visit' = visit
        /\ \A b \in Admins : call'[b] \in {call[b], Idle}
    BY <1>2 DEF CallFail, Finish, TypeOK
  <2> QED  BY <2>1, StandingDropped
<1>3. ASSUME \/ AssignTierWrite(a) \/ SuspendWrite(a) \/ MarkAsExpiredWrite(a)
             \/ ReactivateWrite(a) \/ ExtendTrialWrite(a)
      PROVE  \E o \in Orgs : Moves(o)
  <2>1. call[a] \in Calls
    BY <1>3 DEF AssignTierWrite, SuspendWrite, MarkAsExpiredWrite, ReactivateWrite,
                ExtendTrialWrite, TypeOK, Idle
  <2>2. PICK o \in Orgs : o = call[a].org
    BY <2>1, CallFields
  <2>3. call[a].row # NoRow => sub[o] \in Row
    BY <2>1, <2>2, CallFields DEF TypeOK, Existing
  <2>4. Finish(a)
    BY <1>3 DEF AssignTierWrite, SuspendWrite, MarkAsExpiredWrite, ReactivateWrite, ExtendTrialWrite
  <2>5. /\ visit' = visit
        /\ \A b \in Admins : call'[b] = call[b] \/ (call[b].org = o /\ call'[b] = Idle)
    BY <2>2, <2>4 DEF Finish, TypeOK
  <2>6. Outdated(o) \/ call[a].row.status = sub[o].status
    <3>1. call[a] # Idle
      BY <2>1, CallFields
    <3>2. ~Outdated(o) => View(call[a].row) = View(sub[o])
      BY <2>2, <3>1 DEF Outdated
    <3> QED  BY <3>2, ViewStatus
  <2>7. \E row \in Row : Save(o, row) /\ (Outdated(o) \/ Lawful(sub[o].status, row.status))
    <3>1. CASE AssignTierWrite(a)
      <4> DEFINE n == IF call[a].row = NoRow THEN 0 ELSE sub[o].count
      <4>1. n \in Counts
        BY <2>3, RowFields, SubscriptionAssumption
      <4>2. call[a].op = "assign" /\ Save(o, Assigned(call[a], n))
        BY <2>2, <3>1 DEF AssignTierWrite
      <4>3. Assigned(call[a], n).status \in {"TRIALING", "ACTIVE"}
        BY DEF Assigned
      <4> QED  BY <2>1, <4>1, <4>2, <4>3, AssignedRow DEF Lawful
    <3>2. CASE SuspendWrite(a)
      <4>1. /\ call[a].op = "suspend" /\ Save(o, Suspended(sub[o]))
            /\ call[a].row.status # "SUSPENDED" /\ sub[o] \in Row
        BY <2>1, <2>2, <2>3, <3>2, CallFields DEF SuspendWrite, Seen
      <4>2. Suspended(sub[o]).status = "SUSPENDED" /\ sub[o].status \in Statuses
        BY <4>1, RowFields DEF Suspended, Row
      <4> QED  BY <2>6, <4>1, <4>2, ChangedRows DEF Lawful
    <3>3. CASE MarkAsExpiredWrite(a)
      <4>1. /\ call[a].op = "expire" /\ Save(o, Expired(sub[o]))
            /\ call[a].row.status = "SUSPENDED" /\ sub[o] \in Row
        BY <2>1, <2>2, <2>3, <3>3, CallFields DEF MarkAsExpiredWrite, Seen
      <4>2. Expired(sub[o]).status = "EXPIRED"
        BY <4>1 DEF Expired, Row
      <4> QED  BY <2>6, <4>1, <4>2, ChangedRows DEF Lawful
    <3>4. CASE ReactivateWrite(a)
      <4>1. /\ call[a].op = "reactivate" /\ Save(o, Reactivated(sub[o])) /\ sub[o] \in Row
        BY <2>1, <2>2, <2>3, <3>4, CallFields DEF ReactivateWrite
      <4>2. Reactivated(sub[o]).status = "ACTIVE"
        BY <4>1 DEF Reactivated, Row
      <4> QED  BY <4>1, <4>2, ChangedRows DEF Lawful
    <3>5. CASE ExtendTrialWrite(a)
      <4>1. /\ call[a].op = "extend" /\ Save(o, Extended(sub[o], call[a])) /\ sub[o] \in Row
        BY <2>1, <2>2, <2>3, <3>5, CallFields DEF ExtendTrialWrite
      <4>2. Extended(sub[o], call[a]).status = "TRIALING"
        BY <4>1 DEF Extended, Row
      <4> QED  BY <2>1, <4>1, <4>2, ExtendedRow DEF Lawful
    <3> QED  BY <1>3, <3>1, <3>2, <3>3, <3>4, <3>5
  <2> QED  BY <2>5, <2>7, StandingSaved
<1> QED  BY <1>1, <1>2, <1>3 DEF AdminNext

LEMMA JobStanding ==
  ASSUME TypeInv, Seen, NEW j \in Jobs, JobNext(j)
  PROVE  Settled \/ \E o \in Orgs : Moves(o)
<1> USE DEF TypeInv
<1>1. CASE JobStart(j)
  <2> SUFFICES ASSUME NEW p \in Orgs
               PROVE  Standing(p)' = Standing(p)
    BY DEF Settled
  <2>1. UNCHANGED <<sub, call>>
    BY <1>1 DEF JobStart
  <2>2. ASSUME NEW k \in Jobs
        PROVE  BehindVisit(k, p)' <=> BehindVisit(k, p)
    <3>1. <<k, p>> \in Visits
      BY DEF Visits
    <3>2. CASE k = j /\ Due(j, sub[p])
      <4>1. visit[<<k, p>>] = NoRow
        BY <1>1, <3>2 DEF JobStart, Seen
      <4>2. sub[p] \in Row /\ sub[p] # NoRow
        BY <3>2 DEF Due, TrialOver, GraceExpired, Abandoned, NoRow, TypeOK
      <4>3. visit'[<<k, p>>] = Selected(sub[p])
        BY <1>1, <3>1, <3>2 DEF JobStart
      <4> QED  BY <2>1, <4>1, <4>2, <4>3, Views DEF BehindVisit
    <3>3. CASE ~(k = j /\ Due(j, sub[p]))
      <4>1. visit'[<<k, p>>] = visit[<<k, p>>]
        BY <1>1, <3>1, <3>3 DEF JobStart
      <4> QED  BY <2>1, <4>1 DEF BehindVisit
    <3> QED  BY <3>2, <3>3
  <2>3. \A a \in Admins : Behind(a, p)' <=> Behind(a, p)
    BY <2>1 DEF Behind
  <2> QED  BY <2>1, <2>2, <2>3, StandingKept
<1>2. ASSUME NEW o \in Orgs, JobFail(j, o)
      PROVE  Settled
  <2>1. /\ UNCHANGED <<sub, call>>
        /\ \A v \in Visits : visit'[v] \in {visit[v], NoRow}
    BY <1>2 DEF JobFail, Visited, TypeOK
  <2> QED  BY <2>1, StandingDropped
<1>3. ASSUME NEW o \in Orgs, JobWrite(j, o)
      PROVE  Moves(o)
  <2>1. <<j, o>> \in Visits /\ visit[<<j, o>>] # NoRow /\ sub[o] \in Row
    BY <1>3 DEF JobWrite, TypeOK, Existing, Visits
  <2>2. Outdated(o) \/ visit[<<j, o>>].status = sub[o].status
    BY <2>1, ViewStatus DEF Outdated
  <2>3. sub[o].status \in Statuses
    BY <2>1, RowFields
  <2>4. \E row \in Row : Save(o, row) /\ (Outdated(o) \/ Lawful(sub[o].status, row.status))
    <3>1. CASE j = "trial"
      <4>1. Save(o, InGrace(sub[o]))
        BY <1>3, <3>1 DEF JobWrite
      <4>2. InGrace(sub[o]).status = "GRACE_PERIOD"
        BY <2>1 DEF InGrace, Row
      <4> QED  BY <2>1, <2>2, <3>1, <4>1, <4>2, ChangedRows DEF Seen, Lawful
    <3>2. CASE j = "grace"
      <4>1. Save(o, GraceOver(sub[o], visit[<<j, o>>]))
        BY <1>3, <3>2 DEF JobWrite
      <4>2. GraceOver(sub[o], visit[<<j, o>>]).status \in {"ACTIVE", "SUSPENDED"}
        BY <2>1 DEF GraceOver, Suspended, Row
      <4>3. visit[<<j, o>>].status = "GRACE_PERIOD"
        BY <2>1, <3>2 DEF Seen
      <4> QED  BY <2>1, <2>2, <2>3, <4>1, <4>2, <4>3, GraceOverRow DEF Lawful
    <3>3. CASE j = "abandoned"
      <4>1. Save(o, Expired(sub[o]))
        BY <1>3, <3>3 DEF JobWrite
      <4>2. Expired(sub[o]).status = "EXPIRED"
        BY <2>1 DEF Expired, Row
      <4> QED  BY <2>1, <2>2, <3>3, <4>1, <4>2, ChangedRows DEF Seen, Lawful
    <3> QED  BY <3>1, <3>2, <3>3 DEF Jobs
  <2>5. /\ call' = call
        /\ \A k \in Jobs, p \in Orgs \ {o} : visit'[<<k, p>>] = visit[<<k, p>>]
    BY <1>3 DEF JobWrite, Visited, TypeOK, Visits
  <2> QED  BY <2>4, <2>5, StandingSaved
<1> QED  BY <1>1, <1>2, <1>3 DEF JobNext

LEMMA OtherStanding ==
  ASSUME TypeInv,
         \/ \E o \in Orgs, n \in Counts : SyncEmployeeCount(o, n)
         \/ Restart \/ Tick \/ UNCHANGED vars
  PROVE  Settled
<1> USE DEF TypeInv
<1>1. CASE UNCHANGED <<sub, call, visit>>
  BY <1>1, StandingDropped
<1>2. CASE Restart
  BY <1>2, StandingDropped DEF Restart
<1>3. ASSUME UNCHANGED <<call, visit>>,
             \A p \in Orgs : View(sub'[p]) = View(sub[p])
      PROVE  Settled
  <2>1. ASSUME NEW p \in Orgs
        PROVE  Standing(p)' = Standing(p)
    <3>1. sub'[p].status = sub[p].status
      BY <1>3, ViewStatus
    <3> QED  BY <1>3, <3>1, StandingKept DEF Behind, BehindVisit
  <2> QED  BY <2>1 DEF Settled
<1>4. ASSUME NEW o \in Orgs, NEW n \in Counts, SyncEmployeeCount(o, n)
      PROVE  UNCHANGED <<call, visit>> /\ \A p \in Orgs : View(sub'[p]) = View(sub[p])
  <2>1. sub[o] \in Row /\ sub[o] # NoRow /\ [sub[o] EXCEPT !.count = n] \in Row
    BY <1>4 DEF SyncEmployeeCount, TypeOK, Row
  <2>2. View([sub[o] EXCEPT !.count = n]) = View(sub[o])
    BY <2>1, RowFields DEF View, Row
  <2> QED  BY <1>4, <2>2 DEF SyncEmployeeCount, Save, TypeOK
<1>5. CASE Tick
  <2>1. ASSUME NEW p \in Orgs
        PROVE  View(sub'[p]) = View(sub[p])
    <3>1. sub'[p] = DayOlder(sub[p]) /\ sub[p] \in Row \cup {NoRow}
      BY <1>5 DEF Tick, TypeOK
    <3>2. sub[p] \in Row => /\ DayOlder(sub[p]) # NoRow
                            /\ DayOlder(sub[p]).plan = sub[p].plan
                            /\ DayOlder(sub[p]).status = sub[p].status
      BY RowFields, DayOlderRow DEF DayOlder, Row
    <3> QED  BY <3>1, <3>2, RowFields DEF View, DayOlder
  <2>2. call' = call /\ visit' = visit
    BY <1>5 DEF Tick
  <2> QED  BY <1>3, <2>1, <2>2
<1>6. UNCHANGED vars => UNCHANGED <<sub, call, visit>>
  BY DEF vars
<1> QED  BY <1>1, <1>2, <1>3, <1>4, <1>5, <1>6

(* A move of one organisation, or of those that settle, is a step of the   *)
(* life cycle.                                                             *)
LEMMA LifecycleStep ==
  ASSUME TypeInv, Settled \/ \E o \in Orgs : Moves(o)
  PROVE  [LC!Next]_([o \in Orgs |-> Standing(o)])
<1> DEFINE S == [o \in Orgs |-> Standing(o)]
<1>1. ASSUME Settled
      PROVE  LC!Next
  <2> DEFINE os == {p \in Orgs : Standing(p)' # Standing(p)}
             found == [p \in Orgs |-> IF Standing(p)' \in Statuses THEN Standing(p)' ELSE "ACTIVE"]
  <2>1. found \in [Orgs -> Statuses] /\ os \in SUBSET Orgs
    BY DEF Statuses
  <2>2. LC!Settle(os, found)
    BY <1>1 DEF Settled, LC!Settle
  <2> QED  BY <2>1, <2>2 DEF LC!Next, LC!Statuses, Statuses
<1>2. ASSUME NEW o \in Orgs, Moves(o)
      PROVE  LC!Next \/ S' = S
  <2>1. S' = [S EXCEPT ![o] = Standing(o)'] /\ S[o] = Standing(o)
    BY <1>2 DEF Moves
  <2>2. Standing(o) \in LC!Standings
    BY RowFields DEF Standing, TypeInv, TypeOK, LC!Standings, LC!Statuses, Statuses, NoRow
  <2>3. ASSUME NEW froms, NEW to, Standing(o) \in froms, Standing(o)' = to
        PROVE  LC!Becomes(o, froms, to)
    BY <2>1, <2>3 DEF LC!Becomes
  <2>4. CASE Standing(o)' = "CONTENDED"
    BY <2>2, <2>3, <2>4 DEF LC!Contend, LC!Next
  <2>5. CASE Standing(o)' = "TRIALING"
    BY <2>2, <2>3, <2>5 DEF LC!StartTrial, LC!Next
  <2>6. CASE Standing(o)' = "ACTIVE"
    BY <2>2, <2>3, <2>6 DEF LC!Activate, LC!Next
  <2>7. CASE Standing(o) = "TRIALING" /\ Standing(o)' = "GRACE_PERIOD"
    BY <2>3, <2>7 DEF LC!EndTrial, LC!Next
  <2>8. CASE Standing(o) \in Statuses \ {"SUSPENDED"} /\ Standing(o)' = "SUSPENDED"
    BY <2>3, <2>8 DEF LC!Suspend, LC!Next, LC!Statuses, Statuses
  <2>9. CASE Standing(o) = "SUSPENDED" /\ Standing(o)' = "EXPIRED"
    BY <2>3, <2>9 DEF LC!Expire, LC!Next
  <2>10. CASE Standing(o) = "CONTENDED" /\ Standing(o)' \in Statuses
    BY <1>1, <1>2, <2>10 DEF Settled, Moves
  <2> QED  BY <1>2, <2>4, <2>5, <2>6, <2>7, <2>8, <2>9, <2>10 DEF Moves, Lawful
<1> QED  BY <1>1, <1>2

(* Every behaviour of the subscription is one of the life cycle.           *)
THEOREM SubscriptionFollowsLifecycle == Spec => FollowsLifecycle
<1>1. Init => LC!Init
  <2> SUFFICES ASSUME Init PROVE [o \in Orgs |-> Standing(o)] = [o \in Orgs |-> "NONE"]
    BY DEF LC!Init
  <2>1. \A o \in Orgs : ~Outdated(o)
    BY DEF Init, Outdated, Visits
  <2> QED  BY <2>1 DEF Init, Standing, NoRow
<1>2. Init => Seen
  BY DEF Init, Seen, Idle, Visits
<1>3. TypeInv /\ Seen /\ [Next]_vars => Seen'
  BY SeenStep
<1>4. TypeInv /\ Seen /\ [Next]_vars => [LC!Next]_([o \in Orgs |-> Standing(o)])
  <2> SUFFICES ASSUME TypeInv, Seen, [Next]_vars
               PROVE  Settled \/ \E o \in Orgs : Moves(o)
    BY LifecycleStep
  <2> QED  BY CallStanding, JobStanding, OtherStanding DEF Next
<1> QED  BY <1>1, <1>2, <1>3, <1>4, SubscriptionTypes, PTL DEF Spec, FollowsLifecycle, LC!Spec
=============================================================================
