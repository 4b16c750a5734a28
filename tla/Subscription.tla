---------------------------- MODULE Subscription ----------------------------
(***************************************************************************)
(* The subscription of each organisation: the super admin's calls and the  *)
(* nightly jobs that end trials, grace periods and long suspensions. The   *)
(* cache through which the feature checks see it is in PlanCache.          *)
(*                                                                         *)
(* Every call and every job reads the row, checks it, and later updates it *)
(* by id without looking again. A deadline is the number of days left to   *)
(* it. The custom price and the setup fee are in Pricing; the overrides of *)
(* features and the reminders are left out, and so is the billing job: it  *)
(* selects rows by nextBillingDate, a column no code ever sets.            *)
(***************************************************************************)
EXTENDS Integers, FiniteSets

CONSTANTS
  Orgs,          \* the organisations
  Admins,        \* super admin calls that may be in progress at once
  Tiers,         \* the pricing plans, the free one included
  Starter,       \* the free plan
  TrialDays,     \* pricing_plans.trialDaysMonthly
  GraceDays,     \* pricing_plans.gracePeriodDays
  StarterMax,    \* pricing_plans.maxEmployees of the free plan
  AbandonDays,   \* platform config: days until a suspension expires
  Extensions,    \* the days a trial may be extended by
  Counts,        \* the employee counts considered
  MaxCalls,      \* bound on the super admin's calls
  NoDate         \* a column that is null

Jobs == {"trial", "grace", "abandoned"}
Visits == Jobs \X Orgs
Statuses == {"TRIALING", "GRACE_PERIOD", "ACTIVE", "SUSPENDED", "EXPIRED"}

ASSUME SubscriptionAssumption ==
  /\ Starter \in Tiers
  /\ TrialDays \in [Tiers -> Nat]
  /\ GraceDays \in Nat \ {0} /\ AbandonDays \in Nat \ {0}
  /\ StarterMax \in Nat /\ Counts \subseteq Nat /\ 0 \in Counts
  /\ Extensions \subseteq Nat \ {0}
  /\ MaxCalls \in Nat
  /\ NoDate \notin Nat

Deadline == Nat \cup {NoDate}
Row == [plan : Tiers, status : Statuses, trialUsed : BOOLEAN, count : Counts,
        trialLeft : Deadline, graceLeft : Deadline, suspendedFor : Deadline]
NoRow == [status |-> "NONE"]

(* What the calls and the jobs use of the row they have read. *)
Read(row) ==
  IF row = NoRow THEN NoRow
  ELSE [plan |-> row.plan, status |-> row.status,
        trialUsed |-> row.trialUsed, trialLeft |-> row.trialLeft]
Reads == [plan : Tiers, status : Statuses, trialUsed : BOOLEAN, trialLeft : Deadline]
Selected(row) == [plan |-> row.plan, status |-> row.status, count |-> row.count]

Idle == [op |-> "idle"]
Ops == {"suspend", "expire", "reactivate"}
Calls ==
  [op : {"assign"}, org : Orgs, row : Reads \cup {NoRow}, tier : Tiers, force : BOOLEAN]
  \cup [op : {"extend"}, org : Orgs, row : Reads, days : Extensions]
  \cup [op : Ops, org : Orgs, row : Reads]

VARIABLES
  sub,        \* org -> org_subscriptions row, or NoRow
  call,       \* admin -> the call in progress
  visit,      \* <<job, org>> -> the row the job selected and has still to visit
  ran,        \* the jobs that have started today
  missed,     \* history: visits that failed, or were lost in a restart, today
  calls,      \* the calls made
  trials,     \* history: org -> the trials started that were not forced
  crowded     \* history: orgs with two assignments in progress at once

vars == <<sub, call, visit, ran, missed, calls, trials, crowded>>

Init ==
  /\ sub = [o \in Orgs |-> NoRow]
  /\ call = [a \in Admins |-> Idle]
  /\ visit = [v \in Visits |-> NoRow]
  /\ ran = {}
  /\ missed = {}
  /\ calls = 0
  /\ trials = [o \in Orgs |-> 0]
  /\ crowded = {}

TypeOK ==
  /\ sub \in [Orgs -> Row \cup {NoRow}]
  /\ call \in [Admins -> Calls \cup {Idle}]
  /\ visit \in [Visits -> [plan : Tiers, status : Statuses, count : Counts] \cup {NoRow}]
  /\ ran \subseteq Jobs
  /\ missed \subseteq Visits
  /\ calls \in 0..MaxCalls
  /\ trials \in [Orgs -> Nat]
  /\ crowded \subseteq Orgs

(* An update by id. *)
Save(o, row) == sub' = [sub EXCEPT ![o] = row]

-----------------------------------------------------------------------------
(* The super admin's calls: read and check the row.                        *)

Begin(a, c) ==
  /\ call[a] = Idle
  /\ calls < MaxCalls
  /\ calls' = calls + 1
  /\ call' = [call EXCEPT ![a] = c]
  /\ UNCHANGED <<sub, visit, ran, missed, trials>>

AssignTierRead(a, o, tier, force) ==
  /\ Begin(a, [op |-> "assign", org |-> o, row |-> Read(sub[o]), tier |-> tier, force |-> force])
  /\ crowded' = IF \E b \in Admins : call[b].op = "assign" /\ call[b].org = o
                THEN crowded \cup {o} ELSE crowded

(* Mutant of MayExpire: any subscription may be marked as expired. *)
MayExpireAny(row) == row # NoRow

MayExpire(row) == row.status = "SUSPENDED"

MaySuspend(row) == row.status # "SUSPENDED"
MayReactivate(row) == row.status # "ACTIVE"
MayExtend(row) == row.status \in {"TRIALING", "GRACE_PERIOD"}

SuspendRead(a, o) ==
  /\ sub[o] # NoRow /\ MaySuspend(sub[o])
  /\ Begin(a, [op |-> "suspend", org |-> o, row |-> Read(sub[o])])
  /\ UNCHANGED crowded

MarkAsExpiredRead(a, o) ==
  /\ sub[o] # NoRow /\ MayExpire(sub[o])
  /\ Begin(a, [op |-> "expire", org |-> o, row |-> Read(sub[o])])
  /\ UNCHANGED crowded

ReactivateRead(a, o) ==
  /\ sub[o] # NoRow /\ MayReactivate(sub[o])
  /\ Begin(a, [op |-> "reactivate", org |-> o, row |-> Read(sub[o])])
  /\ UNCHANGED crowded

ExtendTrialRead(a, o, days) ==
  /\ sub[o] # NoRow /\ MayExtend(sub[o])
  /\ Begin(a, [op |-> "extend", org |-> o, row |-> Read(sub[o]), days |-> days])
  /\ UNCHANGED crowded

-----------------------------------------------------------------------------
(* ... then update it.                                                     *)

CanUseTrial(c) ==
  /\ TrialDays[c.tier] > 0
  /\ c.force \/ c.row = NoRow \/ ~c.row.trialUsed

(* Mutant of TrialUsed: the flag is kept as it was, and not set by a trial. *)
TrialNotRecorded(c) == c.row # NoRow /\ c.row.trialUsed

TrialUsed(c) == CanUseTrial(c) \/ (c.row # NoRow /\ c.row.trialUsed)

Assigned(c, count) ==
  [plan |-> c.tier, count |-> count, trialUsed |-> TrialUsed(c),
   status |-> IF CanUseTrial(c) THEN "TRIALING" ELSE "ACTIVE",
   trialLeft |-> IF CanUseTrial(c) THEN TrialDays[c.tier] ELSE NoDate,
   graceLeft |-> NoDate, suspendedFor |-> NoDate]

Extended(row, c) ==
  LET base == IF c.row.trialLeft = NoDate THEN 0 ELSE c.row.trialLeft
  IN  [row EXCEPT !.status = "TRIALING", !.trialLeft = base + c.days, !.graceLeft = NoDate]

(* Mutant of Suspended: the date of the suspension is not set. *)
SuspendedUndated(row) == [row EXCEPT !.status = "SUSPENDED"]

Suspended(row) == [row EXCEPT !.status = "SUSPENDED", !.suspendedFor = 0]

Expired(row) == [row EXCEPT !.status = "EXPIRED"]

Reactivated(row) ==
  [row EXCEPT !.status = "ACTIVE", !.suspendedFor = NoDate, !.graceLeft = NoDate]

Finish(a) ==
  /\ call' = [call EXCEPT ![a] = Idle]
  /\ UNCHANGED <<visit, ran, missed, calls, crowded>>

(* Where the read found no row one is created; the unique key on the       *)
(* organisation refuses a second.                                          *)
AssignTierWrite(a) ==
  LET c == call[a]
      count == IF c.row = NoRow THEN 0 ELSE sub[c.org].count
  IN  /\ c.op = "assign"
      /\ c.row # NoRow \/ sub[c.org] = NoRow
      /\ Save(c.org, Assigned(c, count))
      /\ trials' = IF CanUseTrial(c) /\ ~c.force
                   THEN [trials EXCEPT ![c.org] = @ + 1] ELSE trials
      /\ Finish(a)

SuspendWrite(a) ==
  /\ call[a].op = "suspend"
  /\ Save(call[a].org, Suspended(sub[call[a].org]))
  /\ Finish(a) /\ UNCHANGED trials

MarkAsExpiredWrite(a) ==
  /\ call[a].op = "expire"
  /\ Save(call[a].org, Expired(sub[call[a].org]))
  /\ Finish(a) /\ UNCHANGED trials

ReactivateWrite(a) ==
  /\ call[a].op = "reactivate"
  /\ Save(call[a].org, Reactivated(sub[call[a].org]))
  /\ Finish(a) /\ UNCHANGED trials

ExtendTrialWrite(a) ==
  /\ call[a].op = "extend"
  /\ Save(call[a].org, Extended(sub[call[a].org], call[a]))
  /\ Finish(a) /\ UNCHANGED trials

(* The transaction is rolled back: a lost connection or the unique key.    *)
CallFail(a) ==
  /\ call[a] # Idle
  /\ Finish(a) /\ UNCHANGED <<sub, trials>>

-----------------------------------------------------------------------------
(* The nightly jobs: one query selects the rows, which are then visited    *)
(* one by one, each with the e-mails of the ones before it in between.     *)

(* Mutant of AbandonedSince: the cutoff itself is missed (lt for lte). *)
AbandonedBefore(row) == row.suspendedFor # NoDate /\ row.suspendedFor > AbandonDays

AbandonedSince(row) == row.suspendedFor # NoDate /\ row.suspendedFor >= AbandonDays

TrialOver(row) == row.status = "TRIALING" /\ row.trialLeft = 0
GraceExpired(row) == row.status = "GRACE_PERIOD" /\ row.graceLeft = 0
Abandoned(row) == row.status = "SUSPENDED" /\ AbandonedSince(row)

Due(j, row) ==
  \/ j = "trial" /\ TrialOver(row)
  \/ j = "grace" /\ GraceExpired(row)
  \/ j = "abandoned" /\ Abandoned(row)

JobStart(j) ==
  /\ j \notin ran
  /\ ran' = ran \cup {j}
  /\ visit' = [v \in Visits |-> IF v[1] = j /\ Due(j, sub[v[2]])
                               THEN Selected(sub[v[2]]) ELSE visit[v]]
  /\ UNCHANGED <<sub, call, missed, calls, trials, crowded>>

Visited(v) == visit' = [visit EXCEPT ![v] = NoRow]

(* Mutant of InGrace: the end of the grace period is not set. *)
InGraceUndated(row) == [row EXCEPT !.status = "GRACE_PERIOD"]

InGrace(row) == [row EXCEPT !.status = "GRACE_PERIOD", !.graceLeft = GraceDays]

(* The grace period is over; the count is the one the query returned.      *)
GraceOver(row, seen) ==
  IF seen.count <= StarterMax
  THEN [row EXCEPT !.plan = Starter, !.status = "ACTIVE", !.graceLeft = NoDate]
  ELSE [Suspended(row) EXCEPT !.graceLeft = NoDate]

JobWrite(j, o) ==
  /\ visit[<<j, o>>] # NoRow
  /\ Save(o, CASE j = "trial" -> InGrace(sub[o])
               [] j = "grace" -> GraceOver(sub[o], visit[<<j, o>>])
               [] j = "abandoned" -> Expired(sub[o]))
  /\ Visited(<<j, o>>)
  /\ UNCHANGED <<call, ran, missed, calls, trials, crowded>>

(* The error of one visit is logged and the job goes on with the next. *)
JobFail(j, o) ==
  /\ visit[<<j, o>>] # NoRow
  /\ missed' = missed \cup {<<j, o>>}
  /\ Visited(<<j, o>>)
  /\ UNCHANGED <<sub, call, ran, calls, trials, crowded>>

-----------------------------------------------------------------------------
(* syncEmployeeCount after a change of the members.                        *)
SyncEmployeeCount(o, n) ==
  /\ sub[o] # NoRow
  /\ Save(o, [sub[o] EXCEPT !.count = n])
  /\ UNCHANGED <<call, visit, ran, missed, calls, trials, crowded>>

-----------------------------------------------------------------------------
(* The server restarts: what it had in memory is lost.                     *)

Pending == {v \in Visits : visit[v] # NoRow}
Quiet == /\ \A a \in Admins : call[a] = Idle
         /\ Pending = {}

Restart ==
  /\ call' = [a \in Admins |-> Idle]
  /\ visit' = [v \in Visits |-> NoRow]
  /\ missed' = missed \cup Pending
  /\ UNCHANGED <<sub, ran, calls, trials, crowded>>

(* A day passes; a suspension is counted up to AbandonDays and no further. *)
Sooner(left) == IF left = NoDate \/ left = 0 THEN left ELSE left - 1
Longer(days) == IF days = NoDate \/ days = AbandonDays THEN days ELSE days + 1
DayOlder(row) ==
  IF row = NoRow THEN NoRow
  ELSE [row EXCEPT !.trialLeft = Sooner(@), !.graceLeft = Sooner(@), !.suspendedFor = Longer(@)]

Tick ==
  /\ Quiet
  /\ sub' = [o \in Orgs |-> DayOlder(sub[o])]
  /\ ran' = {}
  /\ missed' = {}
  /\ UNCHANGED <<call, visit, calls, trials, crowded>>

-----------------------------------------------------------------------------
AdminNext(a) ==
  \/ \E o \in Orgs :
       \/ \E tier \in Tiers, force \in BOOLEAN : AssignTierRead(a, o, tier, force)
       \/ SuspendRead(a, o) \/ MarkAsExpiredRead(a, o) \/ ReactivateRead(a, o)
       \/ \E days \in Extensions : ExtendTrialRead(a, o, days)
  \/ AssignTierWrite(a) \/ SuspendWrite(a) \/ MarkAsExpiredWrite(a)
  \/ ReactivateWrite(a) \/ ExtendTrialWrite(a) \/ CallFail(a)

JobNext(j) == JobStart(j) \/ \E o \in Orgs : JobWrite(j, o) \/ JobFail(j, o)

Next ==
  \/ \E a \in Admins : AdminNext(a)
  \/ \E j \in Jobs : JobNext(j)
  \/ \E o \in Orgs, n \in Counts : SyncEmployeeCount(o, n)
  \/ Restart
  \/ Tick

Spec == Init /\ [][Next]_vars

(* The server is up at the time of each job again and again, and a visit   *)
(* that is tried again every day does not fail for ever; calls end.        *)
Fairness ==
  /\ SF_vars(Tick)
  /\ \A j \in Jobs : SF_vars(JobStart(j))
  /\ \A v \in Visits : SF_vars(JobWrite(v[1], v[2]))
  /\ \A a \in Admins : WF_vars(AssignTierWrite(a) \/ SuspendWrite(a) \/ MarkAsExpiredWrite(a)
                                 \/ ReactivateWrite(a) \/ ExtendTrialWrite(a) \/ CallFail(a))

FairSpec == Spec /\ Fairness

-----------------------------------------------------------------------------
(* No limbo: a subscription in a status that time should end has the date  *)
(* at which the nightly job for it ends it (the jobs skip a null date:     *)
(* trial-expiry, grace-period, abandoned). Calls and jobs that overtake    *)
(* one another do not break it, as each sets its status and date together. *)
Timed(row) ==
  /\ row.status = "TRIALING" => row.trialLeft # NoDate
  /\ row.status = "GRACE_PERIOD" => row.graceLeft # NoDate
  /\ row.status = "SUSPENDED" => row.suspendedFor # NoDate

NoLimbo == \A o \in Orgs : Timed(sub[o])

(* A deadline is served the day it is reached: once the job of the day has *)
(* started, a subscription past its deadline is one the job has still to   *)
(* visit, or one whose visit went wrong today.                             *)
Overdue(j, row) ==
  \/ j = "trial" /\ row.status = "TRIALING" /\ row.trialLeft = 0
  \/ j = "grace" /\ row.status = "GRACE_PERIOD" /\ row.graceLeft = 0
  \/ j = "abandoned" /\ row.status = "SUSPENDED" /\ row.suspendedFor = AbandonDays

DeadlinesServed ==
  \A j \in ran, o \in Orgs : Overdue(j, sub[o]) => <<j, o>> \in Pending \cup missed

(* An organisation gets one free trial, however often its plan is changed  *)
(* (isTrialUsed), unless the super admin forces another or two assignments *)
(* were in progress at once: both read the flag before either sets it.     *)
TrialOnce == \A o \in Orgs \ crowded : trials[o] <= 1

(* The status follows the life cycle that Lifecycle states, except where   *)
(* an operation finishes on a row that another has changed since it read.  *)
View(row) == IF row = NoRow THEN NoRow ELSE [plan |-> row.plan, status |-> row.status]

Outdated(o) ==
  \/ \E a \in Admins : call[a] # Idle /\ call[a].org = o /\ View(call[a].row) # View(sub[o])
  \/ \E j \in Jobs : visit[<<j, o>>] # NoRow /\ View(visit[<<j, o>>]) # View(sub[o])

Standing(o) == IF Outdated(o) THEN "CONTENDED" ELSE sub[o].status

LC == INSTANCE Lifecycle WITH standing <- [o \in Orgs |-> Standing(o)]
FollowsLifecycle == LC!Spec

(* Time ends every trial, every grace period and every suspension: once    *)
(* the super admin makes no more calls, the organisation is on a paid or   *)
(* the free plan, or has expired.                                          *)
Settles ==
  \A o \in Orgs : sub[o] # NoRow ~> sub[o].status \in {"ACTIVE", "EXPIRED"}
=============================================================================
