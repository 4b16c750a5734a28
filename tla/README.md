# Smart Attendance: a TLA+ verification of its core

Smart Attendance is a multi-organisation attendance and payroll service for
Nepal: employees clock in and out by a static QR code and a PIN at a kiosk, or
from a geofenced mobile app; admins and accountants correct the records;
payroll is computed from them per Nepali (Bikram Sambat, BS) month; leave,
documents, holidays and a trial/paid subscription surround that core. The
backend (`src/backend/src`, Express + Prisma + PostgreSQL) holds all the durable
state; the web app (`src/frontend`) and the two mobile apps are clients of its
HTTP API with a state of their own: tokens, what is on show, what is in progress.

This directory holds TLA+ models of the parts of the system whose correctness
depends on order or on arithmetic at its edges: concurrent requests, background
jobs, snapshots read before they are written back, two stores that change one
after the other, answers that come late, calendars and payslips. Every
definition is a translation of the source lines that `PROJECT.json` names under
`map`.

## Inventory of the system

The process is a single Node.js server, but every `await` is a point where any
other request or job may run, and the deployment allows several instances, so a
handler is a *sequence* of database statements, not an atomic step. PostgreSQL
runs at READ COMMITTED except where a transaction asks for SERIALIZABLE (the
clock action, the payroll status changes).

| Component | State | Operations | What makes it hard | What makes it correct |
|---|---|---|---|---|
| **Attendance** (`services/attendance.service.ts`, `attendance.helpers.ts`, `jobs/midnight-autoclose.job.ts`) | `attendance_records` | scan (in/out), manual in/out, edit, acknowledge, mark present, auto-close at midnight / boot / API | scans race with staff writes and with the job's snapshot; day boundaries | one record per day, no second open record, a close never spans negative time, originals of an edit survive, stale records are closed in the end |
| **Payroll** (`services/payroll.service.ts`) | `payroll_records`, audit log | generate, regenerate one, status change (one/bulk), flag for recalculation after attendance edits, pay settings | figures computed before the transaction that stores them; status checked outside it; flag is a read then a write | workflow DRAFT - PROCESSED - APPROVED - PAID, paid payslips stay, stale payslips get flagged |
| **Leave and leave balance** (`services/leave.service.ts`, `leaveBalance.service.ts`) | `leaves`, `leave_balances` | request, approve/reject, cancel, initialise year with carry-over, adjust | the balance update is fire-and-forget after the decision; read-then-set | used days equal approved days, no overlapping leaves, carry-over caps |
| **Sessions** (`services/auth.service.ts`, `lib/jwt.ts`, `middleware/auth.ts`) | `user_sessions`, reset tokens, password, PIN | login, refresh with rotation and reuse detection, logout, password/PIN change and reset, cleanup | read-then-rotate; two tabs refreshing at once; tokens that outlive what they vouch for | one live refresh token per login, revocation is final |
| **Lockout** (`lib/lockout.ts`, `lib/scan-lockout.ts`, `lib/redis.ts`) | failure counters with expiry, in Redis or in memory | check, record failure, clear | check, count and expire are separate commands | N failures lock, a lock ends |
| **QR codes** (`services/qr.service.ts`) | `qr_codes` | generate, static, regenerate, active, revoke, validate on scan | revoke-then-create at READ COMMITTED | one rotating and one static code per organisation; every clocking counted |
| **Membership** (`services/user.service.ts`) | `org_memberships`, `users`, employee count | create, add existing, update, remove, PIN reset | last-admin and employee-cap checks read before they write | an organisation keeps an admin, the count is right, the plan's cap holds, no old PIN comes back |
| **Subscription** (`services/superadmin.subscription.service.ts`, `services/plan.service.ts`, `jobs/{trial-expiry,grace-period,billing,abandoned}.job.ts`) | `org_subscriptions`, subscription logs, plan cache | assign tier, suspend, expire, extend, reactivate; the daily jobs; look a plan up | jobs act on a snapshot while a super-admin changes the row; the cache is emptied after the change | the lifecycle TRIAL - ACTIVE / GRACE - EXPIRED - SUSPENDED, no reactivated organisation put back by a stale job; the plan looked up is the one that holds |
| **Custom prices** (`services/superadmin.subscription.service.ts`, `jobs/price-expiry.job.ts`) | the price columns of `org_subscriptions` | override, waive the set-up fee, revert what has expired | the job and the overrides write what they decided on an earlier row | the price is the one agreed, until its term is over |
| **Reports** (`services/report.service.ts`, `routes/reports.ts`) | none | daily, weekly, monthly figures, duty roster | local days, Greenwich's dates, ends of weeks and months | each record in one row, the reports agree, a roster has the days it is for |
| **Alerter** (`lib/alerter.ts`, `jobs/withJobAlerts.ts`) | throttle map | send | bounded map, throttling windows | at most one mail per key and window |
| **Documents** (`services/documents.service.ts`, `documentTypes.service.ts`) | `documents`, S3 objects | upload, list, download, delete | two stores that change one after the other | row, object and temporary file agree, the total stays under the limit |
| **Holidays** (`services/holiday.service.ts`, `routes/masterHolidays.ts`, `lib/nepal-holidays.ts`) | `holidays`, `master_holidays` | CRUD, synchronisation from Calendarific or the built-in list | the synchronisation skips duplicates by a read; two calendars | no duplicate date, a complete import, nobody works on a holiday |
| **Notifications, e-mail** (`services/notification.service.ts`, `email.service.ts`) | `notifications` | create, read, preferences, daily reminders | fire and forget | reminders once a day |
| **Nepali calendar** (`lib/nepali-date.ts`) | tables | AD-BS conversion, working days | month boundaries | round trip |
| **Organisation settings, super-admin, config, routes, middleware** | organisations, system config | CRUD and read endpoints | little order | input validation |
| **Mobile API client** (`src/mobile/lib/api.ts`, `store/auth.store.ts`) | stored tokens, the queue of requests behind a refresh | request, refresh, login, logout, start | concurrent 401s share one refresh; the app may be killed between two stored tokens | no rotated token is presented again; every request ends |
| **Web application** (`src/frontend/src`: provider, guards, proxy, pages) and **mobile screens** (`src/mobile/app`) | what is chosen, loaded, in progress; who is signed in | load, press, answer; sign in and out, navigate | answers in another order than the requests; several flags or one for all; a redirection that overtakes another | a page shows what is chosen, a button sends one request at a time, nobody stays on a page of another role |

## How the components interact

- A kiosk scan or a mobile clock request passes the lockout (`Lockout`), the PIN,
  the code (`QrCodes`) or token, geofence and membership checks and ends in the one
  function `clockAction` of `Attendance`. The forms that send it are `ClockingForms`.
- `editAttendance` and `markPresent` call `flagPayrollNeedsRecalculation` of Payroll
  once the record is saved, the first without waiting for it (through
  `flagPayrollAfterAttendanceChange`), the second awaiting it; scans, manual
  clock-ins and -outs, the auto-close job and leave decisions change what a payslip is
  computed from and flag nothing. Attendance keeps the calls in `flagCalls`; Payroll
  starts from the same call (`Correct`).
- Payroll reads the attendance records, approved leaves, holidays and pay
  settings of a month. In `Payroll` these inputs are one version number per
  payslip, since what matters there is whether the figures stored are those of the
  inputs; `Payslip` is the computation itself, and `Holidays` ends in what
  payroll asks of it, the working days of a month.
- A leave decision starts the balance update without waiting for it; an approved
  leave is an input of payroll but, in this code, flags no payslip.
- Membership changes call `syncEmployeeCount` (`Membership`, and as one action
  `Subscription`); the plan gates features through `getOrgPlan`, a cache of five
  minutes (`PlanCache`).
- The mobile client retries a 401 through the refresh endpoint of Sessions. What a
  server may do to the client's sessions is part of `MobileClient`; what it owes to
  them is `Sessions`.
- The web application knows its user by a cookie that all tabs share
  (`WebSession`), and its pages know of each other only what the server tells them
  (`Screens`).

## Modules

| Module | What it is |
|---|---|
| `Attendance` | attendance records of an organisation, scans, staff requests, auto-close job |
| `AttendanceProofs` | type correctness, the four invariants of untouched members, what a row says of itself, the original check-in kept |
| `Payroll` | payslips, generation and regeneration, status workflow, recalculation flag |
| `PayrollProofs` | type correctness, paid as approved, flag not lost |
| `Payslip` | the figures of one payslip, as operators |
| `Leave` | leave requests, decisions, the balances behind them |
| `LeaveProofs` | type correctness, no overlap, final decisions, sane balances, deductions that add up |
| `Lifecycle` | abstract specification: what a subscription's status promises |
| `Subscription` | subscription rows, super admin calls, daily jobs; implements `Lifecycle` |
| `SubscriptionProofs` | type correctness, three invariants, the refinement of `Lifecycle` |
| `PlanCache` | the cache through which feature checks see a plan: writers that commit and invalidate later, lookups, edits of plans |
| `Sessions` | the sessions of a user: login, refresh, logout, password, cleanup |
| `SessionsProofs` | type correctness and the three invariants of `Sessions`; where a tab of `WebSession` lands |
| `Membership` | members of an organisation, last-admin guard, employee cap, stored count, PIN |
| `Lockout` | the lockout after failed attempts, in Redis or in memory |
| `QrCodes` | rotating and static codes, their revocation, the scans that use them |
| `Documents` | documents in a database, a bucket and a temporary directory; document types |
| `Pricing` | custom prices: overrides, the waiver, the job that reverts them |
| `Reports` | the figures of the reports, the days of the roster, who is notified as late |
| `NepaliDate` | the calendar's table, both conversions, working days |
| `NepalHolidays` | the built-in lists of holidays, as they stand in the source |
| `Holidays` | national and own holidays: entered, synchronised, imported |
| `MobileClient` | the API client of the apps: one refresh for all, its queue, forced logout |
| `MobileClientProofs` | type correctness, no reuse of a rotated token, both tokens when signed in; what a page shows and sends, the forms |
| `WebSession` | who is signed in in a tab, and where guards, proxy and handlers send them |
| `ScreenParts` | what a page is made of: lists, handlers, flags, buttons |
| `Screens` | what happens on a page, whichever it is |
| `AdminScreens`, `SuperAdminScreens`, `PayrollScreens`, `StaffScreens`, `MobileScreens` | the pages, as tables of `ScreenParts` |
| `ClockingForms` | the four forms by which attendance is clocked |
| `Ends` | `Sessions`, or `WebSession` |
| `Parts` | the staff's side of `Attendance`, or one of `Membership`, `Lockout`, `QrCodes`, `Documents`, `Holidays`, `Pricing`, `PlanCache` |
| `PartsProofs` | type correctness of the parts, the property of each but `Attendance`, the figures of `Payslip` sound for every month, those of `Reports` for every history |
| `Clients` | `MobileClient`, or one page of `Screens`, or `ClockingForms` |
| `FiniteSums` | lemmas: a sum over a finite set, and how it changes with one of its values |
| `MCAttendance`, `MCPayroll`, `MCLeave`, `MCSubscription`, `MCSessions`, `MCParts`, `MCClients`, `MCHolidays` | small instances for TLC; `MCParts` adds the months, records and dates that `Payslip` and `Reports` compute on |

`Ends`, `Parts` and `Clients` put components that share no state into one
specification: a variable `part`, chosen at the start, says which of them takes steps,
and the others stay as they begin. The states explored are the sum of theirs, not the
product, and every part is checked as if it ran alone. The theorems about them are
about that same specification.

One convention holds everywhere. A handler is split where the code gives up the
row it looked at: a `...Read` action takes the snapshot and makes the checks, a
`...Write` action updates the row by id, and anything may happen between them. A
handler that runs in a SERIALIZABLE transaction is one action. The request in
progress carries exactly what the code carries across its `await`s. A `...Fail`
or `Abort` action ends a handler where a statement may throw. Variables marked
"history" in a module exist in no table; they record what a property needs to
know about the past. Where the code gives way, a property excepts exactly the case,
recorded by a history variable when it happens, and says so in its comment.
Operators named like a variant of another (for example `ClockInBlindly`,
`SuspendedUndated`, `WipedValid`, "a mistaken form") are plausible faulty forms of
it: no specification uses them, they serve to show that each property can fail.

### Attendance

`records` is `attendance_records`, in the order of insertion; `now` is a day and
a tick of that day (the last one is 23:59:59.999). `request` holds the staff
handlers in progress, `job` the runs of the auto-close job with the snapshot each
still has to visit, `flagCalls` the payroll flags sent, `manual` (history) the
members a staff write has touched.

| Action | Code |
|---|---|
| `SelfService` = `ClockOut`, `CloseStaleAndClockIn`, `ClockIn` | `clockAction`, one SERIALIZABLE transaction, with cool-down, two scans a day, closing of a stale record |
| `ManualAttendanceRead`, `ManualClockInWrite`, `ManualClockOutWrite` | manual in / out by staff |
| `EditRead`, `EditWrite` | edit of times, originals kept on the first edit, status recomputed |
| `AcknowledgeRead`, `AcknowledgeWrite` | acknowledgement of an auto-closed record |
| `MarkPresentRead`, `MarkPresentWrite` | a full day entered for a member |
| `AutoCloseStart`, `AutoCloseRecord`, `AutoCloseSkip`, `AutoCloseFail` | the job at midnight, at boot or by API: one query, then one update by id per record |
| `Tick` | time passes; it may pass between any two statements |

For every record (`RowCoherent`): it is open exactly when it has no check-out, no
time lies in the future, and the BS date is that of the first check-in however often
it is edited. The original check-in, once kept, never changes
(`OriginalCheckInStable`). For members no staff write has touched: at most one
open record (`OneOpenRecord`), one record per day (`OneRecordPerDay`), no span
ending before it starts (`SpanCoherent`), and an open record is the newest
(`OpenIsNewest`). The restriction to untouched members is the code's: two manual
clock-ins race (see below). Liveness: a record left open is closed by the job or
otherwise, while days go on (`StaleRecordClosed`).

Abstractions. The clock action is atomic: SERIALIZABLE orders scans among
themselves; a P2034 abort has no effect and so needs no action; anomalies between
the transaction and READ COMMITTED writers inside it are not explored. A
transaction does not straddle midnight. One tick is the cool-down window. The
90-day horizon of the stale search is left out, and so are the wrappers that
identify the member: the codes they check are in `QrCodes`, the lockout of the PIN
in `Lockout`, the geofence nowhere; memberships are active and have an end of shift. A night shift
(end before check-in) is never closed by the job and only by the next scan:
`StaleRecordClosed` says so in its precondition.

### Payroll

`slips` is `payroll_records` by employee and month, `inputs` the version of what a
payslip is computed from, `work` a generation or regeneration in progress, `call`
the flag calls in progress. History: `approval` (who approved the figures stored),
`everPaid`, `corrected` (the version of the last correction that the stored figures
lack, 0 for none), `slipped` (payslips whose correction the code lets slip).

| Action | Code |
|---|---|
| `Correct`, `PaySettings` | an attendance correction, which also starts a flag call; a change of pay settings, which does not |
| `FlagRead`, `FlagWrite`, `FlagFail` | `flagPayrollNeedsRecalculation`: read of the slip, update by id |
| `Generate`, `GenerateCalculate`, `GenerateCheck`, `GenerateUpsert`, `Abort` | generation of a month, employee by employee: calculation, lock against paid slips, upsert |
| `RegenerateCheck`, `RegenerateCalculate`, `RegenerateUpsert` | regeneration of one payslip |
| `UpdateStatus`, `BulkUpdateStatus` | status changes of one payslip or a month, one SERIALIZABLE transaction each |

`PaidAsApproved`: whatever interleaves, an approved or paid payslip shows figures
an admin approved after they were stored. `FlagNotLost`: a payslip whose figures lack
a correction has its flag set or a flag call on its way, until figures calculated
after the correction are stored. Figures calculated before a correction and stored
after it do not end this: they leave the payslip in DRAFT without a flag, and the
property names it (`slipped`) among what the code lets happen; the others are a
correction of a draft, which a flag call leaves alone, a call that throws, and a bulk
change that waves the flag through. `OncePaidNotByAccountant` is what the code's own
message promises, and is violated.

Abstractions. The figures are the version of their inputs; net 0 stands for a
month without attendance, which generation skips. How the figures are computed is
in `Payslip`. Audit rows, e-mails and timestamps
are left out. An edit that moves a check-in into another month flags one month
only, in the code as here.

### Payslip

`Payslip` has no state: it is `calculateEmployeePayroll` and its helpers as
operators on one month of one employee: its attendance records, its approved leaves, its pay
settings and the working days. Money is in paisa and hours in hundredths, where
the code rounds; a tax slab is a limit and a rate.

`PayslipSound` is the conjunction of five statements on every month of the
instance. `AddsUp`: what is paid and what is deducted add up to what was earned,
whatever cap or floor was applied. `AbsenceBounded`: absence of up to thirty days
costs no more than the pay of a month. `PresencePays`: a day of attendance more is
never paid a rupee less (the tax is rounded to rupees, so a few paisa of overtime may
cost one). `DaysCounted`: who was there on every working day is not absent, and
who was not is not present. `TaxMarginal`: a little more income costs no more than
the highest rate of it, and never saves tax. Each excepts what the code does
otherwise, and names it (see the disagreements below).

Abstractions. The arithmetic is exact where the code's floating point may be off by
a paisa. The previews and reports that repeat the figures are left out.

### Reports

A record has its check-in in minutes of the server's clock, its duration, status and
member; `Offset` is how far that clock is ahead of Greenwich. `Daily`, `Weekly` and
`Monthly` are the three reports: each selects by local days and then sorts records
into rows by the dates that `toISOString` gives (`IsoDay`). `ReportsSound` compares
them. `WeekShowsDays`: a row of the week shows what the report of its day does, in the
East that of the day before. `WeeksCover`: a record of a month is in exactly one
week of it, but in the East one of the last day of 28. `DaysWithin`: nobody is present
on more days than the month has without an early check-in on its first. `AverageBounded`:
of the shifts that are over, one was as long as the day's average, unless the job
closed a shift.
`LateAgrees`: who is reported late was notified, unless the threshold is nil.
`RosterSound` says of every day of three years which days its rosters have.

Left out: reports over all organisations, the names and the layout of what is returned.

### Leave

`leaves` and `balance` are the tables, per member, BS year and leave type; `task`
the HTTP handlers in progress with the balance update each goes on with after
its response. History: `asked`, `granted`, `due`, `refunded`, `adjusted`,
`hasty`, `contested`.

| Action | Code |
|---|---|
| `Request`, `Create` | overlap check, then the insert |
| `CancelRead`, `CancelDelete` | status check, then the delete |
| `DecideRead`, `DecideUpdate` | approve or reject: read, then an update by id |
| `BalanceFlag`, `BalanceRead`, `Deduct`, `Refund`, `BalanceFail` | `handleLeaveDecision`: is tracking on, read leave and balance, set used days |
| `InitializeExisting`, `InitializePrevious`, `InitializeInsert` | start of a BS year with carry-over, cut at the cap |
| `Adjust`, `ToggleTracking` | a staff correction of a balance; the organisation's switch |

`NoOverlap`: no two live leaves of a member overlap, unless two of its requests or
two decisions of one leave were in progress at once. `DecisionFinal`: a decided
leave is never changed or deleted, unless another handler had read it while it
was pending. `DeductionsKept`: a balance no admin adjusted and no rejection was
refunded to shows every day approved, less those of updates still on their way.
`BalanceSane`: no carry-over raises a balance above the cap or is a debt, and
used days are never negative. `RefundOnlyGranted` is what a comment of the code
says of rejections, and is violated.

Abstractions. Days are numbers, the second BS year begins at `NewYear`, and a leave
is charged to the year it starts in, as the code does. Members stay active, the
entitlement policy does not change, e-mails, audit columns and the dry run of the
initialisation are left out. The reads of leave and balance in one balance update
are one step. `due` counts the days approved, less those of updates that failed;
two decisions of one leave count twice.

### Subscription and Lifecycle

`sub` is `org_subscriptions` (deadlines as days left), `call` the super admin's
calls in progress, `visit` the rows a job has selected and not yet visited, with
what it read of them, `ran` the jobs started today. History: `missed`, `calls`, `trials`,
`crowded`.

| Action | Code |
|---|---|
| `AssignTierRead/Write`, `SuspendRead/Write`, `MarkAsExpiredRead/Write`, `ReactivateRead/Write`, `ExtendTrialRead/Write`, `CallFail` | the super admin's calls |
| `JobStart`, `JobWrite`, `JobFail` | trial expiry, grace period, abandoned: one query, then one update by id per row |
| `SyncEmployeeCount` | the cached employee count |
| `Restart` | the process dies: calls and visits are gone |
| `Tick` | a day passes, once calls and visits of the day have ended |

`NoLimbo`: a subscription in a status that time ends has the date its job looks
at. `DeadlinesServed`: once a job has started today, no row past its deadline is
passed over, unless its visit failed or died with the process. `TrialOnce`: no
second unforced trial, where no two assignments overlapped. `Settles`: a
trial, grace period or suspension does not last for ever unless the super admin
intervenes. `FollowsLifecycle` is the refinement: `Lifecycle` says that a trial
ends in grace, grace in the free plan or a suspension, and only a suspension in
expiry. The code keeps this promise only while no operation holds a row that has
changed since it was read; the mapping shows such a row as "CONTENDED", of
which nothing is promised until the operation ends.

Abstractions. The crons fix an order of the jobs; here they run in any order
within a day, each at most once, or not at all. Feature overrides and reminders are
left out, and so is the billing job: it selects by `nextBillingDate`, a column no
code ever sets, so it finds nothing.

### PlanCache

`rows` is the organisations' subscriptions (the plan, and whatever else a check sees of
them), `features` what each plan offers, `cache` the map in the memory of the server,
`lookup` the reads on their way to it, `owed` the changes committed and not yet
followed by their invalidation. History: `slipped`.

| Action | Code |
|---|---|
| `Commit`, `InvalidatePlanCache` | every writer of the row (super admin, jobs, `syncEmployeeCount`): the update is awaited, and then the entry deleted |
| `CommitUnheard` | the commit is done and its answer lost: the writer throws and deletes nothing |
| `EditPlan` | a super admin switches a feature of a plan or changes its price: nothing is invalidated |
| `GetOrgPlanRead`, `GetOrgPlanSet`, `GetOrgPlanFail` | `getOrgPlan`: a miss reads, and later caches what it read, or throws |
| `CacheExpire`, `Restart` | five minutes; the process dies, with the cache and the invalidations still owed |

`PlanCacheFresh`: a cached plan is the one in the database, once no invalidation is
owed. Between a commit and its invalidation the old plan is served, which `owed` shows.
Excepted until the entry times out or is invalidated again (`slipped`) are the three
ways in which the code leaves an old plan behind: a lookup that had read before an
invalidation and stores after it, the edit of a plan, and the commit of which the writer
did not hear. The cache is that of one process; with several instances each has its own
and hears of no other's invalidations, which is not modelled. The dates of reminders
that the jobs note in the row, and invalidate nothing for, are no part of what a check
sees.

### Pricing

`row` is the price columns of one organisation, `call` the overrides in progress, each
with the row it has read, `visit` whether the job has found the row and not reverted
it yet. `agreed` is the row as it would be had every override and every visit been one
step. `PricesKept` says that the two are the same unless an override wrote over what
had changed since it read (`crossed`) or the job reverted a price made since its query
(`overtaken`), and that what the job is done with has not expired. The logs, the
notes and the cache of plans (`PlanCache`) are left out.

### Sessions

`session` is `user_sessions`, by id in the order of creation: a row is valid,
rotated (`isValid` false, its hash kept) or deleted, and stands for the access and
the refresh token whose hashes it stores. `expired` says how many rows are past
`expiresAt`, `password` how often the password has been set, `links` the reset
tokens, `request` the handlers in progress with what they have read. A client may
present any token it was ever given, at any time. History: `login` (the first
session a row descends from), `proof` (the password a login verified), `late`,
`forked`, `slipped`, `revoked`, `floor`.

| Action | Code |
|---|---|
| `LoginCheck`, `LoginCreate` | `login`: the password is verified; the row is created |
| `LogoutCheck`, `LogoutDelete` | `logout`: the middleware finds the session; the row is deleted |
| `RefreshRead`, `Rotate` | `refreshAccessToken`: the session is read; then one transaction marks it rotated and creates the next |
| `RefreshReuse` | the token was rotated before: all sessions of the user shall go |
| `WipeStart`, `WipeDelete` | `deleteMany` by user, of a reuse or a reset: what the statement sees, and its commit |
| `ChangePasswordRead`, `ChangePasswordWrite` | `changePassword`; the sessions stay |
| `ForgotPasswordDelete`, `ForgotPasswordCreate` | `forgotPassword`: old links go, one is created |
| `ResetPasswordRead`, `ResetPasswordWrite`, `ResetPasswordUse` | `resetPassword`, up to its deletion of the sessions |
| `Fail` | a statement throws (also: the link to mark as used is gone) or the server stops |
| `Expire`, `LinkExpire`, `CleanExpiredSessions` | time, and the hourly cleanup |

`RevokedStaysRevoked`: a login that was logged out of, or deleted with all the
user's sessions, never has a valid session again. `OneValidPerLogin`: rotation
leaves a login one valid session. `ResetEndsSessions`: once a reset has deleted the
sessions, no session is left or created that descends from an older password.
Each property exempts exactly the logins for which the code gives way, recorded
when it happens: `forked`, a session read by a second refresh before the first
rotated it (both rotate); `slipped`, a refresh that commits between the start and
the commit of the deletion of all sessions; `late`, a login that verified a
password which was replaced before it created its session.

Abstractions. One user: every statement names a user, or a row of one, but the
cleanup, which does to each row the same. PostgreSQL's `deleteMany` sees the rows
committed when it starts and waits for rows locked by others, hence two steps. The
row and the access token expire together (`lib/jwt.ts`), rows in the order of
creation. A collision of two access tokens signed in the same second is a `Fail`.
The lockout, memberships and roles, the PIN, the initial password (a change of
password without its check) and e-mails are left out; no code makes a user
inactive.

### Membership

`member` is `org_memberships` by user, with its role, activity and which PIN it
clocks with; `employeeCount` the count stored in the subscription; `handler` the
requests in progress, with what they have read. History: `drift`, `contested`,
`overbooked`.

| Action | Code |
|---|---|
| `CreateCheck`, `Insert` | `createUser`: cap and duplicate checks, then user and membership in one transaction |
| `AddCheck`, `Reactivate`, `ReactivatePin` | `addExistingUserByPlatformId`: a returning member's row is updated, the count synchronised, then the PIN set |
| `UpdateCheck`, `UpdateWrite` | `updateUser`: the last-admin guard on a change of role, then the update |
| `RemoveCheck`, `RemoveWrite` | `removeFromOrganization` |
| `ResetAttendancePin` | one statement |
| `SyncCount`, `SyncStore`, `SyncFail` | `syncEmployeeCount`: the count, then the update; a failure is logged only |
| `Fail` | a unique index refuses, or a statement throws |

`MembersKept` is `AdminRemains` (an organisation keeps an active admin) and
`CountAndCap` (the stored count is right whenever no sync is under way, and the
plan's cap holds). `FreshPinOnReturn`: once a return is through, the member does not
clock with the PIN of before. Two removals or demotions at once, deactivation, which
has no guard, and checks against a count that is not settled are excepted: the code
lets them happen.

### Lockout

One key, e-mail or employee ID, of either lockout (`guard`). `redis` and `memory` are
its entries in Redis and in the process's map; every command may fall back from one
to the other. `attempt` holds the requests that try the key: check (`CheckRedis`,
`CheckMemory`), verification (`Wrong`, `Right`, `Abandon`), then the failure recorded
by a get and a set (`RecordGet`, `RecordSet`) or at once in the map
(`RecordMemory`), or the key cleared (`ClearRedis`, `ClearMemory`). `Tick` and
`Sweep` are time and the map's clean-up.

`LockoutHolds`: a lock that a store has set (`promised`, for each store) lasts its time
in that store whatever the requests that had passed the check still record, and before
it at most `MaxAttempts - 1` wrong guesses and one of each request in progress get
through. A check asks one store, Redis while it answers; a lock set in the map while
Redis did not is passed over as soon as it does again, so once a command has fallen back
(`fellBack`) nothing is said of the guesses that get through. Excepted are also failures
that overwrite each other in Redis (`raced`).

### QrCodes

`codes` are the rows of `qr_codes` in the order of creation; a transaction at READ
COMMITTED is seen at its first statement (`GenerateRevoke`, `RegenerateRevoke`, with
the codes it will revoke) and its commit (`GenerateCreate`, `RegenerateCreate`).
`GenerateStaticFind/Create` is `generateStatic`, `RegenerateExpiry` the look-up of the
old expiry, `Revoke` the revocation. A scan is `Validate`, then `Count` and `Clock` in
the order of its route, or `Refuse`. Days are whole.

`CodesKept` is `OneOfEachKind` (at most one rotating and one lasting static code
active, unless two requests of admins overlapped) and `ClockingsCounted` (every
clocking by a code shows in its count, but at the kiosk when the code was revoked
after it was validated).

### Documents

A document is named by its upload. An upload goes `Receive` (the file is on the disk),
`CheckType`, `CheckTotal`, `PutObject`, `CreateRow`, with `RefuseFile`, `LeaveFile` (a
refusal that leaves the temporary file) and the failures of each step; a deletion
`DeleteRead`, `DeleteObject`, `DeleteRow`. `CreateType`, `UpdateType`,
`DeleteTypeRead`, `DeleteType` are the document types. `Crash` stops the server
between any two steps.

`DocumentsKept` is the conjunction of `RowsHaveObjects`, `ObjectsHaveRows`,
`TempFilesGo` and `TotalHolds`: row, bucket and disk agree and the member's total
stays under the limit, but for what the failures have left (`strays`, `cut`, `left`)
and for uploads that overlapped.

### NepaliDate, NepalHolidays, Holidays

`NepaliDate` holds the table of the years 2070 to 2090, `AdToBS`, `BsToAD`, the days
of the week and `EffectiveWorkingDays`. `MCParts` has TLC evaluate, as named
assumptions, that the two conversions undo each other on each of the 7670 days, how
many of the built-in holidays have a BS date that is not that of their Gregorian
date, and what the code makes of the examples in its own comment on overtime.

`Holidays` is one year: `rows` in the order of creation, national (organisationId
null) or of one organisation; `request` the handlers in progress, holiday by holiday.

| Action | Code |
|---|---|
| `CreateHoliday`, `CreateAsSuperAdmin`, `UpdateHoliday`, `DeleteHoliday` | `routes/holidays.ts`; the role decides whether a row is national |
| `MasterFind` and its steps | a super admin enters a national holiday: look for the date, create |
| `Sync` and its steps | `syncHolidays`: fetched or built-in list, per holiday a find and a create |
| `Import` and its steps | the organisation copies the master holidays, one by one, stopping at the first error |

`HolidaysKept` is `OneNationalPerDate` and `ImportComplete`. `HolidaysNotWorked`, what
the comment on the working days says, is violated (run `holidays_zone`).

### MobileClient

`access` and `refresh` are the stored tokens, by the session they belong to, each under
a key of its own: `setTokens` and `clearTokens` are two writes or deletions that end in
either order (`StoreToken`, `ClearToken`), and go on when both are done (`LoginStored`,
`Wiped`, `ForceLogout`);
`isRefreshing` and the requests in step "queued" are the interceptor's queue;
`request` says what each request is in the middle of, statement by statement;
`session` is the server's view. A request may be answered, refused with 401 or 429,
or time out; a user of another role is signed out again (`LoginWrongRole`,
`InitWrongRole`); the server may expire a session (`Expire`), and the app be killed and
started again (`Kill`, `Start`) with its stored tokens. The store is that of the
employees' app; the administrators' app asks for no `/me` after its login.

`SignedInHasTokens`: an app that is signed in has both tokens of one session once
nothing is under way, unless what is stored may be `mixed` (a login crossed the logout
of the one before, a refresh stored a pair between the two deletions of a logout, or the
app was killed between the two writes of a pair) or `torn` (it was killed during a
refresh). `NoReuse`: it never presents a refresh token that was rotated.
`RequestsEnd`: every request ends, but those queued when the queue has been
processed. `QueuedUntilCompletes`, what the comment on the queue says, is violated
(run `client_queue`).

### WebSession

`user` and `isLoading` are the provider's state, `path` and `going` the page of the
tab and the navigation under way, `requests` those on their way with the answer once
the server has given it, `cookie` and `token` the browser's cookie and what the
server thinks of it, `must` the accounts that still have to change their password.

| Action | Code |
|---|---|
| `Open`, `Visit`, `Back`, `Arrive` | a page is loaded; links and the browser's buttons; a navigation passes the proxy and mounts its page |
| `SignIn`, `SignOut`, `RefreshUser`, `ChangePassword` | what the user presses |
| `Serve` (`Me`, `LoggedIn`, `LoggedOut`, `Changed`, `Lost`) | the routes, with the session check before them |
| `GotMe`, `GotLogin`, `GotLoginMe`, `GotLogout`, `GotChange`, `GotChangeMe` | what the tab does with the answer, then the effects of the page |
| `Meanwhile` | a session ends, a token no longer verifies, the cookie is over, another tab signs in or out |

`LandsWhereAllowed`: once nothing is under way, a signed-in user is on no page of
another role and not on the page that only forwards, and a guarded page is not shown
to nobody. Excepted are `/admin`, where the proxy sends whoever has a cookie, and a
handler's redirection that replaced the guard's (`overtaken`). A browser that
replaces a navigation under way by the next one is assumed, as Next.js does.

### Screens

A page keeps choices (dates, filters, tabs), lists it has loaded for them, and flags
that are up while a request is in progress and switch buttons off. `ScreenParts`
names these parts; the five modules of screens say for each page of the two
applications which lists it loads, when and for which choices, what every handler
changes and loads again, and what its buttons depend on; `Screens` is what happens,
for any page: the user chooses or presses (`User`), the server answers in any order
(`Answered`, `Done`, `Failed`) or the tab gives up (`Drop`).

`ShowsWhatIsChosen`: once the loads of a list are answered, it shows what is chosen and
every change made from this page. It breaks when a handler forgets a list that it
changes, when an effect does not depend on all that its request sends, and when a
guarded list takes an answer that comes late. Excepted (`astray`) is a list whose last
load failed, whose answer came after that of a later one though nothing guards it, or
may have been read before a change or sent by a handler for what was chosen before;
and one that a handler is known to leave as it was, which the page's table names
(`leaves`). `OneAtATime`: of the handlers that share a flag one is in progress at a time.
Excepted are flags that an answer to something else put down (`early`), and the
handlers that no flag guards (each page lists them).

`ClockingForms` follows the scan and check-in pages and the camera and location
screens statement by statement, with their timers; `OneClockingAtATime`: one
clocking of a form is on its way at a time, since the server clocks in and out in
turn and a second undoes the first.

## Runs

Run a module with `tlc -workers 2 -config <module>_<run>.cfg <module>`; `PROJECT.json` has the two of
each run.

| Run | Instance | Checks | Distinct states |
|---|---|---|---|
| `attendance_self` | 2 members, one with a late shift, 3 ticks a day, 3 days, 3 records, 1 job, no staff, fairness | `TypeOK`, `OneOpenRecord`, `OneRecordPerDay`, `SpanCoherent`, `OpenIsNewest`, `StaleRecordClosed` | 145,001 (1 min) |
| `attendance_closeopen` | 1 member, 1 job, 1 day | `AutoCloseOnlyOpen`: violated | 31 |
| `payroll_flow` | 2 employees, an admin's and an accountant's request, 2 flag calls, 3 versions | `PaidAsApproved`, `FlagNotLost` | 2,292,951 (1.5 min) |
| `payroll_oncepaid` | 1 payslip, an accountant's request | `OncePaidNotByAccountant`: violated | some 500 |
| `leave` | 1 member, 2 leaves that overlap, 2 handlers, year change, symmetry | `NoOverlap`, `DeductionsKept`, `BalanceSane`, `DecisionFinal` | 2,445,808 (1 min) |
| `leave_refund` | 2 leaves side by side, 1 handler | `RefundOnlyGranted`: violated | some 7,500 |
| `subscription` | 1 organisation, 2 calls at once, 3 in all, 2 plans, fairness | `NoLimbo`, `DeadlinesServed`, `TrialOnce`, `FollowsLifecycle`, `Settles` | 124,752 (3 min) |
| `sessions` | 2 handlers, 1 reset link, 3 rows, 1 new password, symmetry; or a tab with 2 accounts, 7 pages and 2 requests | `TypeOK`, `RevokedStaysRevoked`, `OneValidPerLogin`, `ResetEndsSessions`, `LandsWhereAllowed` | 4,444,951 (2 min) |
| `parts` | 1 member's record under an admin, an accountant, scans and the job; or one of nine components (bounds below), symmetry | `PartsTypeOK`, `RowCoherent`, `OriginalCheckInStable`, `MembersKept`, `FreshPinOnReturn`, `LockoutHolds`, `CodesKept`, `DocumentsKept`, `HolidaysKept`, `PricesKept`, `PlanCacheFresh`, `PayslipSound`, `ReportsSound` | 1,074,107 (3 min) |
| `client` | 3 requests, 3 sessions, fairness; or a page of either application with 2 requests; or a form with 2 clockings | `SignedInHasTokens`, `NoReuse`, `RequestsEnd`, `ShowsWhatIsChosen`, `OneRequestAtATime` | 695,450 (3.5 min) |
| `client_queue` | 3 requests, 2 sessions, fairness | `QueuedUntilCompletes`: violated | 98,693 |
| `holidays_zone` | 1 handler, 2 built-in holidays, the clock ahead of Greenwich | `HolidaysNotWorked`: violated | some 10 |

Times are with two workers; a violation's count is that at which TLC stops.

Why these bounds.

- Attendance: every rule looks at one member's records of today and at its newest open
  one, so three days give a stale record, a day after it and one more; three records
  are shared by two members, the job's snapshot and the shifts; with staff one record
  is enough since every write is by id, and two requests are enough for every race of
  two writers.
- Payroll: payslips of different employees meet only in bulk changes and in the order in
  which a generation visits them, for which one request and one call are enough. Two
  requests and two calls, for one to overtake another, are explored on one payslip while the
  other employee has no payslip and no attendance (`FlowSpec` of `MCPayroll`, by `Skipped`
  and `Quiet`). Three versions are a
  correction, one that changes the pay, and a month without attendance.
- Leave: two handlers and two overlapping leaves give every overlap check and every
  lost update; two years give one carry-over.
- Subscription: organisations share only the dates of the jobs, and two calls at once
  reach every race of a check and a write, with a job in between; a third lets another
  call follow the race.
- PlanCache: the entries of two organisations meet only in an edit of a plan; one
  organisation, two plans, two writers and two lookups let a change and a lookup
  overtake another of each.
- Sessions: a race is between two handlers that hold a row; three rows are a login, its
  rotation and a fork of it, or two logins one of which is rotated; one new password is
  enough for old and new.
- WebSession: two requests on their way are what a sign-in and the answer to an earlier
  question are; two roles and a page of a third give every refusal of a guard.
- Membership: three users (one admin, one to come, one of the platform) and three calls,
  two at once, reach a cap of one and two admins who end each other. Lockout: three
  attempts at once against a limit of two, a lock of one tick. QR codes: two codes, two
  admins and one scan. Documents: two uploads and two deletions of sizes 1 and 2 against
  a limit of 2. Holidays: two rows, two handlers, one date with two names.
- Payslip: 768 months, with every edge of days, leaves and sums: whole, nearly empty
  and half months, early and late check-ins, leaves that cross either end, no salary and
  an uneven one, each contribution, the bonus, the cap.
- Reports: every set of eight records on the first, the sixth, the seventh and the 28th
  day, early, open, auto-closed and of a member who has left, and a member present
  every day; months of 28 to 31 days; a clock 345 minutes ahead and one on Greenwich.
  Rosters of every day from 2024 to 2026.
- Pricing: two overrides, at once or one after the other, with every choice of fields
  given, and two days, so that a term is over before, on and after the job's day.
- MobileClient: three requests, so that one may be queued behind another's refresh
  while a third is logged out; three sessions are a login and two rotations.
- Screens: two requests of the user's at once show every overtaking of two answers; two
  values of a choice, every change of it. Every page of the tables is run.
- ClockingForms: two clockings are what must not be, two timers two successes.

`MaxDay`, `MaxRecords`, `MaxVersion`, `MaxCalls`, `MaxSessions`, `MaxPassword`,
`MaxCodes`, `MaxScans`, `MaxRows`, `LastDay`, `MaxRequests`, `MaxPending`,
`MaxClockings`, `MaxTimers` and `RateLimit` are the counters' caps; `FormTimes`,
`Forms`, `Adjustments`, `Extensions`, `Counts`, `StaticDays`, `Sizes`, `Entered` and
`Published` are the inputs enumerated. `CHECK_DEADLOCK FALSE` appears only where the
system really may stop: when the explored days, calls or rows are over, or a page has
loaded and has nothing to press. The theorems remove the bounds for what is proved.

## Fairness

- Attendance: time passes; the cron starts the job every day and a run visits the
  records of its snapshot (`withJobAlerts` and the per-record `try/catch` let one
  failure pass); an update that can be tried day after day succeeds at last
  (strong fairness of `AutoCloseRecord`). Nothing is assumed of members or staff.
- Subscription: days pass although calls go on (strong, since `Tick` waits for a
  quiet moment); the server is up at the job's hour again and again (strong
  fairness of `JobStart`); a visit does not fail for ever (strong fairness of
  `JobWrite`); a call in progress ends; calls are bounded, which is the
  assumption that the super admin stops intervening.
- MobileClient: a request in progress goes on (weak fairness of `Progress`): it is
  answered, or times out, for which `api.ts` sets a limit. The refresh itself is sent
  by a bare `axios.post` without one (`api.ts:108`), so that it is answered or its
  connection breaks is an assumption on the network. Nothing is assumed of a
  request that is queued: it goes on only when the queue is processed.
- Payroll, Leave and Sessions state no liveness: a flag call, a balance update or a
  deletion of sessions that fails is not tried again, so nothing is promised. Nor
  do the parts of `MCParts`, the screens and the forms: an answer may never come.

## Proofs

Eight modules hold what is proved, for all values of the constants that
satisfy the named assumptions. `TimeAssumption`, `StaffAssumption`,
`PayrollAssumption`, `LeaveAssumption`, `SubscriptionAssumption`,
`SessionsAssumption`, `MembershipAssumption`, `ClientAssumption` and
`PartsAssumption` type the parameters (what the months and the histories are that payslips
and reports are made of is said below): the handlers, attempts, scans, documents and
balance updates in progress are finitely many, the founder is one of a finite set of
people, and an idle key is forgotten no sooner than a lock ends (an hour and fifteen
minutes, `scan-lockout.ts:21-22`). `EndsAssumption` says that each role
has the page it lands on. `PagesAssumption` is what the tables of the screens have in
common: their lists are finite in number, a handler loads again and replaces lists of
its own page, and a handler with a flag is behind buttons which that flag switches off,
unless the table names it as unguarded. TLC evaluates it on every page of the
applications. `PagesComplete` is no assumption but the hypothesis of one theorem
(Screens, below).

**Attendance.** `TypeInv` is `TypeOK` with "every pending write, every snapshot
entry names an existing row", without which an update by id has no type.
`TidyInv` is the inductive strengthening for untouched members: at most one
record a day, an open record is the newest, at most one open record. None of its
parts is inductive alone: a scan that finds yesterday's record open closes it and
opens a new one, so "one open" needs that the closed one was the only open one,
and "one per day" needs that a completed record of today blocks a scan. The lemma
on scans (`SelfServiceKeepsTidy`) treats the three kinds of scan; job writes only
ever settle a record (`SettlesKeepsTidy`), staff writes remove the member from the
claim. From it: `AttendanceOneOpenRecord`, `AttendanceOneRecordPerDay`,
`AttendanceOpenIsNewest`.

`RowCoherent` speaks of every row, whoever wrote it, and is strengthened by what is
still to be written (`RowInv`): a pending edit holds times that have come, and saves
the first check-in of the row it read unless that row already tells it
(`RequestsSound`); no job run started in the future (`JobsSound`). Two edits that
overlap both write the same original, which is what `AttendanceOriginalCheckInStable`
rests on. `AttendanceSpanCoherent` needs `SpanInv`: what a job run remembers of a
record of an untouched member is still true of it, so that the time it computes from
the memory is not before the check-in it finds (`AutoCloseTimeAfter`). A staff edit
breaks that, hence the restriction.

**Payroll.** `TypeInv` again adds that the slip behind a pending flag write exists
(`MarkedExists`; nothing deletes payslips). `PayrollPaidAsApproved`
needs nothing but types: the generation's upsert is the only writer of figures and
resets the status to DRAFT with them, which is the point of the property.
`PayrollFlagNotLost` is strengthened by `OwedPastDraft`: a payslip whose figures lack a
correction, and whose correction has not slipped, is past DRAFT, so that a call that
reads DRAFT and gives up does not drop a flag that is owed. What is stored tells by its
version whether it was calculated before the correction (`StoredFlag`).

**Payslip.** `PartsPayslipSound` rests on `PayslipIsSound`, which is about values, not steps:
the payslip of every month is sound, whatever the records, leaves, settings and slabs. What
the months are is `PayslipAssumption`, which TLC evaluates on every month of `MCParts`;
it says what the code sees to or assumes. `IsSetting` and `IsMonth` are the types: amounts
and rates are not negative, and a month has finitely many records and leaves. `IsValidated`
is `validateTDSConfig`: no tax rate above 50 percent. `IsMonthOfOne`: a day has one record,
leaves overlap the month (the query) and not each other (`requestLeave`). The offset of
the clock is less than a day. `ContributionsFit` is the one that nothing sees to: the
rates of SSF and PF are at most 100 percent each, not together, and beyond that a day of
attendance more may well be paid less. The argument: the function over the slabs is shown to exist, and to be
`Marginal`, from the last slab down to the first (`DownwardInduction`): each slab takes a
share of the income which grows with it, as the rest does (`IsShare`), so the tax grows by
no more than the highest rate of the difference (`TaxMarginalThrough`, `RoundedYear`). A
record less takes no more than it has from days, overtime, gross and effective basic
(`RecordEarns`); the contributions take back no more than the effective basic grows by
and a paisa (`SharesGrow`), the tax no more than what is left of it and less than a rupee
(`TaxGrows`); hence `NetGrows`. The days of leaves are counted one leave after another
over a finite set (`LeavesCount`), where the rounding of each is its days exactly unless
it crosses the month's end (`LeaveDaysCount`).

**Reports.** `PartsReportsSound` likewise rests on values: for every finite history of
records, clock at or ahead of Greenwich, threshold, hour and staff the reports agree
(`ReportsAgree`), and for every date from 2023 to 2099 the roster has its days
(`RosterIsSound`). `ReportsAssumption` says what the histories are: a record that is not
checked out has no duration, which is part of `RowCoherent`. One relation carries the
reports: Greenwich's date is the server's, or the day before for a check-in before the
offset (`DatesOf`), and a midnight's is the day before in the East (`MidnightIs`). From it
each row's days are computed (`RowsOfWeeks`), and each record is found in exactly one
week, or lost as the property says. The average is compared by a bound on sums
(`SumAtMost`). The proof of that part first failed: a day on which everybody is still
checked in has an average of nil and nobody who reached it, so `AverageBounded` is now
about shifts that are over, and the instance has such a day. The roster needs that no
month but January begins within a week of the year's first (`DaysBeforeIs`), and that a
week from a Sunday has each weekday once (`WeekHasEach`).

**Leave.** `TypeInv` adds that a row keeps what was asked (`AskedKept`) and that a
balance update under way works on a leave that exists and on the balance of that
leave's member and year (`TasksKnow`). `NoOverlap` and `DecisionFinal` share
`SlotInv`: a request between its check and its creation still overlaps nothing
(`FormsFree`) and is the only one of its member (`OneRequest`), and a leave a
decision has read is still pending and read by no other (`OneDecider`). Everything
else only lets leaves end (`Shrinks`), which opens no overlap. `BalanceSane` needs
that the carry-over computed one statement before its insert is capped (`InsertSane`)
and that no refund writes used days below zero. `DeductionsKept` needs no more than
types; each step balances the `Books`: of a balance that nobody adjusted or refunded to, the days used and the days
of the updates still on their way add up to what is due. Its sum over a set is
treated with `FiniteSums`, where what the community modules define by choosing one
element after another is shown to change as one value does; the induction that takes
is a well-founded one over the subsets, with a set of subsets in place of a predicate.

**Subscription.** `SubscriptionNoLimbo` goes through the rows: every writer sets a
status together with its date, even on a row another has changed in between;
`SubscriptionDeadlinesServed` through how visits and rows change together
(`VisitSteps`, `OverdueSaved`): only a day's passing makes a row overdue, and the
day starts with no job run. `SubscriptionTrialOnce` is strengthened by `TrialInv`:
an organisation with a trial behind it has the flag set in its row, and every
assignment in progress that read the row otherwise is alone. The refinement
`SubscriptionFollowsLifecycle` is proved step by step: each action either leaves an
organisation's standing or changes it by a step of `Lifecycle`. `Seen`, the extra
invariant, says that whatever a call or visit has read passed the check for
starting it, so that a write on a row that has not changed is a legal step of the
life cycle. The proof showed that a restart settles several organisations in
one step, which is why `Lifecycle!Settle` takes a set.

**Sessions.** All its invariants are proved. `TypeInv` adds that rows are numbered
as they are created and that no handler knows of a row or a password that is not
there yet. `OneValidPerLogin` is strengthened by `HeldAlone`: outside forked
logins a refresh in progress is the only one of its login, and what it has read is
the only session of the login that may be valid. `RevokedStaysRevoked` is
strengthened by `EndedForGood` (no refresh in progress still holds a row of an ended
login) and `SeesAll` (a deletion under way that has seen one row of a login has
seen them all, unless a refresh slipped through): the latter is what a deletion of
all sessions owes to the rotation being one transaction. `ResetEndsSessions` is
strengthened by `Current`, which also speaks of rotated rows, since a second refresh
may carry them on, and of what each deletion under way has not seen.

**Web session.** `EndsLandsWhereAllowed` is strengthened by `TabInv`: a tab that has
its answer to who is signed in, and shows a page which that user is to leave, has the
redirection to the right page under way; nobody is to leave a guarded page, but for
`/admin` and where another redirection overtook the guard's (`BeingLeft`). The proof
found two cases of the guard in the model that overlapped; they are disjoint now.

**Membership.** `TypeInv` adds that a handler about to write a row has one to write
(`Known`). The three parts of `MembersKept` each have their own strengthening.
`AdminInv`: unless contested, one handler at a time is about to end an admin, and
there is another admin than the one it ends. `CountInv`: a count about to be stored
is right, or another sync will store after it; that is what a sync owes to being
last. `CapInv`: one handler at a time is about to let a member in, and there is room
for one more; its check leans on `CountInv`, since it reads the stored count.
`FreshPinOnReturn` is strengthened to members who are not active at the moment, whom
an update may make active before the return gets to its last statement.

**The other parts.** `PartsWellTyped` and each theorem below come from an invariant of
the part's own next-state relation: while one part runs the others keep theirs.

- Prices (`PricingInv`): what a call has read is what the row still says, field by
  field, unless something was saved since; a price the job has found is
  over, unless an override made another.
- Lockout: an entry is locked exactly from the last failure on
  (`EntriesSound`); what a store has promised, its own entry holds for as long, unless
  failures raced in Redis (`PromiseKept`); unless one fell back to the other, one store has all the failures
  (`OneStore`); and the guesses are bounded by the failures counted and those still to
  be recorded, while a locked key lets no new request in (`GuessesBounded`).
- Codes (`CodesInv`): unless admins were crowded, one of them is busy and has seen
  every code it is about to replace (`ReplacedSeen`); a scan that is about to clock has been
  counted or missed (`ScansCounted`).
- Documents (`DocsInv`): what is being deleted or stored has been uploaded to the end
  (`UploadsOver`); an object without a row, or a row without an object, is one that a
  failure left or that a request is at work on (`StoresAgree`); and the one upload past
  its check of the sum still fits (`WithinTotal`, again a sum).
- Plan cache (`PlanCacheInv`): what a lookup has read, and nothing has overtaken, is still
  in the database, or an invalidation is owed that will overtake it (`LookupsFresh`), so
  that the entry it stores is as fresh as one that was there.
- Holidays (`HolidaysInv`): a national holiday about to be created is still free, and
  the only one on its date (`DatesFree`); each holiday of an import is copied, still to
  be copied, or excused (`CopiedOrDue`).

**Mobile client.** `NoReuse` is strengthened by `ReuseInv`: one request at most is
anywhere between the start of a refresh and its end (`OneRefresh`, which is what
`isRefreshing` and the queue are for); a token that was handed out is not stored yet
and held by no other request until its holder stores it (`TokensFresh`); and what is
stored is not rotated unless the request that had it rotated is still at work
(`StoredUnspent`). `SignedInHasTokens` is strengthened by `SignInv`: while the app is
signed in, or a request that will sign it in is on its way, a token is stored or a
request is on its way that will also clear the screens (`SigningStored`); a login has
stored the halves of its pair that it has written (`HalvesStored`), and both tokens are
of one session but between two writes or two deletions (`PairStored`), all this until
tokens are `mixed` or `torn`; and, unless logins cross, a login or a start is alone
(`Openings`).

**Screens.** `ClientsShowsWhatIsChosen` has a hypothesis, `PagesComplete`, which is what
a page owes its user: a list that is not only asked for is loaded by the change of every
choice that it sends, and a handler loads again, changes on show, replaces or is known
to leave whatever it changes (what it replaces by the answer depends on no choice). The
theorem says that this is enough, on any table of pages and whatever comes late, fails or
is pressed meanwhile. The run `client` checks the property itself on each page of the
five modules; a handler that forgets a list, or an effect that misses a choice, breaks it
there. `ScreenSound` says that of the loads of a list on their way those
that are late, since a later one has been answered, were sent first (`LateFirst`);
`ScreenInv` that a load in time was sent for what is still chosen, or has another such
behind it (`Chosen`), and that a list which awaits no load in time, and is not excepted
as `astray`, is up to date (`UpToDate`): so the answer to the newest load is never taken
for a late one. `OneRequestAtATime` needs `FlagInv`: of the
requests whose handler has a flag, each has it up, or something else put it down
(`early`); so a button that is on has none on its way.

**Clocking forms.** `FormsInv`: while the form was not left, located or opened again,
its clocking is the only one and its step says so (`OneAwaited`). For the scan page and
the camera the step is not enough, since a timer changes it at any time: `busy`
outlasts the step, so that one timer is set at most, and none while a clocking is
awaited (`ScanBusy`, `CameraBusy`).

`TypeOK` of Payroll, Subscription, Leave and MobileClient state the types and are in no run: the
proofs replace them.

Only model-checked: that the conversions of `NepaliDate` undo each other (what a recursive
function computes is out of the prover's reach); `HolidaysNotWorked` and the other four
properties that are violated; and the liveness properties `StaleRecordClosed`, `Settles` and
`RequestsEnd`, also out of its reach.

## Disagreements between code and its words

Five are shown by a run:

1. `attendance_closeopen`: the auto-close job updates by id alone, so it turns a
   record checked out since its query into AUTO_CLOSED
   (`jobs/midnight-autoclose.job.ts:91`, header at `:3`).
2. `payroll_oncepaid`: once a correction has flagged a paid payslip, the lock
   against regeneration no longer sees that it was paid
   (`payroll.service.ts:556`, message at `:559`).
3. `leave_refund`: rejecting a pending leave gives back days that were never
   deducted (`leaveBalance.service.ts:289`, comment at `:228`).
4. `client_queue`: a failed refresh processes the queue before it awaits the
   clearing of the tokens, and what is queued in between is never processed
   (`src/mobile/lib/api.ts:123`, comment at `:90`).
5. `holidays_zone`: with the server's clock ahead of Greenwich, as DEPLOYMENT.md asks,
   each holiday frees the day after it (`lib/nepali-date.ts:253`, comment at `:229`).

Seen while modelling, modelled as the code does it, without a run of their own:

- Attendance: the job also closes a record of today once its shift is over
  (`midnight-autoclose.job.ts:80`, `:11`); an edit of the check-in alone can leave
  a check-out before it (`attendance.service.ts:653`); an accountant's edit lands on
  a record acknowledged meanwhile (`:672`); a scan closes a stale record at the end
  of yesterday, not of its own day, when the shift is no help (`:1247`); two manual
  clock-ins leave two open records (`:528`); mark-present checks one date and
  creates on another (`:788`); an edit leaves the BS date of the row (`:655`).
- Payroll: a bulk change to PROCESSED takes flagged payslips (`payroll.service.ts:922`);
  the flag overwrites PAID (`:1066`); a regeneration overwrites a payslip approved
  or paid since its check (`:693`), and so does a generation (`:588`); the paid
  override leaves no trace in the row (`:574`).
- Payslip: the examples in the comment on overtime count the minutes beyond the
  grace, the code all of them (`payroll.service.ts:1260-1267`); a leave that crosses the
  month's end counts a day too many (`:1252-1255`); a check-in before 5:45 counts for
  the day before (`:1305`); absence of more than thirty days makes the gross negative, and
  with no gross but a bonus nothing is deducted from it.
- Leave: casual leave is carried over (`leaveBalance.service.ts:158`); approval and
  rejection of one leave race (`leave.service.ts:145`), and a leave approved since
  the check is deleted (`:421`).
- Plans: a lookup that read before a change caches the old plan after the
  invalidation (`plan.service.ts:104`); the edit of a plan invalidates no entry, so its
  organisations see the features of before for five minutes
  (`routes/superadmin.plans.routes.ts:22-45`).
- Subscription: a job overwrites what a super admin
  changed since its query; the billing job never finds a row.
- Custom prices: an override without an expiry keeps that of the price before, though
  the form calls it optional (`superadmin.subscription.service.ts:292-296`); a limit of
  employees once set cannot be taken back (`:290`); `isPriceLockedForever` is shown and
  keeps no job from reverting the price.
- Reports: in Kathmandu each row of a week's breakdown, under its local weekday, has the
  records of the day before, and the last day's are in no row
  (`report.service.ts:203-211`); the last day of a February of 28 days is in no week
  (`:365`); the average of a day counts the minutes of auto-closed shifts and not the
  shifts (`:91-97`); a threshold of nil is one of ten minutes for the notification
  (`attendance.service.ts:1130`); in the first days of January, before the first
  Sunday, the month's roster is that of a year ago (`routes/reports.ts:93`).
- Sessions: two refreshes at once with one token both succeed, the rotation being
  atomic but not conditional (`auth.service.ts:238`); the cleanup deletes the
  rotated rows that are kept for the detection of reuse (`:382`, comment at `:154`);
  a row expires with its access token, so a refresh after that is refused (`:207`);
  a login that verified the old password outlives a reset (`:489`); a reset whose
  link another request has deleted changes the password and leaves the sessions
  (`:483`); two resets can use one link; two requests for a link can leave two
  (`:437`).
- Membership: `updateUser` clears no `leftAt` when it makes a member active who has
  left; deactivation has no last-admin guard (`user.service.ts:570`).
- Lockout: a Redis that can be read and not written never locks, and a lock set in the
  map while Redis did not answer is passed over as soon as it does; the map's login
  count stays after a lock has ended.
- QR codes: a comment says that the transaction keeps two codes from being active
  (`qr.service.ts:37`), which READ COMMITTED does not; `generate` also revokes static
  codes that have an expiry.
- Holidays: 44 of the 82 built-in holidays have a BS date that is not that of their
  Gregorian date (`schema.prisma:598` says it is its equivalent); the header promises
  2081 to 2085, there are 2081 to 2083; an import stops at the unique index on every
  retry (`routes/holidays.ts:124`); a super admin who uses the organisations' form
  passes by the check for duplicates; a date is counted twice in `holidaysInMonth` once
  imported, and switching the copy off does not make it a working day; the
  synchronisation's year ends on the 30th of the last month, and in Kathmandu leaves that day out; a
  synchronisation by a super admin clears the notifications of no organisation
  (`masterHolidays.ts:110`), one by an organisation clears none.
- Mobile client: POST `/auth/refresh` without `X-Requested-With` is refused where the
  server checks the header; a logout during a refresh leaves tokens stored;
  the profile screen POSTs to `/auth/attendance-pin`, which is PATCH only
  (`profile/index.tsx:131`, `routes/auth.ts:77`); a leave request sends a local midnight
  through `toISOString`, in Kathmandu the day before (`leaves/request.tsx:223`); the
  tab of leaves is not loaded again after a request, and loads twice when opened. The
  calendar tables of the backend and both apps agree for 2070 to 2090.
- Web session: with a cookie whose token no longer verifies, which nothing takes
  out (`middleware/auth.ts:61`), `/login` leads to a blank `/admin` and back
  (`proxy.ts:31`; `RoleGuard.tsx:18` promises `/login`, and `DEPLOYMENT.md:115` that
  everyone logs in again after the secret is changed); a late answer to `/me` brings a user
  back who has logged out; a logout that fails leaves the cookie; opening "/" or a page
  of another role overrides the redirection to `/change-password`.
- Screens: the countdown of the QR page asks every second while a code has expired, and
  renews static ones with an expiry (`admin/qr/page.tsx:100-111`); Ctrl+S saves while a
  save is under way (`payroll/page.tsx:164-173`); a bulk change acts on the month chosen,
  which need not be the one on show; the generation tab does not ask again
  which payslips exist; several pages let one flag stand for loads and changes
  (leaves, reports, the super admin's organisations); the pages of tax slabs and settings can be saved before
  they have loaded; an audit trail or a document's preview can show another row's
  answer; the notification bell removes an entry whatever the answer; the labels of a
  salary's PDF are those of the filters at that moment (`my-salary/page.tsx`).

## Not modelled, and why

- The alerter: a rate limit of one alert per source in memory; alerts change no state
  of the others.
- Notifications and e-mail: rows created beside the actions and messages sent and
  forgotten; nothing else reads them.
- Organisation settings, super-admin statistics, exports, PDF and middleware
  other than the session check: single-statement updates, read-only queries and
  request filters.
- In Subscription feature overrides and reminders; in Attendance the geofence and read endpoints; on the
  screens layout, wording, date pickers, checks of fields, exports made in the browser
  and the apps' biometric lock; `seed.ts`, tests and documents.
- Input validation, routing and the schema's plumbing keep no state whose correctness
  depends on order. Object storage, PostgreSQL, Redis, the mail service and the
  holiday API are external: they appear as the atomicity of a statement or as a failing
  call.

The map covers about three lines in ten of the implementation. Most of the others are the
markup of pages, selects and types, texts in two languages, e-mail templates and
seed data, in which there is nothing to check.
