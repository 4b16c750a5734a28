---------------------------- MODULE AdminScreens ----------------------------
(***************************************************************************)
(* The web application's screens of an organisation's administrator: what  *)
(* each loads, sends and switches off, see ScreenParts.                    *)
(***************************************************************************)
EXTENDS ScreenParts

(* The employees.                                                          *)
UsersLoads == [users |-> AtOpening("loading")]

(* A mistaken form: the switch of an employee does not load the list again. *)
UsersDoesForgetting ==
  [submit |-> Reloads("saving", {"users"}), addExisting |-> Reloads("saving", {"users"}),
   toggleStatus |-> Handler(NoFlag, {"users"}, {}, {}, {}), remove |-> Reloads(NoFlag, {"users"})]

UsersDoes ==
  [submit |-> Reloads("saving", {"users"}), addExisting |-> Reloads("saving", {"users"}),
   toggleStatus |-> Reloads(NoFlag, {"users"}), remove |-> Reloads(NoFlag, {"users"})]
UsersRefresh == [users |-> {"loading"}]
UsersRows == [toggleStatus |-> On("users", {}), remove |-> On("users", {})]
UsersForm == [submit |-> Button({"saving"})]
UsersExistingForm == [addExisting |-> Button({"saving"})]
Users == Screen(UsersLoads, UsersDoes, View({}, UsersRefresh, UsersRows),
                UsersForm @@ UsersExistingForm)

(* A mistaken form: the effect that loads does not depend on the date.      *)
AttendanceLoadsOnce ==
  [records |-> Polled(Load({"date"}, {}, TRUE, "loading")), employees |-> AtOpening(NoFlag)]

(* The attendance of a day, and with it the employees; the timer takes the *)
(* page through the spinner.                                               *)
AttendanceLoads ==
  [records |-> Polled(Follows({"date"}, "loading")),
   employees |-> Load({}, {"date"}, TRUE, NoFlag)]
AttendanceDoes ==
  [edit |-> Reloads("editSaving", {"records"}), markPresent |-> Reloads("markSaving", {"records"})]
AttendanceView == View({"records"}, [records |-> {"loading"}], Nothing)
AttendanceEditForm == [edit |-> Button({"editSaving"})]
AttendanceMarkForm == [markPresent |-> Button({"markSaving"})]
AttendanceOfDay == Screen(AttendanceLoads, AttendanceDoes, AttendanceView,
                          AttendanceEditForm @@ AttendanceMarkForm)

LateArrivalsLoads == [late |-> Follows({"range"}, "loading")]
LateArrivals == Screen(LateArrivalsLoads, Nothing, View({"late"}, Nothing, Nothing), Nothing)

(* The dashboard.                                                          *)
DashboardLoads ==
  [stats |-> AtOpening(NoFlag), recent |-> AtOpening(NoFlag), birthdays |-> AtOpening(NoFlag)]
Dashboard == Screen(DashboardLoads, Nothing, View({}, Nothing, Nothing), Nothing)

(* A report is loaded on coming to its tab and when its date changes; the  *)
(* three share a flag. *)
ReportsLoads ==
  [daily |-> Follows({"date"}, "loading"),
   weekly |-> Load({"week"}, {"week"}, FALSE, "loading"),
   monthly |-> Load({"month"}, {"month"}, FALSE, "loading")]
ReportsView ==
  View({"daily", "weekly", "monthly"}, [daily |-> {}, weekly |-> {}, monthly |-> {}], Nothing)
Reports == Screen(ReportsLoads, Nothing, ReportsView, Nothing)

(* The form is the list here: what is saved comes back as the answer.      *)
SettingsLoads == [settings |-> AtOpening("loading")]
SettingsDoes == [save |-> Shows("saving", {"settings"})]
SettingsRefresh == [settings |-> {"loading"}]
SettingsForm == [save |-> Button({"saving"})]
Settings == Screen(SettingsLoads, SettingsDoes, View({}, SettingsRefresh, SettingsForm), Nothing)

(* The holidays of a period: a year or one of its months. An import shows the    *)
(* holidays anew but not what it had offered to import.                    *)
HolidaysLoads ==
  [holidays |-> Follows({"period"}, NoFlag), offered |-> WhenAsked({"period"}, NoFlag)]
HolidaysDoes ==
  [sync |-> Reloads("syncing", {"holidays"}),
   import |-> Leaving({"offered"}, Reloads("importing", {"holidays"})),
   add |-> Reloads(NoFlag, {"holidays"}), delete |-> Reloads(NoFlag, {"holidays"}),
   createOverride |-> Reloads(NoFlag, {"holidays"}),
   removeOverride |-> Reloads(NoFlag, {"holidays"})]
HolidaysHeader ==
  [again |-> [holidays |-> {"syncing"}, offered |-> {}],
   buttons |-> [sync |-> Button({"syncing"})]]
HolidaysRows ==
  [delete |-> On("holidays", {}), createOverride |-> On("holidays", {}),
   removeOverride |-> On("holidays", {})]
HolidaysImportForm == [import |-> On("offered", {"importing"})]
HolidaysAddForm == [add |-> Button({})]
Holidays == Screen(HolidaysLoads, HolidaysDoes,
                   View({}, HolidaysHeader.again, HolidaysHeader.buttons @@ HolidaysRows),
                   HolidaysImportForm @@ HolidaysAddForm)

(* The QR code. From the moment it expires a timer asks for another every  *)
(* second, whether one has been asked for or not, until an answer shows a  *)
(* code that has not expired.                                              *)
QrLoads == [code |-> AtOpening(NoFlag)]
QrCountdown == {"expire"}
QrDoes ==
  [expire |-> Shows("generating", {"code"}), generateStatic |-> Shows("generating", {"code"}),
   regenerateStatic |-> Shows("generating", {"code"}),
   generateRotating |-> Shows("generating", {"code"}), revoke |-> Shows(NoFlag, {"code"})]
QrButtons ==
  [expire |-> On("code", {}), generateStatic |-> Button({"generating"}),
   regenerateStatic |-> On("code", {"generating"}), generateRotating |-> Button({"generating"}),
   revoke |-> On("code", {})]
Qr == Unguarded(QrCountdown, Screen(QrLoads, QrDoes, View({}, Nothing, QrButtons), Nothing))

(* What the organisation pays.                                             *)
PayLoads == [details |-> AtOpening("fetching")]
Pay == Screen(PayLoads, Nothing, View({"details"}, Nothing, Nothing), Nothing)
BillingLoads == [plan |-> AtOpening("loading")]
Billing == Screen(BillingLoads, Nothing, View({"plan"}, Nothing, Nothing), Nothing)

AdminPages ==
  [users |-> Users, attendance |-> AttendanceOfDay, lateArrivals |-> LateArrivals,
   dashboard |-> Dashboard, reports |-> Reports, settings |-> Settings,
   holidays |-> Holidays, qr |-> Qr, pay |-> Pay, billing |-> Billing]
=============================================================================
