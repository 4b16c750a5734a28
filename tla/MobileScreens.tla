---------------------------- MODULE MobileScreens ----------------------------
(***************************************************************************)
(* The screens of the employees' mobile app and of the administrators',    *)
(* see ScreenParts. A tab stays as it was while another is on show; some   *)
(* load again on coming back to them, or when they are pulled down.        *)
(***************************************************************************)
EXTENDS ScreenParts

(* The start screen.                                                       *)
HomeLoads ==
  [status |-> AtOpening("isLoading"), quickStats |-> AtOpening(NoFlag),
   todayRecord |-> AtOpening(NoFlag)]
HomeFocus == [l \in DOMAIN HomeLoads |-> {}]
Home == Screen(HomeLoads, Nothing, View({}, HomeFocus, Nothing), Nothing)

(* One's leaves and balance. The screen for a request lies over this one,  *)
(* which does not load again on coming back.                               *)
LeaveTabLoads == [leaves |-> Follows({"filter"}, "loading"), balance |-> AtOpening("balanceLoading")]
LeaveTabCancel == [cancel |-> Reloads(NoFlag, {"leaves", "balance"})]
LeaveTabRows == [cancel |-> On("leaves", {})]
LeaveTabHides == {"leaves", "balance"}
RequestScreen == [request |-> Leaves("submitting", {"leaves"})]
RequestButton == [request |-> Button({"submitting"})]
LeaveTab == Screen(LeaveTabLoads, LeaveTabCancel @@ RequestScreen,
                   View(LeaveTabHides, Nothing, LeaveTabRows), RequestButton)

(* One's payslips, in a list and one by one, each downloaded by itself.    *)
PayslipsLoads == [records |-> AtOpening("loading")]
PayslipsDownload == [download |-> Sends("downloading")]
PayslipsRows == [download |-> On("records", {"downloading"})]
Payslips == Screen(PayslipsLoads, PayslipsDownload,
                   View({"records"}, Nothing, PayslipsRows), Nothing)

PayslipLoads == [record |-> AtOpening("loading")]
PayslipDownload == [download |-> Sends("downloading")]
PayslipButton == [download |-> On("record", {"downloading"})]
OnePayslip == Screen(PayslipLoads, PayslipDownload, View({"record"}, Nothing, PayslipButton), Nothing)

(* One's profile: three forms and the reset of the PIN.                    *)
ProfileSave == [saveProfile |-> Sends("savingProfile")]
ProfilePassword == [changePassword |-> Sends("savingPassword")]
ProfilePin == [changePin |-> Sends("savingPin"), forgotPin |-> Sends("resettingPin")]
ProfileDoes == ProfileSave @@ ProfilePassword @@ ProfilePin
ProfileForms == [n \in DOMAIN ProfileDoes |-> Button({ProfileDoes[n].flag})]
Profile == Screen(Nothing, ProfileDoes, View({}, Nothing, Nothing), ProfileForms)

(* One's attendance of a month, asked for again after a failure.           *)
MonthLoads == [month |-> Follows({"month"}, "loading")]
MonthRetry == [month |-> {"loading"}]
Month == Screen(MonthLoads, Nothing, View({"month"}, MonthRetry, Nothing), Nothing)

(* The first password.                                                     *)
InitialPassword == [submit |-> Sends("submitting")]
InitialPasswordButton == [submit |-> Button({"submitting"})]
PasswordScreen == Screen(Nothing, InitialPassword, View({}, Nothing, Nothing), InitialPasswordButton)

(* The administrators' app: today's attendance, the employees, the numbers *)
(* on the start screen.                                                    *)
TodayLoads == [records |-> AtOpening("loading")]
TodayFocus == [records |-> {}]
Today == Screen(TodayLoads, Nothing, View({"records"}, TodayFocus, Nothing), Nothing)

EmployeesLoads == [employees |-> AtOpening("loading")]
EmployeesFocus == [employees |-> {}]
Employees == Screen(EmployeesLoads, Nothing, View({"employees"}, EmployeesFocus, Nothing), Nothing)

NumbersLoads == [numbers |-> AtOpening("loading")]
NumbersFocus == [numbers |-> {}]
Numbers == Screen(NumbersLoads, Nothing, View({"numbers"}, NumbersFocus, Nothing), Nothing)

(* The leaves to decide on. `actionLoading` is the row under way, of two   *)
(* here; pulled down, the list stays on show while it loads.               *)
RowsDecided == {"actionA", "actionB"}

DecideLoads == [leaves |-> Follows({"filter"}, "loading")]
DecideDoes == [n \in RowsDecided |-> Reloads(n, {"leaves"})]
DecideFocus == [leaves |-> {}]
DecideRows == [n \in RowsDecided |-> On("leaves", {n})]
Decide == OneOf({RowsDecided},
                Screen(DecideLoads, DecideDoes, View({}, DecideFocus, DecideRows), Nothing))

MobilePages ==
  [home |-> Home, leaveTab |-> LeaveTab, payslipsList |-> Payslips, onePayslip |-> OnePayslip,
   profile |-> Profile, month |-> Month, password |-> PasswordScreen, today |-> Today,
   employees |-> Employees, numbers |-> Numbers, decide |-> Decide]
=============================================================================
