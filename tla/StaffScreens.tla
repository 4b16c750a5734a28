---------------------------- MODULE StaffScreens ----------------------------
(***************************************************************************)
(* The web application's screens of the employees and the accountant, and  *)
(* those that every role has: leaves, documents, notifications, one's own  *)
(* data. See ScreenParts.                                                  *)
(***************************************************************************)
EXTENDS ScreenParts

(* The leaves of all and, on another tab, their balances of a year, loaded *)
(* anew on coming to it. The requests of the list and that of the form for *)
(* a leave share a flag.                                                   *)
LeavesLoads == [leaves |-> Follows({"filters"}, "loading")]
BalancesLoads == [balances |-> Load({"year"}, {"year"}, FALSE, "balanceLoading")]
LeavesDoes ==
  [submit |-> Reloads("loading", {"leaves"}), cancel |-> Reloads(NoFlag, {"leaves"}),
   updateStatus |-> Reloads(NoFlag, {"leaves"})]
BalancesDoes ==
  [initialize |-> Reloads("initLoading", {"balances"}), adjust |-> Reloads("saving", {"balances"})]
LeavesRefresh == [leaves |-> {"loading", "balanceLoading"}]
BalancesTab == [balances |-> {}]
LeavesForm == [submit |-> Button({"loading"})]
LeavesRows == [cancel |-> On("leaves", {}), updateStatus |-> On("leaves", {})]
BalancesButtons == [initialize |-> Button({"initLoading"})]
BalancesForm == [adjust |-> On("balances", {"saving"})]
AllLeaves ==
  Screen(LeavesLoads @@ BalancesLoads, LeavesDoes @@ BalancesDoes,
         View({"balances"}, LeavesRefresh @@ BalancesTab, LeavesRows @@ BalancesButtons),
         LeavesForm @@ BalancesForm)

(* An employee's own leaves and balance.                                   *)
MyLeavesLoads == [myLeaves |-> AtOpening("loading")]
MyBalanceLoads == [myBalance |-> AtOpening(NoFlag)]
MyLeavesDoes ==
  [submit |-> Reloads("loading", {"myLeaves", "myBalance"}), cancel |-> Reloads(NoFlag, {"myLeaves"})]
MyLeavesHeader == [myLeaves |-> {"loading"}]
MyLeaves ==
  Screen(MyLeavesLoads @@ MyBalanceLoads, MyLeavesDoes,
         View({}, MyLeavesHeader, [cancel |-> On("myLeaves", {})]), LeavesForm)

(* The accountant's reports, loaded when asked for, and their exports.     *)
AccountLoads ==
  [monthly |-> WhenAsked({"month"}, "loadingMonth"), annual |-> WhenAsked({"year"}, "loadingAnnual")]
AccountExports == [n \in {"exportMonthly", "exportAnnual", "exportDetailed"} |-> Sends("exportingCsv")]
MonthlyButtons ==
  [again |-> [monthly |-> {"loadingMonth"}],
   buttons |-> [n \in {"exportMonthly", "exportDetailed"} |-> On("monthly", {"exportingCsv"})]]
AnnualReportButtons ==
  [again |-> [annual |-> {"loadingAnnual"}],
   buttons |-> [exportAnnual |-> On("annual", {"exportingCsv"})]]
AccountReports ==
  Screen(AccountLoads, AccountExports,
         View({}, MonthlyButtons.again @@ AnnualReportButtons.again,
              MonthlyButtons.buttons @@ AnnualReportButtons.buttons), Nothing)

(* The accountant's attendance of a day. `acknowledgingId` is the row that *)
(* is being acknowledged, of two here; the button for all of them goes on  *)
(* with the next one when one fails, and looks for no single row.          *)
RowsAcknowledged == {"acknowledgingA", "acknowledgingB"}

ReviewLoads == [records |-> Polled(Follows({"date"}, "loading"))]
ReviewDoes ==
  [n \in RowsAcknowledged |-> Patches(n, {"records"})]
  @@ [edit |-> Reloads("editSaving", {"records"}),
      acknowledgeAll |-> Unfailing(Reloads("bulkAcknowledging", {"records"}))]
ReviewHeader ==
  [again |-> [records |-> {"loading"}],
   buttons |-> [acknowledgeAll |-> Button({"bulkAcknowledging"})]]
ReviewRows == [n \in RowsAcknowledged |-> On("records", {n})]
ReviewForm == [edit |-> Button({"editSaving"})]
Review ==
  OneOf({RowsAcknowledged},
        Screen(ReviewLoads, ReviewDoes,
               View({"records"}, ReviewHeader.again, ReviewHeader.buttons @@ ReviewRows),
               ReviewForm))

(* The accountant's start page.                                            *)
PendingLoads == [pending |-> AtOpening(NoFlag)]
Pending == Screen(PendingLoads, Nothing, View({}, Nothing, Nothing), Nothing)

(* One's own data: each form has its flag, and what is sent is not loaded  *)
(* by the page.                                                            *)
MyInfoProfile == [saveProfile |-> Sends("saving")]
MyInfoPassword == [savePassword |-> Sends("pwSaving")]
MyInfoPin == [savePin |-> Sends("pinSaving"), forgotPin |-> Sends("resettingPin")]
MyInfoDoes == MyInfoProfile @@ MyInfoPassword @@ MyInfoPin
MyInfoProfileForm == [saveProfile |-> Button({"saving"})]
MyInfoPinForm == [savePin |-> Button({"pinSaving"}), forgotPin |-> Button({"resettingPin"})]
MyInfoPasswordForm == [savePassword |-> Button({"pwSaving"})]
MyInfo == Screen(Nothing, MyInfoDoes, View({}, Nothing, Nothing),
                 MyInfoProfileForm @@ MyInfoPinForm @@ MyInfoPasswordForm)

(* One's own salary over a range of months, and the payslip of a row,      *)
(* which covers the page while it loads.                                   *)
SalaryLoads == [salary |-> WhenAsked({"range"}, "loadingData")]
SalaryPreview == [payslip |-> WhenAsked({}, "previewLoading")]
SalaryButton == [salary |-> {"loadingData"}]
SalaryRow == [payslip |-> {"loadingData", "previewLoading"}]
MySalary == Screen(SalaryLoads @@ SalaryPreview, Nothing,
                   View({"salary"}, SalaryButton @@ SalaryRow, Nothing), Nothing)

(* An employee's start page, and the attendance of a month.                *)
EmployeeLoads == [status |-> Polled(AtOpening(NoFlag)), records |-> AtOpening(NoFlag)]
Employee == Screen(EmployeeLoads, Nothing, View({}, Nothing, Nothing), Nothing)

MyAttendanceLoads == [month |-> WhenAsked({"month"}, "loading")]
MyAttendanceButton == [month |-> {"loading"}]
MyAttendance ==
  Screen(MyAttendanceLoads, Nothing, View({}, MyAttendanceButton, Nothing), Nothing)

(* The documents of a member, one of which may be on preview.              *)
DocumentsLoads == [docTypes |-> AtOpening(NoFlag), documents |-> AtOpening("loading")]
DocumentsPreview == [preview |-> Load({"doc"}, {"doc"}, FALSE, "previewLoading")]
DocumentsDoes ==
  [upload |-> Reloads("uploading", {"documents"}), delete |-> Reloads(NoFlag, {"documents"})]
DocumentsForm == [upload |-> Button({"uploading"})]
DocumentsRows == [delete |-> On("documents", {})]
MemberDocuments ==
  Screen(DocumentsLoads @@ DocumentsPreview, DocumentsDoes,
         View({"documents", "preview"}, Nothing, DocumentsRows), DocumentsForm)

DocumentTypesLoads == [types |-> AtOpening("loading")]
DocumentTypesDoes ==
  [save |-> Reloads("saving", {"types"}), toggleActive |-> Reloads(NoFlag, {"types"}),
   delete |-> Reloads(NoFlag, {"types"})]
DocumentTypesForm == [save |-> Button({"saving"})]
DocumentTypesRows == [toggleActive |-> On("types", {}), delete |-> On("types", {})]
DocumentTypes ==
  Screen(DocumentTypesLoads, DocumentTypesDoes, View({"types"}, Nothing, DocumentTypesRows),
         DocumentTypesForm)

ComplianceLoads == [employees |-> AtOpening("loading")]
Compliance == Screen(ComplianceLoads, Nothing, View({"employees"}, Nothing, Nothing), Nothing)

(* A member's page, and the dialog on the one that was clicked.            *)
MemberLoads == [member |-> AtOpening("loading")]
Member == Screen(MemberLoads, Nothing, View({"member"}, Nothing, Nothing), Nothing)
DetailLoads == [detail |-> Follows({"user"}, NoFlag)]
Detail == Screen(DetailLoads, Nothing, View({}, Nothing, Nothing), Nothing)

(* The bell: a notification is taken off the list whatever the answer.     *)
BellLoads == [count |-> Polled(AtOpening(NoFlag)), notifications |-> WhenAsked({}, "loading")]
BellDoes ==
  [n \in {"markAsRead", "markAllAsRead", "delete"} |->
     Unfailing(Patches(NoFlag, {"notifications", "count"}))]
BellOpens == [notifications |-> {}]
BellRows == [n \in DOMAIN BellDoes |-> On("notifications", {})]
Bell == Screen(BellLoads, BellDoes, View({"notifications"}, BellOpens, BellRows), Nothing)

(* A new password, at the first login or by a link.                        *)
ChangePassword == [submit |-> Sends("loading")]
ChangePasswordForm == [submit |-> Button({"loading"})]
FirstPassword == Screen(Nothing, ChangePassword, View({}, Nothing, Nothing), ChangePasswordForm)
ResetPassword == [submit |-> Sends("loading")]
ResetPasswordForm == [submit |-> Button({"loading"})]
NewPassword == Screen(Nothing, ResetPassword, View({}, Nothing, Nothing), ResetPasswordForm)

StaffPages ==
  [leaves |-> AllLeaves, myLeaves |-> MyLeaves, accountReports |-> AccountReports,
   review |-> Review, pending |-> Pending, myInfo |-> MyInfo, mySalary |-> MySalary,
   employee |-> Employee, myAttendance |-> MyAttendance, documents |-> MemberDocuments,
   documentTypes |-> DocumentTypes, compliance |-> Compliance, member |-> Member,
   detail |-> Detail, bell |-> Bell, firstPassword |-> FirstPassword,
   newPassword |-> NewPassword]
=============================================================================
