--------------------------- MODULE PayrollScreens ---------------------------
(***************************************************************************)
(* The payroll page of the web application. Its tabs share nothing but the *)
(* flags that switch off the refresh, so each is a screen of its own, see  *)
(* ScreenParts. Coming to a tab loads it.                                  *)
(***************************************************************************)
EXTENDS ScreenParts

(* The pay settings. A key saves them, whatever is under way.              *)
SettingsTabLoads == [settings |-> AtOpening(NoFlag), tdsSlabs |-> AtOpening(NoFlag)]
SettingsTabSave == [save |-> Reloads("saving", {"settings"})]
SettingsTabKey == {"save"}
SettingsTabHeader == [settings |-> {"saving"}]
SettingsTabForm == [save |-> Button({"saving"})]
SettingsTab ==
  Unguarded(SettingsTabKey,
            Screen(SettingsTabLoads, SettingsTabSave,
                   View({}, SettingsTabHeader, SettingsTabForm), Nothing))

(* Generation. Whether the month has payslips is asked when it is chosen   *)
(* and not again once some have been generated.                            *)
GenerateTabEmployees == [employees |-> AtOpening(NoFlag)]
GenerateTabExisting == [existing |-> Guarded(Follows({"month"}, "checkingExisting"))]
GenerateTabGenerate ==
  LET generate == Leaves("generating", {"existing"})
  IN  [generate |-> generate, override |-> generate]
GenerateTabForm ==
  [generate |-> Button({"generating", "checkingExisting"}), override |-> On("existing", {"generating"})]
GenerateTab ==
  Screen(GenerateTabEmployees @@ GenerateTabExisting, GenerateTabGenerate,
         View({"existing"}, Nothing, GenerateTabForm), Nothing)

(* The payslips of a month, and the audit log of the one that was clicked. *)
(* The buttons for all of them stay while another month is loading.        *)
RecordsTabLoads == [records |-> Load({"month"}, {"month"}, FALSE, "loadingRecords")]
RecordsTabAudit == [audit |-> Load({"record"}, {"record"}, FALSE, "auditLoading")]
RecordsTabBulk == [bulkStatus |-> Reloads(NoFlag, {"records"})]
RecordsTabButtons == [bulkStatus |-> Button({})]
RecordsTabRefresh == [records |-> {}]
RecordsTabHides == {"records", "audit"}
RecordsTab ==
  Screen(RecordsTabLoads @@ RecordsTabAudit, RecordsTabBulk,
         View(RecordsTabHides, RecordsTabRefresh, RecordsTabButtons), Nothing)

(* The two reports, loaded when asked for.                                 *)
AnnualLoads == [annual |-> WhenAsked({"year"}, "loadingAnnual")]
MultiMonthLoads == [multiMonth |-> WhenAsked({"range"}, "loadingMultiMonth")]
AnnualButton == [annual |-> {"loadingAnnual"}]
MultiMonthButton == [multiMonth |-> {"loadingMultiMonth"}]
PayrollReports ==
  Screen(AnnualLoads @@ MultiMonthLoads, Nothing,
         View({"annual", "multiMonth"}, AnnualButton @@ MultiMonthButton, Nothing), Nothing)

PayrollPages ==
  [paySettings |-> SettingsTab, generate |-> GenerateTab, payslips |-> RecordsTab,
   payrollReports |-> PayrollReports]
=============================================================================
