-------------------------- MODULE SuperAdminScreens --------------------------
(***************************************************************************)
(* The web application's screens of the platform's administrator, see      *)
(* ScreenParts.                                                            *)
(***************************************************************************)
EXTENDS ScreenParts

(* The organisations, with their figures and holidays in one load.         *)
OrganizationsLoads == [organizations |-> AtOpening("loading")]
OrganizationsDoes ==
  [create |-> Reloads("loading", {"organizations"})]
  @@ [n \in {"toggleStatus", "toggleFeature", "delete"} |-> Reloads(NoFlag, {"organizations"})]
OrganizationsRefresh == [organizations |-> {"loading"}]
OrganizationsRows ==
  [n \in {"toggleStatus", "toggleFeature", "delete"} |-> On("organizations", {})]
OrganizationsForm == [create |-> Button({"loading"})]
Organizations == Screen(OrganizationsLoads, OrganizationsDoes,
                        View({}, OrganizationsRefresh, OrganizationsRows), OrganizationsForm)

(* The subscriptions that match a filter. `actionLoading` is the action    *)
(* under way (`action` stands for each of those on a subscription) and     *)
(* `overrideLoading` the feature being switched, of which there are two    *)
(* here. The confirmation of a reset looks for its own value only, so does *)
(* the trial job.                                                          *)
ActionFlags == {"action", "reset", "trial-job"}
FeatureFlags == {"featureA", "featureB"}

SubscriptionsLoads == [subs |-> Follows({"filter"}, "loading")]
SubscriptionsDoes ==
  [reset |-> Reloads("reset", {"subs"}), action |-> Reloads("action", {"subs"}),
   trialJob |-> Leaves("trial-job", {"subs"}),
   toggleA |-> Reloads("featureA", {"subs"}), toggleB |-> Reloads("featureB", {"subs"})]
SubscriptionsHeader ==
  [again |-> [subs |-> {}], buttons |-> [trialJob |-> Button({"trial-job"})]]
SubscriptionsReset == [reset |-> On("subs", {"reset"})]
SubscriptionsActions == [action |-> On("subs", ActionFlags)]
SubscriptionsFeatures ==
  [toggleA |-> On("subs", {"featureA"}), toggleB |-> On("subs", {"featureB"})]
Subscriptions ==
  OneOf({ActionFlags, FeatureFlags},
        Screen(SubscriptionsLoads, SubscriptionsDoes,
               View({"subs"}, SubscriptionsHeader.again,
                    SubscriptionsHeader.buttons @@ SubscriptionsReset
                    @@ SubscriptionsActions @@ SubscriptionsFeatures), Nothing))

(* The plans: each field has a flag, whose value is the tier being saved,  *)
(* the first or the second here; the page is a spinner while it loads.     *)
PlanFlags ==
  {{"features1", "features2"}, {"price1", "price2"}, {"setupFee1", "setupFee2"},
   {"trialDays1", "trialDays2"}, {"gracePeriod1", "gracePeriod2"}, {"discount"}}

PlansLoads == [plans |-> AtOpening("loading")]
PlansDoes == [n \in UNION PlanFlags |-> Reloads(n, {"plans"})]
PlansButtons == [n \in UNION PlanFlags |-> On("plans", {n})]
Plans == OneOf(PlanFlags,
               Screen(PlansLoads, PlansDoes, View({"plans"}, Nothing, PlansButtons), Nothing))

(* The master holidays of a year. Where there are none a second button to  *)
(* synchronise them is on whatever is under way.                           *)
MasterHolidaysLoads == [holidays |-> Follows({"year"}, NoFlag)]
MasterHolidaysDoes ==
  [sync |-> Reloads("loading", {"holidays"}), create |-> Reloads("loading", {"holidays"}),
   toggleStatus |-> Patches(NoFlag, {"holidays"}), delete |-> Reloads(NoFlag, {"holidays"})]
MasterHolidaysSync == [sync |-> Button({"loading"})]
MasterHolidaysNone == [sync |-> On("holidays", {})]
MasterHolidaysRow == [toggleStatus |-> On("holidays", {}), delete |-> On("holidays", {})]
MasterHolidaysForm == [create |-> Button({"loading"})]
MasterHolidays ==
  Unguarded({"sync"},
            Screen(MasterHolidaysLoads, MasterHolidaysDoes,
                   View({}, Nothing, MasterHolidaysNone @@ MasterHolidaysRow),
                   MasterHolidaysSync @@ MasterHolidaysForm))

(* The tax slabs: the form is the list.                                    *)
TdsSlabsLoads == [config |-> AtOpening("loading")]
TdsSlabsDoes == [save |-> Shows("saving", {"config"})]
TdsSlabsHeader == View({}, [config |-> {"loading"}], [save |-> Button({"saving"})])
TdsSlabs == Screen(TdsSlabsLoads, TdsSlabsDoes, TdsSlabsHeader, Nothing)

SuperAdminPages ==
  [organizations |-> Organizations, subscriptions |-> Subscriptions, plans |-> Plans,
   masterHolidays |-> MasterHolidays, tdsSlabs |-> TdsSlabs]
=============================================================================
