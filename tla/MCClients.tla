------------------------------ MODULE MCClients ------------------------------
(***************************************************************************)
(* Small instances, for TLC, of what runs in a browser or on a telephone:  *)
(* the API client of the apps, with three requests, so that one may be     *)
(* queued behind another's refresh while a third is logged out; every page *)
(* of the web application and of the apps; and the forms.                  *)
(***************************************************************************)
EXTENDS Clients, AdminScreens, SuperAdminScreens, PayrollScreens, StaffScreens,
        MobileScreens

AllPages == AdminPages @@ SuperAdminPages @@ PayrollPages @@ StaffPages @@ MobilePages
=============================================================================
