-------------------------------- MODULE Ends ---------------------------------
(***************************************************************************)
(* The two ends of a login side by side: the sessions that the server      *)
(* keeps, and what a tab of the web application makes of them. Which of    *)
(* the two runs is chosen at the start; the other stays as it begins.      *)
(***************************************************************************)
EXTENDS Sessions

CONSTANTS Accounts, Pages, Newcomers, MaxRequests

VARIABLES
  part,
  user, isLoading, path, going, requests, cookie, token, must, overtaken

webVars == <<user, isLoading, path, going, requests, cookie, token, must, overtaken>>

Web == INSTANCE WebSession

(* Every role has the page it lands on, and only the guarded paths are     *)
(* pages: the layouts of the application (app/.../layout.tsx).               *)
ASSUME EndsAssumption ==
  /\ Accounts \subseteq {"SUPER_ADMIN", "ORG_ADMIN", "ORG_ACCOUNTANT", "EMPLOYEE"}
  /\ Newcomers \subseteq Accounts
  /\ Pages \subseteq Web!Guarded
  /\ {"/admin", "/employee"} \subseteq Pages
  /\ "SUPER_ADMIN" \in Accounts => "/super-admin" \in Pages
  /\ "ORG_ACCOUNTANT" \in Accounts => "/accountant" \in Pages
  /\ MaxRequests \in Nat

EndsInit ==
  /\ part \in {"server", "tab"}
  /\ Init /\ Web!Init
  /\ part = "server" => cookie = "none" /\ path = "/login"

EndsNext ==
  /\ UNCHANGED part
  /\ \/ part = "server" /\ Next /\ UNCHANGED webVars
     \/ part = "tab" /\ Web!Next /\ UNCHANGED vars

EndsSpec == EndsInit /\ [][EndsNext]_<<part, vars, webVars>>

-----------------------------------------------------------------------------
(* Whoever is signed in does not end on a page of another role, and who is *)
(* not does not end on a guarded page but the one the proxy sends them to  *)
(* (RoleGuard.tsx:36-66, auth-context.tsx:88-154, proxy.ts:22-50).         *)
LandsWhereAllowed == Web!TypeOK /\ Web!LandsWhereAllowed
=============================================================================
