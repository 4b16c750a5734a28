------------------------------ MODULE WebSession ------------------------------
(***************************************************************************)
(* Who is signed in, in a tab of the web application, and which page it    *)
(* ends up on: the provider that asks the server who the user is           *)
(* (auth-context.tsx), the guard around the pages of a role (RoleGuard),   *)
(* the page that only forwards (app/page.tsx), the first change of a       *)
(* password, and the proxy that every navigation passes (proxy.ts), which  *)
(* knows of the user only that there is a cookie.                          *)
(*                                                                         *)
(* Accounts are named by their roles. The cookie is shared by all tabs.    *)
(***************************************************************************)
EXTENDS Integers, SequencesExt

CONSTANTS
  Accounts,     \* the roles that sign in
  Pages,        \* the guarded pages there are
  Newcomers,    \* those of them that have to change their password
  MaxRequests   \* bound on the requests of a tab that are on their way

Home ==
  [SUPER_ADMIN |-> "/super-admin", ORG_ADMIN |-> "/admin",
   ORG_ACCOUNTANT |-> "/accountant", EMPLOYEE |-> "/employee"]

(* The layouts with a guard; /users, /settings and /holidays have that of  *)
(* /admin, /my-info that of /employee. *)
Guarded == {"/super-admin", "/admin", "/accountant", "/employee", "/payroll", "/leaves"}
Allowed ==
  [p \in Guarded |->
    CASE p = "/payroll" -> {"ORG_ADMIN", "ORG_ACCOUNTANT"}
      [] p = "/leaves" -> {"ORG_ADMIN", "ORG_ACCOUNTANT", "EMPLOYEE"}
      [] OTHER -> {role \in DOMAIN Home : Home[role] = p}]

Paths == Pages \cup {"/", "/login", "/change-password"}
Nobody == [role |-> "nobody", must |-> FALSE]
Nowhere == "nowhere"

VARIABLES
  user, isLoading,   \* of the provider
  path, going,       \* the page, and the one that was last asked for
  requests,          \* on their way, with the answer once the server has given it
  cookie,            \* whose token the browser keeps
  token,             \* what the server thinks of it: valid, ended, not its own
  must,              \* the accounts that have to change their password
  overtaken          \* history: a handler's redirection replaced one under way

vars == <<user, isLoading, path, going, requests, cookie, token, must, overtaken>>
server == <<cookie, token, must>>

Users == {Nobody} \cup [role : Accounts, must : BOOLEAN]
TypeOK ==
  /\ user \in Users /\ isLoading \in BOOLEAN
  /\ path \in Paths /\ going \in Paths \cup {Nowhere}
  /\ cookie \in Accounts \cup {"none"} /\ token \in {"valid", "ended", "foreign"}
  /\ must \subseteq Newcomers /\ overtaken \in BOOLEAN

Profile(account) == [role |-> account, must |-> account \in must]

-----------------------------------------------------------------------------
(* Redirections.                                                           *)
Protected == Pages \ {"/accountant"}

Proxy(p) ==
  CASE p = "/login" /\ cookie # "none" -> "/admin"
    [] p \in Protected /\ cookie = "none" -> "/login"
    [] OTHER -> p

(* A mistaken form: somebody of another role stays on a blank page.        *)
GuardForNobody(p, u) == IF u = Nobody THEN "/login" ELSE Nowhere

Guard(p, u) ==
  CASE u = Nobody -> "/login"
    [] u # Nobody /\ u.role \notin Allowed[p] -> Home[u.role]
    [] OTHER -> Nowhere

Forward(u) ==
  CASE u = Nobody -> "/login"
    [] u.role \in {"SUPER_ADMIN", "ORG_ADMIN"} -> Home[u.role]
    [] OTHER -> "/employee"

(* Where a page sends a user when it is mounted, or the user changes.      *)
Redirect(p, u, loading) ==
  CASE p \in Pages /\ ~loading -> Guard(p, u)
    [] p = "/" /\ ~loading -> Forward(u)
    [] p = "/change-password" /\ u # Nobody /\ ~u.must -> Home[u.role]
    [] OTHER -> Nowhere

(* The effects of the page come after what a handler asked for, and the    *)
(* last one counts.                                                        *)
Push(asked) ==
  LET forced == Redirect(path, user', isLoading')
      changed == user' # Nobody \/ user' # user \/ isLoading' # isLoading
  IN  /\ going' = IF changed /\ forced # Nowhere THEN forced
                  ELSE IF asked # Nowhere THEN asked ELSE going
      /\ overtaken' = (overtaken \/ (asked # Nowhere /\ going # Nowhere))

Mount(p) ==
  /\ path' = p
  /\ going' = IF p = path THEN Nowhere ELSE Redirect(p, user, isLoading)

Arrive ==
  /\ going # Nowhere
  /\ Mount(Proxy(going))
  /\ UNCHANGED <<user, isLoading, requests, server, overtaken>>

-----------------------------------------------------------------------------
(* The user. A page is there to be used if its guard lets it be seen.      *)
Sent(kind, by) == [kind |-> kind, by |-> by, done |-> FALSE, answer |-> Nobody]
Under(kinds) == \E i \in DOMAIN requests : requests[i].kind \in kinds
Send(request) == Len(requests) < MaxRequests /\ requests' = Append(requests, request)
Seen == path \in Pages /\ ~isLoading /\ user.role \in Allowed[path]

Open(p) ==
  /\ path' = Proxy(p) /\ going' = Nowhere
  /\ user' = Nobody /\ isLoading' = TRUE
  /\ requests' = <<Sent("me", Nobody)>>
  /\ overtaken' = FALSE
  /\ UNCHANGED server

Init ==
  /\ cookie \in Accounts \cup {"none"} /\ token = "valid" /\ must = Newcomers
  /\ path \in {Proxy(p) : p \in Paths} /\ going = Nowhere
  /\ user = Nobody /\ isLoading = TRUE
  /\ requests = <<Sent("me", Nobody)>>
  /\ overtaken = FALSE

SignIn(account) ==
  /\ path = "/login" /\ ~Under({"login", "loginMe"})
  /\ Send(Sent("login", Profile(account)))
  /\ UNCHANGED <<user, isLoading, path, going, server, overtaken>>

SignOut ==
  /\ Seen
  /\ Send(Sent("logout", Nobody))
  /\ UNCHANGED <<user, isLoading, path, going, server, overtaken>>

(* The settings and one's own data ask again who the user is. *)
RefreshUser ==
  /\ Seen /\ path \in {"/admin", "/employee"}
  /\ Send(Sent("me", Nobody))
  /\ UNCHANGED <<user, isLoading, path, going, server, overtaken>>

ChangePassword ==
  /\ path = "/change-password" /\ ~Under({"change", "changeMe"})
  /\ Send(Sent("change", user))
  /\ UNCHANGED <<user, isLoading, path, going, server, overtaken>>

Visit(p) ==
  /\ Seen /\ p \in Pages /\ user.role \in Allowed[p]
  /\ going' = p
  /\ UNCHANGED <<overtaken, user, isLoading, path, requests, server>>

(* The browser's buttons ask no server. *)
Back(p) ==
  /\ p # path /\ Mount(p)
  /\ UNCHANGED <<overtaken, user, isLoading, requests, server>>

-----------------------------------------------------------------------------
(* The server. A token it knows to have ended it takes out of the cookie;  *)
(* one whose signature or date is wrong it only refuses.                   *)
Answer(i, answer) == requests' = [requests EXCEPT ![i].done = TRUE, ![i].answer = answer]
Authentic == cookie # "none" /\ token = "valid"
Emptied == cookie' = "none" /\ token' = "valid"
Refused(i) ==
  /\ ~Authentic
  /\ Answer(i, Nobody)
  /\ (IF token = "ended" THEN Emptied ELSE UNCHANGED <<cookie, token>>)
  /\ UNCHANGED must

Me(i) ==
  /\ requests[i].kind \in {"me", "loginMe", "changeMe"}
  /\ \/ Authentic /\ Answer(i, Profile(cookie)) /\ UNCHANGED server
     \/ Refused(i)

LoggedIn(i) ==
  /\ requests[i].kind = "login"
  /\ Answer(i, Profile(requests[i].by.role))
  /\ cookie' = requests[i].by.role /\ token' = "valid"
  /\ UNCHANGED must

LoggedOut(i) ==
  /\ requests[i].kind = "logout"
  /\ \/ Authentic /\ Answer(i, Nobody) /\ Emptied /\ UNCHANGED must
     \/ Refused(i)

Changed(i) ==
  /\ requests[i].kind = "change"
  /\ \/ /\ Authentic /\ cookie \in must
        /\ must' = must \ {cookie}
        /\ Answer(i, Profile(cookie))
        /\ UNCHANGED <<cookie, token>>
     \/ /\ Authentic /\ cookie \notin must /\ Answer(i, Nobody) /\ UNCHANGED server
     \/ Refused(i)

(* It fails on the way there or back, or the server is too busy. *)
Lost(i) == Answer(i, Nobody) /\ UNCHANGED server

Serve(i) ==
  /\ \/ ~requests[i].done /\ (Me(i) \/ LoggedIn(i) \/ LoggedOut(i) \/ Changed(i))
     \/ Lost(i)
  /\ UNCHANGED <<user, isLoading, path, going, overtaken>>

(* A session ends; the secret is changed, or a token lasts less long than  *)
(* the cookie; the cookie is over, or another tab signs in or out.         *)
Meanwhile ==
  /\ \/ cookie # "none" /\ token' \in {"ended", "foreign"} /\ UNCHANGED cookie
     \/ cookie # "none" /\ Emptied
     \/ cookie' \in Accounts \ {cookie} /\ token' = "valid"
  /\ UNCHANGED <<user, isLoading, path, going, requests, must, overtaken>>

-----------------------------------------------------------------------------
(* What a tab does with an answer.                                         *)
Got(i, kind) ==
  /\ requests[i].done /\ requests[i].kind = kind
  /\ UNCHANGED <<path, server>>
Take(i) == requests' = RemoveAt(requests, i)

(* checkAuth *)
Know(i) ==
  /\ user' = requests[i].answer
  /\ isLoading' = FALSE

GotMe(i) ==
  /\ Got(i, "me") /\ Take(i) /\ Know(i)
  /\ Push(IF requests[i].answer.must THEN "/change-password" ELSE Nowhere)

GotLogin(i) ==
  /\ Got(i, "login")
  /\ UNCHANGED isLoading
  /\ IF requests[i].answer = Nobody THEN Take(i) /\ UNCHANGED <<user, going, overtaken>>
     ELSE /\ user' = requests[i].answer
          /\ requests' = [requests EXCEPT ![i] = Sent("loginMe", requests[i].answer)]
          /\ Push(Nowhere)

GotLoginMe(i) ==
  LET known == IF requests[i].answer = Nobody THEN requests[i].by ELSE requests[i].answer IN
  /\ Got(i, "loginMe") /\ Take(i)
  /\ user' = (IF requests[i].answer = Nobody THEN user ELSE requests[i].answer)
  /\ UNCHANGED isLoading
  /\ Push(IF known.must THEN "/change-password" ELSE Home[requests[i].by.role])

GotLogout(i) ==
  /\ Got(i, "logout") /\ Take(i)
  /\ user' = Nobody /\ UNCHANGED isLoading
  /\ Push("/login")

GotChange(i) ==
  /\ Got(i, "change")
  /\ IF requests[i].answer = Nobody THEN Take(i)
     ELSE requests' = [requests EXCEPT ![i] = Sent("changeMe", requests[i].by)]
  /\ UNCHANGED <<user, isLoading, going, overtaken>>

GotChangeMe(i) ==
  /\ Got(i, "changeMe") /\ Take(i) /\ Know(i)
  /\ Push(IF requests[i].by = Nobody THEN "/employee" ELSE Home[requests[i].by.role])

Next ==
  \/ \E p \in Paths : Open(p) \/ Visit(p) \/ Back(p)
  \/ \E account \in Accounts : SignIn(account)
  \/ SignOut \/ RefreshUser \/ ChangePassword
  \/ Arrive \/ Meanwhile
  \/ \E i \in DOMAIN requests :
       \/ Serve(i)
       \/ GotMe(i) \/ GotLogin(i) \/ GotLoginMe(i)
       \/ GotLogout(i) \/ GotChange(i) \/ GotChangeMe(i)

Spec == Init /\ [][Next]_vars

-----------------------------------------------------------------------------
(* Once nothing is under way: whoever is signed in is not left on a page   *)
(* that is not for their role, nor on the one that only forwards; and who  *)
(* is not sees no guarded page, unless a handler's redirection replaced    *)
(* the guard's. /admin is excepted: the proxy sends /login there as long   *)
(* as there is a cookie, whatever the server thinks of it (RoleGuard.tsx:  *)
(* 36-47, proxy.ts:31-35).                                                 *)
Settled == requests = <<>> /\ going = Nowhere /\ ~isLoading
LandsWhereAllowed ==
  Settled =>
    /\ user # Nobody /\ path \in Pages => user.role \in Allowed[path]
    /\ path # "/"
    /\ user = Nobody /\ path \in Pages => path = "/admin" \/ overtaken
=============================================================================
