---------------------------- MODULE MobileClient ----------------------------
(***************************************************************************)
(* The API client of the mobile apps (lib/api.ts) with the auth store      *)
(* above it (store/auth.store.ts): the interceptor that answers a 401 with *)
(* one refresh for all, the queue of the requests that wait for it, and    *)
(* the logout that a failed refresh forces.                                *)
(*                                                                         *)
(* Of the server there is what its answers depend on: the sessions, the    *)
(* rate limit and the header check. The two tokens are kept under keys of  *)
(* their own and written, or deleted, one by one: the two writes of a pair *)
(* are started together and end in either order. An app may be killed at   *)
(* any time; what is stored remains.                                       *)
(***************************************************************************)
EXTENDS Integers, FiniteSets

CONSTANTS
  Requests,     \* the requests an app can have in progress
  MaxSessions,  \* bound on the sessions the server creates
  RateLimit     \* requests that the server answers before it says 429

ASSUME ClientAssumption == RateLimit \in Nat

NoToken == 0
Tokens == 1..MaxSessions
Keys == {"access", "refresh"}
Purposes == {"data", "me", "init", "logout"}

Idle == [step |-> "idle"]
RequestStates ==
  {Idle}
  \cup [step : {"new", "queued", "read"}, for : Purposes, retry : BOOLEAN]
  \cup [step : {"sent", "refresh", "access", "rotate"}, for : Purposes, retry : BOOLEAN,
        token : Tokens \cup {NoToken}]
  \cup [step : {"reject"}, for : Purposes, retry : BOOLEAN, keys : SUBSET Keys]
  \cup [step : {"wipe"}, for : {"init", "logout", "login"}, keys : SUBSET Keys]
  \cup [step : {"login"}]
  \cup [step : {"store"}, token : Tokens, keys : SUBSET Keys]

VARIABLES
  access, refresh,  \* the stored tokens, by the session they are of
  isAuthenticated,
  isRefreshing,
  request,          \* request -> what it is in the middle of
  running,          \* whether the app has been started
  session,          \* the server's sessions: none, live, expired, rotated, gone
  headerChecked,    \* whether a POST needs X-Requested-With, as server.ts has it
  answered,         \* requests the server has answered in this window
  torn,             \* history: the app was killed while a refresh was under way
  late,             \* history: the requests queued when the queue had been processed
  mixed             \* history: a login while requests of an earlier one were under way, a
                    \* pair stored between two deletions, the app killed between two writes

vars == <<access, refresh, isAuthenticated, isRefreshing, request, running,
          session, headerChecked, answered, torn, late, mixed>>
server == <<session, headerChecked, answered>>
app == <<access, refresh, isAuthenticated, isRefreshing, request, running>>
history == <<torn, late, mixed>>

TypeOK ==
  /\ {access, refresh} \subseteq Tokens \cup {NoToken}
  /\ {isAuthenticated, isRefreshing, running, headerChecked, torn, mixed} \subseteq BOOLEAN
  /\ request \in [Requests -> RequestStates]
  /\ session \in [Tokens -> {"none", "live", "expired", "rotated", "gone"}]
  /\ answered \in 0..RateLimit
  /\ late \subseteq Requests

Init ==
  /\ access = NoToken /\ refresh = NoToken
  /\ isAuthenticated = FALSE /\ isRefreshing = FALSE
  /\ request = [r \in Requests |-> Idle]
  /\ running = FALSE
  /\ session = [t \in Tokens |-> "none"]
  /\ headerChecked \in BOOLEAN
  /\ answered = 0
  /\ torn = FALSE /\ late = {} /\ mixed = FALSE

In(r, step) == request[r].step = step

(* Requests that are free are alike: one of them is taken. The user starts *)
(* one only while another is free, which a forced logout may need.         *)
Free(r) == In(r, "idle") /\ r = CHOOSE q \in Requests : In(q, "idle")
Ready(r) == running /\ Free(r) /\ \E g \in Requests \ {r} : In(g, "idle")
New(purpose) == [step |-> "new", for |-> purpose, retry |-> FALSE]
At(r, step) == [step |-> step, for |-> request[r].for, retry |-> request[r].retry]
With(r, step, token) == [step |-> step, for |-> request[r].for, retry |-> request[r].retry,
                         token |-> token]
Rejected(r) == [step |-> "reject", for |-> request[r].for, retry |-> request[r].retry, keys |-> Keys]
Wiping(purpose) == [step |-> "wipe", for |-> purpose, keys |-> Keys]
Storing(token) == [step |-> "store", token |-> token, keys |-> Keys]
Become(r, state) == request' = [request EXCEPT ![r] = state]
For(r, purposes) == "for" \in DOMAIN request[r] /\ request[r].for \in purposes
Busy == \E r \in Requests : ~In(r, "idle")

(* What a caller does with a failure: the store's logout, and its          *)
(* initialisation, clear the tokens; a screen shows it. *)
Failed(purpose) == IF purpose \in {"logout", "init"} THEN Wiping(purpose) ELSE Idle

(* Of a pair, the keys that are still to be written or deleted.            *)
Clearing(r) == In(r, "wipe") \/ In(r, "reject")
WriteEnds(r, key) == request' = [request EXCEPT ![r].keys = @ \ {key}]
Halfway(r) == (Clearing(r) \/ In(r, "store")) /\ request[r].keys \notin {{}, Keys}
Alone(r) == \A q \in Requests \ {r} : In(q, "idle")

(***************************************************************************)
(* The screens and the auth store.                                         *)
(***************************************************************************)
Open(r) ==
  /\ Ready(r) /\ isAuthenticated
  /\ Become(r, New("data"))
  /\ UNCHANGED <<access, refresh, isAuthenticated, isRefreshing, running, server, history>>

Logout(r) ==
  /\ Ready(r) /\ isAuthenticated
  /\ Become(r, New("logout"))
  /\ UNCHANGED <<access, refresh, isAuthenticated, isRefreshing, running, server, history>>

(* initialize: without a token the login screen, else ask who it is. *)
Start(r) ==
  /\ ~running /\ Free(r)
  /\ running' = TRUE
  /\ Become(r, IF access = NoToken THEN Idle ELSE New("init"))
  /\ UNCHANGED <<access, refresh, isAuthenticated, isRefreshing, server, history>>

(* The button is disabled until the last login, or the initialisation, is  *)
(* through, with what they clear. *)
Submitting == \E q \in Requests :
  In(q, "login") \/ In(q, "store") \/ For(q, {"me", "init", "login"})

Login(r) ==
  /\ Ready(r) /\ ~isAuthenticated
  /\ ~Submitting
  /\ Become(r, [step |-> "login"])
  /\ mixed' = (mixed \/ Busy)
  /\ UNCHANGED <<access, refresh, isAuthenticated, isRefreshing, running, server, torn, late>>

Live(token) == token # NoToken /\ session[token] = "live"
Served == answered < RateLimit /\ answered' = answered + 1

(* The answer of the server: a session, or a refusal. *)
Created(t) == session[t] = "none" /\ \A u \in 1..(t - 1) : session[u] # "none"

LoginAnswer(r) ==
  /\ In(r, "login")
  /\ \/ \E t \in Tokens : /\ Served
                          /\ Created(t)
                          /\ session' = [session EXCEPT ![t] = "live"]
                          /\ Become(r, Storing(t))
     \/ Become(r, Idle) /\ UNCHANGED <<session, answered>>
  /\ UNCHANGED <<access, refresh, isAuthenticated, isRefreshing, running, headerChecked, history>>

(* The user is not of the role the app is for: the session is not stored,  *)
(* and what is stored is cleared.                                          *)
LoginWrongRole(r) ==
  /\ In(r, "login") /\ Served
  /\ \E t \in Tokens : Created(t) /\ session' = [session EXCEPT ![t] = "live"]
  /\ Become(r, Wiping("login"))
  /\ UNCHANGED <<access, refresh, isAuthenticated, isRefreshing, running, headerChecked, history>>

(* setTokens. *)
StoreToken(r, key) ==
  /\ In(r, "store") /\ key \in request[r].keys
  /\ WriteEnds(r, key)
  /\ access' = IF key = "access" THEN request[r].token ELSE access
  /\ refresh' = IF key = "refresh" THEN request[r].token ELSE refresh
  /\ torn' = (torn /\ ~(key = "refresh" /\ Alone(r)))
  /\ UNCHANGED <<isAuthenticated, isRefreshing, running, server, late, mixed>>

LoginStored(r) ==
  /\ In(r, "store") /\ request[r].keys = {}
  /\ Become(r, New("me"))
  /\ mixed' = (mixed /\ ~(Alone(r) /\ {access, refresh} = {request[r].token}))
  /\ UNCHANGED <<access, refresh, isAuthenticated, isRefreshing, running, server, torn, late>>

(* clearTokens. *)
ClearToken(r, key) ==
  /\ Clearing(r) /\ key \in request[r].keys
  /\ WriteEnds(r, key)
  /\ access' = IF key = "access" THEN NoToken ELSE access
  /\ refresh' = IF key = "refresh" THEN NoToken ELSE refresh
  /\ UNCHANGED <<isAuthenticated, isRefreshing, running, server, history>>

(* Cleared: the login screen, where a login that was refused stays. *)
Wiped(r) ==
  /\ In(r, "wipe") /\ request[r].keys = {}
  /\ isAuthenticated' = (isAuthenticated /\ request[r].for = "login")
  /\ Become(r, Idle)
  /\ UNCHANGED <<access, refresh, isRefreshing, running, server, history>>

(***************************************************************************)
(* A request and its answer.                                               *)
(***************************************************************************)
Send(r) ==
  /\ In(r, "new")
  /\ Become(r, With(r, "sent", access))
  /\ UNCHANGED <<access, refresh, isAuthenticated, isRefreshing, running, server, history>>

Succeed(r) ==
  /\ In(r, "sent") /\ Live(request[r].token)
  /\ Served
  /\ session' = IF request[r].for = "logout"
                THEN [session EXCEPT ![request[r].token] = "gone"] ELSE session
  /\ isAuthenticated' = (isAuthenticated \/ request[r].for \in {"me", "init"})
  /\ Become(r, IF request[r].for = "logout" THEN Wiping("logout") ELSE Idle)
  /\ UNCHANGED <<access, refresh, isRefreshing, running, headerChecked, history>>

(* The user whose session was kept is no longer of the app's role. *)
InitWrongRole(r) ==
  /\ In(r, "sent") /\ Live(request[r].token)
  /\ Served
  /\ request[r].for = "init"
  /\ Become(r, Wiping("init"))
  /\ UNCHANGED <<access, refresh, isAuthenticated, isRefreshing, running, session, headerChecked,
                 history>>

(* 429, a server error, no network: rejected as it is. *)
Reject(r) ==
  /\ In(r, "sent")
  /\ Become(r, Failed(request[r].for))
  /\ UNCHANGED <<access, refresh, isAuthenticated, isRefreshing, running, server, history>>

Unauthorized(r) == In(r, "sent") /\ ~Live(request[r].token) /\ Served

RejectRetried(r) ==
  /\ Unauthorized(r) /\ request[r].retry
  /\ Become(r, Failed(request[r].for))
  /\ UNCHANGED <<access, refresh, isAuthenticated, isRefreshing, running, session, headerChecked,
                 history>>

(* The queue has been processed once the failed refresh clears the tokens, *)
(* but isRefreshing holds until that is done. *)
Queue(r) ==
  /\ Unauthorized(r) /\ ~request[r].retry
  /\ isRefreshing
  /\ Become(r, At(r, "queued"))
  /\ late' = IF \E q \in Requests : In(q, "reject") THEN late \cup {r} ELSE late
  /\ UNCHANGED <<access, refresh, isAuthenticated, isRefreshing, running, session, headerChecked,
                 torn, mixed>>

(* A mistaken form: every 401 starts a refresh of its own. *)
MayRefreshAnyway == isRefreshing \in BOOLEAN

MayRefresh == ~isRefreshing

RefreshStart(r) ==
  /\ Unauthorized(r) /\ ~request[r].retry
  /\ MayRefresh
  /\ isRefreshing' = TRUE
  /\ Become(r, [step |-> "read", for |-> request[r].for, retry |-> TRUE])
  /\ UNCHANGED <<access, refresh, isAuthenticated, running, session, headerChecked, history>>

(***************************************************************************)
(* The refresh. Whatever fails, the queue is rejected at once.             *)
(***************************************************************************)
Queued == {q \in Requests : In(q, "queued")}

(* A mistaken form: the queue is processed after a success only. *)
RefreshFailsAlone(r) == Become(r, Rejected(r)) /\ late' = {}

RefreshFails(r) ==
  /\ request' = [q \in Requests |->
       CASE q = r -> Rejected(r)
         [] q \in Queued -> Failed(request[q].for)
         [] OTHER -> request[q]]
  /\ late' = {}

ReadRefreshToken(r) ==
  /\ In(r, "read")
  /\ IF refresh = NoToken THEN RefreshFails(r)
     ELSE Become(r, With(r, "refresh", refresh)) /\ UNCHANGED late
  /\ UNCHANGED <<access, refresh, isAuthenticated, isRefreshing, running, server, torn, mixed>>

(* The server rotates, an expired row within its last second at most (see  *)
(* Sessions); a rotated token ends every session. *)
Rotated(t, u) == [session EXCEPT ![t] = "rotated", ![u] = "live"]
Ended == [t \in Tokens |-> IF session[t] \in {"live", "expired"} THEN "gone" ELSE session[t]]
MayRotate(t) == ~headerChecked /\ session[t] \in {"live", "expired"}

RefreshSucceeds(r) ==
  /\ In(r, "refresh") /\ Served
  /\ MayRotate(request[r].token)
  /\ \E t \in Tokens : /\ Created(t)
                       /\ session' = Rotated(request[r].token, t)
                       /\ Become(r, With(r, "access", t))
  /\ UNCHANGED <<access, refresh, isAuthenticated, isRefreshing, running, headerChecked, history>>

(* Refused, or the answer is lost, after the rotation even. *)
RefreshRefused(r) ==
  /\ In(r, "refresh")
  /\ RefreshFails(r)
  /\ \/ UNCHANGED <<session, answered>>
     \/ Served /\ ~headerChecked /\ session[request[r].token] = "rotated" /\ session' = Ended
     \/ Served /\ MayRotate(request[r].token)
        /\ \E t \in Tokens : Created(t) /\ session' = Rotated(request[r].token, t)
  /\ UNCHANGED <<access, refresh, isAuthenticated, isRefreshing, running, headerChecked, torn, mixed>>

StoreAccess(r) ==
  /\ In(r, "access")
  /\ access' = request[r].token
  /\ Become(r, With(r, "rotate", request[r].token))
  /\ UNCHANGED <<refresh, isAuthenticated, isRefreshing, running, server, history>>

(* The refresh token is stored, the queue resolved, and all are sent anew. *)
StoreRefresh(r) ==
  /\ In(r, "rotate")
  /\ refresh' = request[r].token
  /\ request' = [q \in Requests |-> IF q = r \/ q \in Queued THEN At(q, "new") ELSE request[q]]
  /\ isRefreshing' = FALSE
  /\ late' = {}
  /\ mixed' = (mixed \/ (access # NoToken
                       /\ \E q \in Requests : Clearing(q) /\ request[q].keys = {"refresh"}))
  /\ UNCHANGED <<access, isAuthenticated, running, server, torn>>

(* A mistaken form: the store is not told. *)
ForceLogoutSilently(r) ==
  /\ In(r, "reject") /\ request[r].keys = {}
  /\ Become(r, Failed(request[r].for))
  /\ isRefreshing' = FALSE
  /\ UNCHANGED <<access, refresh, isAuthenticated, running, server, history>>

(* Cleared, then the callback: the store's logout, by a request of its     *)
(* own, which has no token and is answered 401 in its turn. *)
ForceLogout(r) ==
  /\ In(r, "reject") /\ request[r].keys = {}
  /\ \E g \in Requests \ {r} :
       /\ Free(g)
       /\ request' = [request EXCEPT ![r] = Failed(request[r].for), ![g] = New("logout")]
  /\ isRefreshing' = FALSE
  /\ UNCHANGED <<access, refresh, isAuthenticated, running, server, history>>

(***************************************************************************)
(* The world: sessions expire, the app is killed.                          *)
(***************************************************************************)
Expire ==
  /\ \E t \in Tokens : session[t] = "live" /\ session' = [session EXCEPT ![t] = "expired"]
  /\ UNCHANGED <<app, headerChecked, answered, history>>

Kill ==
  /\ running
  /\ running' = FALSE
  /\ request' = [r \in Requests |-> Idle]
  /\ isAuthenticated' = FALSE /\ isRefreshing' = FALSE
  /\ torn' = (torn \/ isRefreshing)
  /\ mixed' = (mixed \/ \E r \in Requests : Halfway(r))
  /\ late' = {}
  /\ UNCHANGED <<access, refresh, server>>

(* What the app, its store and the network do with a request in progress. *)
Progress(r) ==
  \/ LoginAnswer(r) \/ LoginWrongRole(r) \/ LoginStored(r) \/ Wiped(r) \/ Send(r)
  \/ \E key \in Keys : StoreToken(r, key) \/ ClearToken(r, key)
  \/ Succeed(r) \/ InitWrongRole(r) \/ Reject(r) \/ RejectRetried(r) \/ Queue(r)
  \/ RefreshStart(r) \/ ReadRefreshToken(r) \/ RefreshSucceeds(r) \/ RefreshRefused(r)
  \/ StoreAccess(r) \/ StoreRefresh(r) \/ ForceLogout(r)

Next ==
  \/ \E r \in Requests : Open(r) \/ Logout(r) \/ Start(r) \/ Login(r) \/ Progress(r)
  \/ Expire
  \/ Kill

Spec == Init /\ [][Next]_vars

(* Every request is answered or times out, and the app goes on with it. *)
FairSpec == Spec /\ \A r \in Requests : WF_vars(Progress(r))
-----------------------------------------------------------------------------
(* An app whose screens are shown has both tokens of one session, once     *)
(* nothing is under way, whatever was refreshed, refused and logged out in *)
(* between, unless what is stored may be mixed: a login crossed the logout *)
(* of the one before, a refresh stored a pair between the two deletions of *)
(* a logout, or the app was killed between the two writes of a pair        *)
(* (auth.ts:15-35, api.ts:111-130, auth.store.ts:107-116).                 *)
SignedInHasTokens ==
  isAuthenticated /\ (\A r \in Requests : In(r, "idle") \/ r \in late)
    => mixed \/ torn \/ (access # NoToken /\ access = refresh)

(* The app never presents a refresh token that it has had rotated, which   *)
(* the server would take for theft and end every session of the user,      *)
(* however many requests are answered 401 at once; unless it was killed    *)
(* between the rotation and the storing of the second token                *)
(* (api.ts:99-117).                                                        *)
NoReuse == \A r \in Requests :
  In(r, "refresh") => torn \/ session[request[r].token] # "rotated"

(* Every request ends, those queued behind a refresh and the logouts that  *)
(* failed refreshes force included, but for those queued when the queue    *)
(* had been processed (api.ts:89-131).                                     *)
RequestsEnd == \A r \in Requests : ~In(r, "idle") ~> In(r, "idle") \/ r \in late

(* What the comment says of the queue, "Queue the request until the        *)
(* ongoing refresh completes" (api.ts:90): with no refresh going on no     *)
(* request stays queued. The code lets it.                                 *)
QueuedUntilCompletes == \A r \in Requests :
  In(r, "queued") ~> ~In(r, "queued")
=============================================================================
