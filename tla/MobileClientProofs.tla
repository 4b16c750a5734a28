-------------------------- MODULE MobileClientProofs --------------------------
(***************************************************************************)
(* Proofs about what runs in a browser or on a telephone: the API client,  *)
(* for any number of requests and of sessions and any rate limit; then the *)
(* screens, for any table of pages; and the forms that clock attendance.   *)
(***************************************************************************)
EXTENDS Clients, SequenceTheorems, FiniteSetTheorems, TLAPS

NotYet == {"new", "queued", "read", "reject"}
Sent == {"sent", "refresh", "access", "rotate"}
InPairs == {"wipe", "reject", "store"}    \* write or delete a pair of tokens

LEMMA NoTokenIsNone == NoToken \notin Tokens
  BY DEF NoToken, Tokens

(* What a request holds, by its step. *)
LEMMA RequestFields ==
  ASSUME NEW w \in RequestStates
  PROVE  /\ w.step \in {"idle", "wipe", "login", "store"} \cup NotYet \cup Sent
         /\ w.step \in NotYet \cup Sent => w.for \in Purposes /\ w.retry \in BOOLEAN
         /\ w.step \in Sent => w.token \in Tokens \cup {NoToken}
         /\ w.step = "store" => w.token \in Tokens
         /\ w.step \in InPairs => w.keys \in SUBSET Keys
         /\ w.step = "wipe" => w.for \in {"init", "logout", "login"}
  BY DEF RequestStates, Idle, NotYet, Sent, InPairs

(* The states that the actions move a request to. *)
LEMMA RequestMoves ==
  /\ Idle \in RequestStates /\ Idle.step = "idle"
  /\ [step |-> "login"] \in RequestStates
  /\ \A t \in Tokens : /\ Storing(t) \in RequestStates /\ Storing(t).step = "store"
                       /\ Storing(t).token = t /\ Storing(t).keys = Keys
  /\ \A p \in {"init", "logout", "login"} :
       /\ Wiping(p) \in RequestStates /\ Wiping(p).step = "wipe"
       /\ Wiping(p).for = p /\ Wiping(p).keys = Keys
  /\ \A p \in Purposes :
       /\ New(p) \in RequestStates /\ New(p).step = "new" /\ New(p).for = p
       /\ Failed(p) \in RequestStates /\ Failed(p).step \in {"idle", "wipe"}
       /\ Failed(p).step = "wipe" => Failed(p).for # "login" /\ Failed(p).keys = Keys
  BY DEF RequestStates, Idle, New, Failed, Purposes, Storing, Wiping

LEMMA RequestGoesOn ==
  ASSUME TypeOK, NEW r \in Requests, request[r].step \in NotYet \cup Sent
  PROVE  /\ request[r].for \in Purposes /\ request[r].retry \in BOOLEAN
         /\ \A s \in NotYet \ {"reject"} : At(r, s) \in RequestStates /\ At(r, s).step = s
         /\ Rejected(r) \in RequestStates /\ Rejected(r).step = "reject"
         /\ \A s \in Sent, t \in Tokens \cup {NoToken} :
              /\ With(r, s, t) \in RequestStates
              /\ With(r, s, t).step = s /\ With(r, s, t).token = t
  <1>1. request[r] \in RequestStates
    BY DEF TypeOK
  <1>2. request[r].for \in Purposes /\ request[r].retry \in BOOLEAN
    BY <1>1, RequestFields
  <1>3. ASSUME NEW s \in NotYet \ {"reject"} PROVE At(r, s) \in RequestStates /\ At(r, s).step = s
    BY <1>2 DEF At, RequestStates, NotYet
  <1>4. ASSUME NEW s \in Sent, NEW t \in Tokens \cup {NoToken}
        PROVE  /\ With(r, s, t) \in RequestStates
               /\ With(r, s, t).step = s /\ With(r, s, t).token = t
    BY <1>2 DEF With, RequestStates, Sent
  <1>5. Rejected(r) \in RequestStates /\ Rejected(r).step = "reject"
    BY <1>2 DEF Rejected, RequestStates
  <1>. QED
    BY <1>2, <1>3, <1>4, <1>5

(* One write of a pair ends.                                               *)
LEMMA WriteEnded ==
  ASSUME TypeOK, NEW r \in Requests, NEW key \in Keys, request[r].step \in InPairs, WriteEnds(r, key)
  PROVE  /\ request' \in [Requests -> RequestStates]
         /\ request'[r].step = request[r].step /\ request'[r].keys = request[r].keys \ {key}
         /\ request'[r].step = "store" => request'[r].token = request[r].token
         /\ request'[r].step # "store" => request'[r].for = request[r].for
         /\ \A q \in Requests \ {r} : request'[q] = request[q]
  <1>. DEFINE w == request[r]
              v == [w EXCEPT !.keys = @ \ {key}]
  <1>1. w \in RequestStates /\ w.keys \in SUBSET Keys
    BY RequestFields DEF TypeOK
  <1>2. CASE w.step = "reject"
    <2>1. w \in [step : {"reject"}, for : Purposes, retry : BOOLEAN, keys : SUBSET Keys]
      BY <1>1, <1>2 DEF RequestStates, Idle
    <2>2. /\ v \in RequestStates /\ v.step = w.step
          /\ v.keys = w.keys \ {key} /\ v.for = w.for
      BY <2>1 DEF RequestStates
    <2>. QED
      BY <1>2, <2>2 DEF WriteEnds, TypeOK
  <1>3. CASE w.step = "wipe"
    <2>1. w \in [step : {"wipe"}, for : {"init", "logout", "login"}, keys : SUBSET Keys]
      BY <1>1, <1>3 DEF RequestStates, Idle
    <2>2. /\ v \in RequestStates /\ v.step = w.step
          /\ v.keys = w.keys \ {key} /\ v.for = w.for
      BY <2>1 DEF RequestStates
    <2>. QED
      BY <1>3, <2>2 DEF WriteEnds, TypeOK
  <1>4. CASE w.step = "store"
    <2>1. w \in [step : {"store"}, token : Tokens, keys : SUBSET Keys]
      BY <1>1, <1>4 DEF RequestStates, Idle
    <2>2. /\ v \in RequestStates /\ v.step = w.step
          /\ v.keys = w.keys \ {key} /\ v.token = w.token
      BY <2>1 DEF RequestStates
    <2>. QED
      BY <1>4, <2>2 DEF WriteEnds, TypeOK
  <1>. QED
    BY <1>2, <1>3, <1>4 DEF InPairs

LEMMA ClearEnded ==
  ASSUME TypeOK, NEW r \in Requests, NEW key \in Keys, StoreToken(r, key) \/ ClearToken(r, key)
  PROVE  /\ request[r].step \in InPairs /\ WriteEnds(r, key) /\ key \in request[r].keys
         /\ StoreToken(r, key) => In(r, "store")
         /\ ClearToken(r, key) => request[r].step \in {"wipe", "reject"}
  BY DEF StoreToken, ClearToken, Clearing, In, InPairs

LEMMA BecomeType ==
  ASSUME TypeOK, NEW r \in Requests, NEW w \in RequestStates, Become(r, w)
  PROVE  request' \in [Requests -> RequestStates]
  BY DEF TypeOK, Become

(* A purpose of a request is one of the four wherever it is looked at. *)
LEMMA FailedType ==
  ASSUME TypeOK, NEW r \in Requests, request[r].step \in NotYet \cup Sent
  PROVE  Failed(request[r].for) \in RequestStates /\ Failed(request[r].for).step \in {"idle", "wipe"}
  BY RequestGoesOn, RequestMoves

(* The step of each action that moves requests. *)
LEMMA RequestsType ==
  ASSUME TypeOK, NEW r \in Requests,
         \/ Open(r) \/ Logout(r) \/ Start(r) \/ Login(r) \/ Progress(r)
  PROVE  request' \in [Requests -> RequestStates]
  <1>1. CASE Open(r) \/ Logout(r) \/ Start(r) \/ Login(r)
    BY <1>1, BecomeType, RequestMoves DEF Open, Logout, Start, Login, Purposes
  <1>2. CASE LoginAnswer(r) \/ LoginWrongRole(r) \/ LoginStored(r) \/ Wiped(r)
    BY <1>2, BecomeType, RequestMoves DEF LoginAnswer, LoginWrongRole, LoginStored, Wiped, Purposes
  <1>12. CASE \E key \in Keys : StoreToken(r, key) \/ ClearToken(r, key)
    BY <1>12, ClearEnded, WriteEnded
  <1>3. CASE Send(r)
    <2>1. request[r].step \in NotYet \cup Sent /\ access \in Tokens \cup {NoToken}
      BY <1>3 DEF Send, In, NotYet, TypeOK
    <2>. QED
      BY <1>3, <2>1, RequestGoesOn, BecomeType DEF Send, Sent
  <1>4. CASE \/ Succeed(r) \/ InitWrongRole(r) \/ Reject(r) \/ RejectRetried(r) \/ Queue(r)
             \/ RefreshStart(r)
    <2>1. request[r].step \in NotYet \cup Sent
      BY <1>4 DEF Succeed, InitWrongRole, Reject, RejectRetried, Queue, RefreshStart, Unauthorized, In, Sent
    <2>2. /\ Failed(request[r].for) \in RequestStates
          /\ At(r, "queued") \in RequestStates
          /\ Idle \in RequestStates /\ Wiping("logout") \in RequestStates
          /\ Wiping("init") \in RequestStates
          /\ request[r].for \in Purposes
      BY <2>1, FailedType, RequestGoesOn, RequestMoves DEF NotYet
    <2>3. [step |-> "read", for |-> request[r].for, retry |-> TRUE] \in RequestStates
      BY <2>2 DEF RequestStates
    <2>. QED
      BY <1>4, <2>2, <2>3, BecomeType DEF Succeed, InitWrongRole, Reject, RejectRetried, Queue, RefreshStart
  <1>5. ASSUME RefreshFails(r), request[r].step \in NotYet \cup Sent
        PROVE  request' \in [Requests -> RequestStates]
    <2>1. Rejected(r) \in RequestStates
      BY <1>5, RequestGoesOn
    <2>2. ASSUME NEW q \in Queued PROVE Failed(request[q].for) \in RequestStates
      BY FailedType DEF Queued, In, NotYet
    <2>. QED
      BY <1>5, <2>1, <2>2 DEF RefreshFails, TypeOK
  <1>6. CASE ReadRefreshToken(r)
    <2>1. request[r].step \in NotYet \cup Sent /\ refresh \in Tokens \cup {NoToken}
      BY <1>6 DEF ReadRefreshToken, In, NotYet, TypeOK
    <2>2. With(r, "refresh", refresh) \in RequestStates
      BY <2>1, RequestGoesOn DEF Sent
    <2>. QED
      BY <1>5, <1>6, <2>1, <2>2, BecomeType DEF ReadRefreshToken
  <1>7. CASE RefreshSucceeds(r)
    <2>1. request[r].step \in NotYet \cup Sent
      BY <1>7 DEF RefreshSucceeds, In, Sent
    <2>2. \A t \in Tokens : With(r, "access", t) \in RequestStates
      BY <2>1, RequestGoesOn DEF Sent
    <2>. QED
      BY <1>7, <2>2, BecomeType DEF RefreshSucceeds
  <1>8. CASE RefreshRefused(r)
    BY <1>5, <1>8 DEF RefreshRefused, In, Sent
  <1>9. CASE StoreAccess(r)
    <2>1. request[r].step \in Sent /\ request[r] \in RequestStates
      BY <1>9 DEF StoreAccess, In, Sent, TypeOK
    <2>2. request[r].token \in Tokens \cup {NoToken}
      BY <2>1, RequestFields
    <2>3. With(r, "rotate", request[r].token) \in RequestStates
      BY <2>1, <2>2, RequestGoesOn DEF Sent
    <2>. QED
      BY <1>9, <2>3, BecomeType DEF StoreAccess
  <1>10. CASE StoreRefresh(r)
    <2>1. ASSUME NEW q \in Requests, q = r \/ q \in Queued PROVE At(q, "new") \in RequestStates
      <3>1. request[q].step \in NotYet \cup Sent
        BY <1>10, <2>1 DEF StoreRefresh, Queued, In, NotYet, Sent
      <3>. QED
        BY <3>1, RequestGoesOn DEF NotYet
    <2>. QED
      BY <1>10, <2>1 DEF StoreRefresh, TypeOK
  <1>11. CASE ForceLogout(r)
    <2>1. Failed(request[r].for) \in RequestStates
      BY <1>11, FailedType DEF ForceLogout, In, NotYet
    <2>2. New("logout") \in RequestStates
      BY RequestMoves DEF Purposes
    <2>. QED
      BY <1>11, <2>1, <2>2 DEF ForceLogout, TypeOK
  <1>. QED
    BY <1>1, <1>2, <1>3, <1>4, <1>6, <1>7, <1>8, <1>9, <1>10, <1>11, <1>12 DEF Progress

LEMMA TypeOKInit == Init => TypeOK
  <1> SUFFICES ASSUME Init PROVE TypeOK
    OBVIOUS
  <1>1. 0 \in 0..RateLimit
    BY ClientAssumption
  <1>2. request \in [Requests -> RequestStates]
    BY RequestMoves DEF Init
  <1>3. session \in [Tokens -> {"none", "live", "expired", "rotated", "gone"}]
    BY DEF Init
  <1>4. {isAuthenticated, isRefreshing, running, headerChecked, torn, mixed} \subseteq BOOLEAN
    BY DEF Init
  <1>. QED
    BY <1>1, <1>2, <1>3, <1>4 DEF Init, TypeOK

LEMMA TypeOKNext ==
  ASSUME TypeOK, [Next]_vars
  PROVE  TypeOK'
  <1>1. CASE UNCHANGED vars
    BY <1>1 DEF vars, TypeOK
  <1>2. ASSUME NEW r \in Requests, Open(r) \/ Logout(r) \/ Start(r) \/ Login(r)
        PROVE  TypeOK'
    <2>1. request' \in [Requests -> RequestStates]
      BY <1>2, RequestsType
    <2>. QED
      BY <1>2, <2>1 DEF Open, Logout, Start, Login, Busy, In, server, history, TypeOK
  <1>3. ASSUME NEW r \in Requests, Progress(r) PROVE TypeOK'
    <2>1. request' \in [Requests -> RequestStates]
      BY <1>3, RequestsType
    <2>2. request[r] \in RequestStates /\ access \in Tokens \cup {NoToken}
          /\ refresh \in Tokens \cup {NoToken} /\ answered \in 0..RateLimit
      BY DEF TypeOK
    <2>3. Served => answered' \in 0..RateLimit
      BY <2>2, ClientAssumption DEF Served
    <2>4. \A t \in Tokens \cup {NoToken}, u \in Tokens : Rotated(t, u) \in [Tokens -> {"none", "live", "expired", "rotated", "gone"}]
      BY DEF TypeOK, Rotated
    <2>5. Ended \in [Tokens -> {"none", "live", "expired", "rotated", "gone"}]
      BY DEF TypeOK, Ended
    <2>6. CASE LoginAnswer(r) \/ LoginWrongRole(r) \/ LoginStored(r) \/ Wiped(r) \/ Send(r)
      <3>1. isAuthenticated' \in BOOLEAN /\ mixed' \in BOOLEAN
        BY <2>6 DEF LoginAnswer, LoginWrongRole, LoginStored, Wiped, Send, history, TypeOK
      <3>. QED
        BY <2>1, <2>3, <2>6, <3>1
        DEF LoginAnswer, LoginWrongRole, LoginStored, Wiped, Send, server, history, TypeOK
    <2>10. ASSUME NEW key \in Keys, StoreToken(r, key) \/ ClearToken(r, key) PROVE TypeOK'
      <3>1. In(r, "store") => request[r].token \in Tokens
        BY <2>2, RequestFields DEF In
      <3>2. {access', refresh'} \subseteq Tokens \cup {NoToken} /\ torn' \in BOOLEAN
        BY <2>2, <2>10, <3>1 DEF StoreToken, ClearToken, history, TypeOK
      <3>. QED
        BY <2>1, <2>10, <3>2 DEF StoreToken, ClearToken, server, history, TypeOK
    <2>7. CASE \/ Succeed(r) \/ InitWrongRole(r) \/ Reject(r) \/ RejectRetried(r) \/ Queue(r) \/ RefreshStart(r)
               \/ ForceLogout(r)
      BY <2>1, <2>3, <2>7 DEF Succeed, InitWrongRole, Reject, RejectRetried, Queue, RefreshStart,
         ForceLogout, Unauthorized, server, history, TypeOK
    <2>8. CASE RefreshSucceeds(r) \/ RefreshRefused(r) \/ ReadRefreshToken(r)
      <3>1. In(r, "refresh") => request[r].token \in Tokens \cup {NoToken}
        BY <2>2, RequestFields DEF In, Sent
      <3>2. CASE RefreshSucceeds(r)
        BY <2>1, <2>3, <2>4, <3>1, <3>2 DEF RefreshSucceeds, history, TypeOK
      <3>3. CASE RefreshRefused(r)
        BY <2>1, <2>3, <2>4, <2>5, <3>1, <3>3 DEF RefreshRefused, RefreshFails, TypeOK
      <3>4. CASE ReadRefreshToken(r)
        BY <2>1, <3>4 DEF ReadRefreshToken, RefreshFails, server, TypeOK
      <3>. QED
        BY <2>8, <3>2, <3>3, <3>4
    <2>9. CASE StoreAccess(r) \/ StoreRefresh(r)
      <3>1. request[r].token \in Tokens \cup {NoToken}
        BY <2>2, <2>9, RequestFields DEF StoreAccess, StoreRefresh, In, Sent
      <3>. QED
        BY <2>1, <2>9, <3>1 DEF StoreAccess, StoreRefresh, server, history, TypeOK
    <2>. QED
      BY <1>3, <2>6, <2>7, <2>8, <2>9, <2>10 DEF Progress
  <1>4. CASE Expire
    BY <1>4 DEF Expire, app, history, TypeOK
  <1>5. CASE Kill
    BY <1>5, RequestMoves DEF Kill, server, TypeOK
  <1>. QED
    BY <1>1, <1>2, <1>3, <1>4, <1>5 DEF Next

(* An app that has not been started does nothing and shows no screen.      *)
Stopped == ~running => ~isAuthenticated /\ \A r \in Requests : In(r, "idle")

LEMMA StoppedNext ==
  ASSUME TypeOK, Stopped, [Next]_vars
  PROVE  Stopped'
  <1>1. CASE running /\ running' = running
    BY <1>1 DEF Stopped
  <1>2. ASSUME NEW r \in Requests, Progress(r) PROVE ~In(r, "idle") /\ running' = running
    BY <1>2 DEF Progress, LoginAnswer, LoginWrongRole, StoreToken, LoginStored, ClearToken, Wiped,
       Clearing, Send, Succeed, InitWrongRole, Reject, RejectRetried, Queue, RefreshStart,
       ReadRefreshToken, RefreshSucceeds, RefreshRefused, StoreAccess, StoreRefresh, ForceLogout,
       Unauthorized, In
  <1>3. CASE UNCHANGED vars \/ Expire
    BY <1>3 DEF vars, Expire, app, Stopped, In
  <1>4. CASE Kill
    BY <1>4, RequestMoves DEF Kill, Stopped, In
  <1>5. ASSUME NEW r \in Requests, Open(r) \/ Logout(r) \/ Start(r) \/ Login(r) PROVE running'
    BY <1>5 DEF Open, Logout, Start, Login, Ready
  <1>. QED
    BY <1>1, <1>2, <1>3, <1>4, <1>5 DEF Next, Stopped

TypeInv == TypeOK /\ Stopped

LEMMA TypeInvAlways == Spec => []TypeInv
  <1>1. Init => Stopped
    BY RequestMoves DEF Init, Stopped, In
  <1>2. TypeInv /\ [Next]_vars => TypeInv'
    BY TypeOKNext, StoppedNext DEF TypeInv
  <1>3. Init => TypeInv
    BY <1>1, TypeOKInit DEF TypeInv
  <1>. QED
    BY <1>2, <1>3, PTL DEF Spec

(* Every state an app can get to is well typed. *)
THEOREM MobileClientTypeOK == Spec => []TypeOK
  <1>1. TypeInv => TypeOK
    BY DEF TypeInv
  <1>. QED
    BY <1>1, TypeInvAlways, PTL

-----------------------------------------------------------------------------
(* Rotated tokens. NoReuse needs that one request at a time refreshes, and *)
(* that a token handed out by the server is held by one request until it   *)
(* is stored, so that what is stored is not rotated unless the request     *)
(* that had it rotated is about to replace or to clear it.                 *)
RefreshSteps == {"read", "refresh", "access", "rotate", "reject"}
Fresh(r) ==
  \/ request[r].step \in {"access", "rotate"}
  \/ request[r].step = "store" /\ "refresh" \in request[r].keys
Replacing(r) ==
  \/ request[r].step \in {"access", "rotate"}
  \/ request[r].step = "reject" /\ "refresh" \in request[r].keys
Holds(r) == Fresh(r) \/ request[r].step = "refresh"

OneRefresh ==
  \A q, r \in Requests :
    request[q].step \in RefreshSteps /\ request[r].step \in RefreshSteps => q = r /\ isRefreshing

TokensHeld ==
  /\ refresh = NoToken \/ session[refresh] # "none"
  /\ \A r \in Requests : Holds(r) =>
       request[r].token \in Tokens /\ session[request[r].token] # "none"

TokensFresh ==
  \A r \in Requests : Fresh(r) =>
    /\ session[request[r].token] # "rotated"
    /\ refresh # request[r].token
    /\ \A q \in Requests : Holds(q) /\ request[q].token = request[r].token => q = r

StoredUnspent ==
  torn \/ refresh = NoToken \/ session[refresh] # "rotated"
       \/ \E r \in Requests : Replacing(r)

ReuseInv == OneRefresh /\ TokensHeld /\ TokensFresh /\ StoredUnspent /\ NoReuse

QuietSteps == {"idle", "new", "sent", "queued", "wipe", "login"}

(* A step that starts no refresh, receives no token and rotates none; a    *)
(* refresh that has failed may go on to clear the tokens.                  *)
QuietStep ==
  /\ \A q \in Requests : \/ request'[q] = request[q] \/ request'[q].step \in QuietSteps
                         \/ request[q].step = "reject" /\ request'[q].step = "reject"
  /\ refresh' \in {refresh, NoToken}
  /\ torn => torn'
  /\ isRefreshing' = isRefreshing \/ \A q \in Requests : request'[q].step \notin RefreshSteps
  /\ torn' \/ refresh' = NoToken \/ \A q \in Requests : Replacing(q) => Replacing(q)'
  /\ \A t \in Tokens : /\ session'[t] = "none" => session[t] = "none"
                       /\ session'[t] = "rotated" => session[t] = "rotated"

LEMMA QuietReuse ==
  ASSUME TypeOK, ReuseInv, QuietStep
  PROVE  ReuseInv'
  <1>a. \A q \in Requests : \/ request'[q] = request[q] \/ request'[q].step \in QuietSteps
                            \/ request[q].step = "reject" /\ request'[q].step = "reject"
    BY DEF QuietStep
  <1>b. refresh' \in {refresh, NoToken} /\ (torn => torn')
    BY DEF QuietStep
  <1>c. isRefreshing' = isRefreshing \/ \A q \in Requests : request'[q].step \notin RefreshSteps
    BY DEF QuietStep
  <1>d. torn' \/ refresh' = NoToken \/ \A q \in Requests : Replacing(q) => Replacing(q)'
    BY DEF QuietStep
  <1>e. \A t \in Tokens : /\ session'[t] = "none" => session[t] = "none"
                          /\ session'[t] = "rotated" => session[t] = "rotated"
    BY DEF QuietStep
  <1>1. \A q \in Requests :
          /\ request'[q].step \in RefreshSteps => request[q].step \in RefreshSteps
          /\ Holds(q)' => request'[q] = request[q]
          /\ Fresh(q)' => Fresh(q) /\ request'[q] = request[q]
    BY <1>a DEF RefreshSteps, Fresh, Holds, QuietSteps
  <1>2. OneRefresh'
    BY <1>1, <1>c DEF ReuseInv, OneRefresh
  <1>3. refresh \in Tokens \cup {NoToken}
    BY DEF TypeOK
  <1>8. \A q \in Requests : Holds(q)' => Holds(q)
    BY <1>1 DEF Holds
  <1>4. TokensHeld'
    BY <1>1, <1>3, <1>8, <1>b, <1>e DEF ReuseInv, TokensHeld
  <1>5. TokensFresh'
    <2>1. ASSUME NEW q \in Requests, Fresh(q)'
          PROVE  /\ request'[q].token = request[q].token /\ request[q].token \in Tokens
                 /\ session'[request[q].token] # "rotated" /\ refresh' # request[q].token
      BY <1>1, <2>1, <1>b, <1>e, NoTokenIsNone DEF ReuseInv, TokensFresh, TokensHeld, Holds
    <2>2. ASSUME NEW q \in Requests, Fresh(q)',
                 NEW u \in Requests, Holds(u)', request'[u].token = request'[q].token
          PROVE  u = q
      BY <1>1, <1>8, <2>2 DEF ReuseInv, TokensFresh
    <2>. QED
      BY <2>1, <2>2 DEF TokensFresh
  <1>6. StoredUnspent'
    <2>1. CASE torn' \/ refresh' = NoToken
      BY <2>1 DEF StoredUnspent
    <2>2. CASE ~torn' /\ refresh' # NoToken
      <3>1. /\ refresh' = refresh /\ refresh \in Tokens /\ ~torn
            /\ \A q \in Requests : Replacing(q) => Replacing(q)'
        BY <1>3, <2>2, <1>b, <1>d
      <3>. QED
        BY <3>1, <1>e DEF ReuseInv, StoredUnspent
    <2>. QED
      BY <2>1, <2>2
  <1>7. NoReuse'
    BY <1>1, <1>b, <1>e DEF ReuseInv, NoReuse, TokensHeld, Holds, In
  <1>. QED
    BY <1>2, <1>4, <1>5, <1>6, <1>7 DEF ReuseInv

LEMMA Became ==
  ASSUME TypeOK, NEW r \in Requests, NEW w, Become(r, w)
  PROVE  request'[r] = w /\ \A q \in Requests \ {r} : request'[q] = request[q]
  BY DEF TypeOK, Become

LEMMA RefreshFailed ==
  ASSUME TypeOK, NEW r \in Requests, RefreshFails(r), request[r].step \in Sent \cup NotYet,
         ~In(r, "queued")
  PROVE  /\ request'[r] = Rejected(r) /\ request'[r].step = "reject" /\ request'[r].keys = Keys
         /\ \A q \in Queued : request'[q] = Failed(request[q].for)
                            /\ request'[q].step \in {"idle", "wipe"}
         /\ \A q \in Requests \ ({r} \cup Queued) : request'[q] = request[q]
         /\ late' = {}
  <1>1. request'[r] = Rejected(r)
    <2>1. r \notin Queued
      BY DEF Queued
    <2>. QED
      BY <2>1 DEF RefreshFails
  <1>2. Rejected(r).step = "reject" /\ Rejected(r).keys = Keys
    BY DEF Rejected
  <1>3. ASSUME NEW q \in Queued
        PROVE  request'[q] = Failed(request[q].for) /\ request'[q].step \in {"idle", "wipe"}
    <2>1. q \in Requests /\ q # r /\ request[q].step \in NotYet
      BY DEF Queued, In, NotYet
    <2>2. request'[q] = Failed(request[q].for)
      BY <2>1 DEF RefreshFails
    <2>. QED
      BY <2>1, <2>2, FailedType
  <1>4. ASSUME NEW q \in Requests \ ({r} \cup Queued) PROVE request'[q] = request[q]
    BY DEF RefreshFails
  <1>. QED
    BY <1>1, <1>2, <1>3, <1>4 DEF RefreshFails

(* The steps of the app that neither refresh nor store. *)
LEMMA QuietSendReuse ==
  ASSUME TypeInv, ReuseInv, NEW r \in Requests,
         \/ Open(r) \/ Logout(r) \/ Start(r) \/ Login(r) \/ LoginStored(r) \/ Wiped(r)
         \/ Send(r) \/ Succeed(r) \/ InitWrongRole(r) \/ Reject(r) \/ RejectRetried(r) \/ Queue(r)
  PROVE  ReuseInv'
  <1>. TypeOK
    BY DEF TypeInv
  <1>1. CASE Open(r) \/ Logout(r) \/ Start(r) \/ Login(r) \/ LoginStored(r) \/ Wiped(r)
    <2>1. /\ request'[r].step \in QuietSteps
          /\ \A q \in Requests \ {r} : request'[q] = request[q]
      BY <1>1, Became, RequestMoves
      DEF Open, Logout, Start, Login, LoginStored, Wiped, Purposes, QuietSteps
    <2>2. ~Replacing(r)
      BY <1>1
      DEF Open, Logout, Start, Login, LoginStored, Wiped, Ready, Free, In, Replacing, TypeInv, Stopped
    <2>3. UNCHANGED <<refresh, session, torn, isRefreshing>>
      BY <1>1 DEF Open, Logout, Start, Login, LoginStored, Wiped, server, history
    <2>4. \A q \in Requests : Replacing(q) => Replacing(q)'
      BY <2>1, <2>2 DEF Replacing
    <2>q. QuietStep
      BY <2>1, <2>3, <2>4 DEF QuietStep, QuietSteps, Replacing
    <2>. QED
      BY <2>q, QuietReuse
  <1>2. CASE Send(r)
    <2>1. request[r].step = "new" /\ access \in Tokens \cup {NoToken}
      BY <1>2 DEF Send, In, TypeOK
    <2>2. With(r, "sent", access).step = "sent"
      BY DEF With
    <2>3. /\ request'[r].step \in QuietSteps
          /\ \A q \in Requests \ {r} : request'[q] = request[q]
      BY <1>2, <2>2, Became DEF Send, QuietSteps
    <2>4. \A q \in Requests : Replacing(q) => Replacing(q)'
      BY <2>1, <2>3 DEF Replacing
    <2>q. QuietStep
      BY <1>2, <2>3, <2>4 DEF QuietStep, QuietSteps, Replacing, Send, server, history
    <2>. QED
      BY <2>q, QuietReuse
  <1>3. CASE Succeed(r) \/ InitWrongRole(r) \/ Reject(r) \/ RejectRetried(r) \/ Queue(r)
    <2>1. request[r].step = "sent"
      BY <1>3 DEF Succeed, InitWrongRole, Reject, RejectRetried, Queue, Unauthorized, In
    <2>2. Failed(request[r].for).step \in {"idle", "wipe"} /\ At(r, "queued").step = "queued"
      BY <2>1, FailedType DEF At, Sent
    <2>3. /\ request'[r].step \in QuietSteps
          /\ \A q \in Requests \ {r} : request'[q] = request[q]
      BY <1>3, <2>2, Became, RequestMoves
      DEF Succeed, InitWrongRole, Reject, RejectRetried, Queue, QuietSteps
    <2>4. UNCHANGED <<refresh, torn, isRefreshing>>
      BY <1>3 DEF Succeed, InitWrongRole, Reject, RejectRetried, Queue, server, history
    <2>5. \A t \in Tokens : session'[t] \in {session[t], "gone"}
      BY <1>3 DEF Succeed, InitWrongRole, Reject, RejectRetried, Queue, server, TypeOK
    <2>6. \A q \in Requests : Replacing(q) => Replacing(q)'
      BY <2>1, <2>3 DEF Replacing
    <2>q. QuietStep
      BY <2>3, <2>4, <2>5, <2>6 DEF QuietStep, QuietSteps, Replacing
    <2>. QED
      BY <2>q, QuietReuse
  <1>. QED
    BY <1>1, <1>2, <1>3

(* A token of a pair is deleted.                                           *)
LEMMA ClearReuse ==
  ASSUME TypeOK, ReuseInv, NEW r \in Requests, NEW key \in Keys, ClearToken(r, key)
  PROVE  ReuseInv'
  <1>1. /\ request[r].step \in {"wipe", "reject"} /\ request'[r].step = request[r].step
        /\ request'[r].keys = request[r].keys \ {key}
        /\ \A q \in Requests \ {r} : request'[q] = request[q]
    BY ClearEnded, WriteEnded
  <1>2. /\ refresh' = IF key = "refresh" THEN NoToken ELSE refresh
        /\ UNCHANGED <<session, torn, isRefreshing>>
    BY DEF ClearToken, server, history
  <1>3. refresh' = NoToken \/ \A q \in Requests : Replacing(q) => Replacing(q)'
    BY <1>1, <1>2 DEF Replacing
  <1>4. \A q \in Requests : \/ request'[q] = request[q] \/ request'[q].step \in QuietSteps
                            \/ request[q].step = "reject" /\ request'[q].step = "reject"
    BY <1>1 DEF QuietSteps
  <1>q. QuietStep
    BY <1>2, <1>3, <1>4 DEF QuietStep, QuietSteps, Replacing
  <1>. QED
    BY <1>q, QuietReuse

LEMMA WorldReuse ==
  ASSUME TypeInv, ReuseInv, Expire \/ Kill \/ UNCHANGED vars
  PROVE  ReuseInv'
  <1>. TypeOK
    BY DEF TypeInv
  <1>1. CASE Expire \/ UNCHANGED vars
    <2>1. UNCHANGED <<request, refresh, torn, isRefreshing>>
      BY <1>1 DEF Expire, app, history, vars
    <2>2. \A t \in Tokens : session'[t] \in {session[t], "expired"}
      BY <1>1 DEF Expire, vars, TypeOK
    <2>q. QuietStep
      BY <2>1, <2>2 DEF QuietStep, QuietSteps, Replacing
    <2>. QED
      BY <2>q, QuietReuse
  <1>2. CASE Kill
    <2>1. \A q \in Requests : request'[q].step = "idle"
      BY <1>2, RequestMoves DEF Kill
    <2>2. \A q \in Requests : Replacing(q) => isRefreshing
      BY DEF ReuseInv, OneRefresh, RefreshSteps, Replacing
    <2>q. QuietStep
      BY <1>2, <2>1, <2>2 DEF QuietStep, QuietSteps, Replacing, Kill, server, RefreshSteps
    <2>. QED
      BY <2>q, QuietReuse
  <1>. QED
    BY <1>1, <1>2

(* A login: its token is new, and no other request holds it. *)
LEMMA LoginReuse ==
  ASSUME TypeOK, ReuseInv, NEW r \in Requests, LoginAnswer(r) \/ LoginWrongRole(r)
  PROVE  ReuseInv'
  <1>0. ~Replacing(r)
    BY DEF LoginAnswer, LoginWrongRole, In, Replacing
  <1>1. CASE LoginAnswer(r)
    <2>1. CASE Become(r, Idle) /\ UNCHANGED <<session, answered>>
      <3>1. request'[r].step = "idle" /\ \A q \in Requests \ {r} : request'[q] = request[q]
        BY <2>1, Became, RequestMoves
      <3>2. \A q \in Requests : Replacing(q) => Replacing(q)'
        BY <1>0, <3>1 DEF Replacing
      <3>q. QuietStep
        BY <1>1, <2>1, <3>1, <3>2 DEF QuietStep, QuietSteps, Replacing, LoginAnswer, history
      <3>. QED
        BY <3>q, QuietReuse
    <2>2. ASSUME NEW t \in Tokens, Created(t), session' = [session EXCEPT ![t] = "live"],
                 Become(r, Storing(t))
          PROVE  ReuseInv'
      <3>1. /\ request'[r].step = "store" /\ request'[r].token = t
            /\ \A q \in Requests \ {r} : request'[q] = request[q]
        BY <2>2, Became, RequestMoves
      <3>2. /\ session[t] = "none" /\ session'[t] = "live"
            /\ \A u \in Tokens \ {t} : session'[u] = session[u]
        BY <2>2 DEF Created, TypeOK
      <3>3. UNCHANGED <<refresh, isRefreshing, torn>> /\ In(r, "login")
        BY <1>1 DEF LoginAnswer, history
      <3>4. t # refresh /\ \A q \in Requests : Holds(q) => request[q].token # t
        BY <3>2, NoTokenIsNone DEF ReuseInv, TokensHeld
      <3>5. refresh \in Tokens \cup {NoToken}
        BY DEF TypeOK
      <3>6. OneRefresh'
        BY <3>1, <3>3 DEF ReuseInv, OneRefresh, RefreshSteps
      <3>7. /\ \A q \in Requests \ {r} : (Holds(q)' <=> Holds(q)) /\ (Fresh(q)' <=> Fresh(q))
            /\ \A q \in Requests \ {r} : Replacing(q)' <=> Replacing(q)
        BY <3>1 DEF Holds, Fresh, Replacing
      <3>8. TokensHeld'
        BY <3>1, <3>2, <3>3, <3>5, <3>7 DEF ReuseInv, TokensHeld
      <3>9. TokensFresh'
        <4>1. ASSUME NEW q \in Requests \ {r}, Holds(q)
              PROVE  /\ request[q].token \in Tokens \ {t} /\ request'[q].token = request[q].token
                     /\ session'[request[q].token] = session[request[q].token]
          BY <3>1, <3>2, <3>4, <4>1 DEF ReuseInv, TokensHeld
        <4>. QED
          BY <3>1, <3>2, <3>3, <3>4, <3>7, <4>1 DEF ReuseInv, TokensFresh, Holds
      <3>10. StoredUnspent'
        BY <1>0, <3>2, <3>3, <3>5, <3>7 DEF ReuseInv, StoredUnspent
      <3>11. NoReuse'
        BY <3>1, <3>2, <3>3 DEF ReuseInv, NoReuse, TokensHeld, Holds, In
      <3>. QED
        BY <3>6, <3>8, <3>9, <3>10, <3>11 DEF ReuseInv
    <2>. QED
      BY <1>1, <2>1, <2>2 DEF LoginAnswer
  <1>2. CASE LoginWrongRole(r)
    <2>1. request'[r].step = "wipe" /\ \A q \in Requests \ {r} : request'[q] = request[q]
      BY <1>2, Became, RequestMoves DEF LoginWrongRole
    <2>2. \A q \in Requests : Replacing(q) => Replacing(q)'
      BY <1>0, <2>1 DEF Replacing
    <2>3. UNCHANGED <<refresh, torn, isRefreshing>> /\ \A t \in Tokens : session'[t] \in {session[t], "live"}
      BY <1>2 DEF LoginWrongRole, history, TypeOK
    <2>q. QuietStep
      BY <2>1, <2>2, <2>3 DEF QuietStep, QuietSteps, Replacing
    <2>. QED
      BY <2>q, QuietReuse
  <1>. QED
    BY <1>1, <1>2

LEMMA StoreReuse ==
  ASSUME TypeOK, ReuseInv, NEW r \in Requests, NEW key \in Keys, StoreToken(r, key)
  PROVE  ReuseInv'
  <1>1. /\ request[r].step = "store" /\ request'[r].step = "store" /\ key \in request[r].keys
        /\ request'[r].keys = request[r].keys \ {key} /\ request'[r].token = request[r].token
        /\ \A q \in Requests \ {r} : request'[q] = request[q]
    BY ClearEnded, WriteEnded DEF In
  <1>2. /\ UNCHANGED <<session, isRefreshing>>
        /\ refresh' = IF key = "refresh" THEN request[r].token ELSE refresh
    BY DEF StoreToken, server
  <1>a. torn => torn' \/ (key = "refresh" /\ Alone(r))
    BY Zenon DEF StoreToken
  <1>3. \A q \in Requests : Holds(q)' => Holds(q)
    BY <1>1 DEF Holds, Fresh
  <1>4. \A q \in Requests : Fresh(q)' => Fresh(q) /\ request'[q].token = request[q].token
    BY <1>1 DEF Fresh
  <1>5. \A q \in Requests : Replacing(q)' <=> Replacing(q)
    BY <1>1 DEF Replacing
  <1>6. OneRefresh'
    BY <1>1, <1>2 DEF ReuseInv, OneRefresh
  <1>7. \A q \in Requests : Holds(q)' => request'[q].token = request[q].token
    BY <1>1 DEF Holds, Fresh
  <1>8. CASE key = "access"
    <2>1. TokensHeld'
      BY <1>2, <1>3, <1>7, <1>8 DEF ReuseInv, TokensHeld
    <2>2. TokensFresh'
      BY <1>2, <1>3, <1>4, <1>7, <1>8 DEF ReuseInv, TokensFresh
    <2>0. (torn => torn') /\ refresh' = refresh
      BY <1>2, <1>a, <1>8
    <2>3. StoredUnspent'
      BY <1>2, <1>5, <2>0 DEF ReuseInv, StoredUnspent
    <2>4. NoReuse'
      BY <1>1, <1>2, <2>0 DEF ReuseInv, NoReuse, In
    <2>. QED
      BY <1>6, <2>1, <2>2, <2>3, <2>4 DEF ReuseInv
  <1>9. CASE key = "refresh"
    <2>1. /\ refresh' = request[r].token /\ Fresh(r) /\ ~Holds(r)'
      BY <1>1, <1>2, <1>9 DEF Fresh, Holds
    <2>2. /\ refresh' \in Tokens /\ session[refresh'] \notin {"none", "rotated"}
          /\ \A q \in Requests \ {r} : Holds(q) => request[q].token # refresh'
      BY <2>1 DEF ReuseInv, TokensHeld, TokensFresh, Holds
    <2>3. TokensHeld'
      BY <1>2, <1>3, <1>7, <2>2 DEF ReuseInv, TokensHeld
    <2>4. TokensFresh'
      <3>1. ASSUME NEW q \in Requests, Fresh(q)'
            PROVE  q # r /\ Holds(q) /\ refresh' # request'[q].token
        BY <1>4, <2>1, <2>2, <3>1 DEF Holds
      <3>. QED
        BY <1>2, <1>3, <1>4, <1>7, <3>1 DEF ReuseInv, TokensFresh
    <2>5. StoredUnspent'
      BY <1>2, <2>2 DEF StoredUnspent
    <2>6. NoReuse'
      BY <1>1, <1>2, <1>a DEF ReuseInv, NoReuse, In, Alone
    <2>. QED
      BY <1>6, <2>3, <2>4, <2>5, <2>6 DEF ReuseInv
  <1>. QED
    BY <1>8, <1>9 DEF Keys

(* A refresh fails, whatever the server has done of it. *)
LEMMA RejectReuse ==
  ASSUME TypeOK, ReuseInv, NEW r \in Requests,
         request[r].step \in {"read", "refresh"}, request'[r].step = "reject",
         request'[r].keys = Keys,
         \A q \in Requests \ {r} : request'[q] = request[q] \/ request'[q].step \in QuietSteps,
         UNCHANGED <<refresh, torn, isRefreshing>>,
         \A t \in Tokens :
           /\ session'[t] = "none" => session[t] = "none"
           /\ session'[t] = "rotated" =>
                session[t] = "rotated" \/ (request[r].step = "refresh" /\ t = request[r].token)
  PROVE  ReuseInv'
  <1>1. /\ isRefreshing'
        /\ \A q \in Requests \ {r} : request[q].step \notin RefreshSteps
        /\ \A q \in Requests \ {r} : request'[q].step \notin RefreshSteps
    BY DEF ReuseInv, OneRefresh, RefreshSteps, QuietSteps
  <1>2. \A q \in Requests : Holds(q)' => Holds(q) /\ q # r /\ request'[q] = request[q]
    BY DEF Holds, Fresh, QuietSteps
  <1>3. refresh \in Tokens \cup {NoToken}
    BY DEF TypeOK
  <1>4. OneRefresh'
    BY <1>1 DEF OneRefresh
  <1>5. TokensHeld'
    BY <1>2, <1>3 DEF ReuseInv, TokensHeld, Holds, Fresh
  <1>6. TokensFresh'
    <2>1. ASSUME NEW q \in Requests, Fresh(q), q # r
          PROVE  /\ request[q].token \in Tokens /\ session[request[q].token] # "rotated"
                 /\ request[r].step = "refresh" => request[q].token # request[r].token
      BY <2>1 DEF ReuseInv, TokensFresh, TokensHeld, Holds, Fresh
    <2>. QED
      BY <1>2, <2>1 DEF ReuseInv, TokensFresh, Holds, Fresh
  <1>7. StoredUnspent'
    BY DEF StoredUnspent, Replacing, Keys
  <1>8. NoReuse'
    BY <1>1, <1>2 DEF NoReuse, In, RefreshSteps
  <1>. QED
    BY <1>4, <1>5, <1>6, <1>7, <1>8 DEF ReuseInv

(* The refresh. *)
LEMMA RefreshBeginsReuse ==
  ASSUME TypeOK, ReuseInv, NEW r \in Requests,
         RefreshStart(r) \/ ReadRefreshToken(r)
  PROVE  ReuseInv'
  <1>1. CASE RefreshStart(r)
    <2>1. /\ request'[r].step = "read"
          /\ \A q \in Requests \ {r} : request'[q] = request[q]
      BY <1>1, Became DEF RefreshStart
    <2>2. ~isRefreshing /\ isRefreshing' /\ UNCHANGED <<refresh, session, torn>> /\ In(r, "sent")
      BY <1>1 DEF RefreshStart, MayRefresh, Unauthorized, history
    <2>3. \A q \in Requests : request[q].step \notin RefreshSteps
      BY <2>2 DEF ReuseInv, OneRefresh
    <2>4. OneRefresh'
      BY <2>1, <2>2, <2>3 DEF OneRefresh
    <2>5. TokensHeld' /\ TokensFresh'
      BY <2>1, <2>2 DEF ReuseInv, TokensHeld, TokensFresh, Holds, Fresh
    <2>6. StoredUnspent' /\ NoReuse'
      BY <2>1, <2>2 DEF ReuseInv, StoredUnspent, NoReuse, In, Replacing
    <2>. QED
      BY <2>4, <2>5, <2>6 DEF ReuseInv
  <1>2. CASE ReadRefreshToken(r)
    <2>1. In(r, "read") /\ UNCHANGED <<refresh, session, torn, isRefreshing>>
      BY <1>2 DEF ReadRefreshToken, server
    <2>2. \A q \in Requests \ {r} : request[q].step \notin RefreshSteps
      BY <2>1 DEF ReuseInv, OneRefresh, In, RefreshSteps
    <2>3. CASE refresh = NoToken
      <3>1. RefreshFails(r) /\ request[r].step \in Sent \cup NotYet /\ ~In(r, "queued")
        BY <1>2, <2>1, <2>3 DEF ReadRefreshToken, In, NotYet
      <3>2. /\ request'[r].step = "reject" /\ request'[r].keys = Keys
            /\ \A q \in Requests \ {r} : request'[q] = request[q] \/ request'[q].step \in QuietSteps
        BY <3>1, RefreshFailed DEF QuietSteps
      <3>. QED
        BY <2>1, <3>2, RejectReuse DEF In
    <2>4. CASE refresh # NoToken
      <3>1. Become(r, With(r, "refresh", refresh))
        BY <1>2, <2>4 DEF ReadRefreshToken
      <3>2. /\ request'[r].step = "refresh" /\ request'[r].token = refresh
            /\ \A q \in Requests \ {r} : request'[q] = request[q]
        BY <3>1, Became DEF With
      <3>3. refresh \in Tokens
        BY <2>4 DEF TypeOK
      <3>4. torn \/ session[refresh] # "rotated"
        BY <2>1, <2>2, <2>4 DEF ReuseInv, StoredUnspent, In, Replacing, RefreshSteps
      <3>5. OneRefresh'
        BY <2>1, <2>2, <3>2 DEF ReuseInv, OneRefresh, In, RefreshSteps
      <3>6. TokensHeld'
        BY <2>1, <2>4, <3>2, <3>3 DEF ReuseInv, TokensHeld, Holds, Fresh
      <3>7. TokensFresh'
        BY <2>1, <3>2 DEF ReuseInv, TokensFresh, Holds, Fresh
      <3>8. StoredUnspent' /\ NoReuse'
        BY <2>1, <2>4, <3>2, <3>4 DEF ReuseInv, StoredUnspent, NoReuse, In
      <3>. QED
        BY <3>5, <3>6, <3>7, <3>8 DEF ReuseInv
    <2>. QED
      BY <2>3, <2>4
  <1>. QED
    BY <1>1, <1>2

(* What a request that refreshes holds, and that no other refreshes. *)
LEMMA Refresher ==
  ASSUME TypeOK, ReuseInv, NEW r \in Requests, request[r].step \in {"refresh", "access", "rotate"}
  PROVE  /\ request[r].token \in Tokens /\ session[request[r].token] # "none"
         /\ isRefreshing
         /\ \A q \in Requests \ {r} : request[q].step \notin RefreshSteps
  BY DEF ReuseInv, OneRefresh, TokensHeld, Holds, Fresh, RefreshSteps

LEMMA RefreshAnswerReuse ==
  ASSUME TypeOK, ReuseInv, NEW r \in Requests,
         RefreshSucceeds(r) \/ RefreshRefused(r)
  PROVE  ReuseInv'
  <1> DEFINE old == request[r].token
  <1>1. In(r, "refresh") /\ UNCHANGED <<refresh, torn, isRefreshing>>
    BY DEF RefreshSucceeds, RefreshRefused, history
  <1>2. /\ old \in Tokens /\ session[old] # "none" /\ isRefreshing
        /\ \A q \in Requests \ {r} : request[q].step \notin RefreshSteps
    BY <1>1, Refresher DEF In
  <1> HIDE DEF old
  <1>3. ASSUME NEW t \in Tokens, Created(t)
        PROVE  /\ session[t] = "none" /\ t # old
               /\ Rotated(old, t)[t] = "live" /\ Rotated(old, t)[old] = "rotated"
               /\ \A u \in Tokens \ {old, t} : Rotated(old, t)[u] = session[u]
    BY <1>2, <1>3 DEF Created, Rotated, TypeOK
  <1>4. CASE RefreshSucceeds(r)
    <2>1. PICK t \in Tokens : /\ Created(t) /\ session' = Rotated(old, t)
                              /\ Become(r, With(r, "access", t))
      BY <1>4 DEF RefreshSucceeds, old
    <2>2. /\ request'[r].step = "access" /\ request'[r].token = t
          /\ \A q \in Requests \ {r} : request'[q] = request[q]
      BY <2>1, Became DEF With
    <2>3. /\ session[t] = "none" /\ session'[t] = "live" /\ session'[old] = "rotated" /\ t # old
          /\ \A u \in Tokens \ {old, t} : session'[u] = session[u]
      BY <1>3, <2>1
    <2>4. t # refresh /\ \A q \in Requests : Holds(q) => request[q].token # t
      BY <2>3, NoTokenIsNone DEF ReuseInv, TokensHeld
    <2>5. \A q \in Requests \ {r} : Holds(q) => Fresh(q)
      BY <1>2 DEF Holds, Fresh, RefreshSteps
    <2>6. \A q \in Requests \ {r} : Holds(q) =>
            request[q].token \in Tokens /\ request[q].token # old
      BY <1>1, <2>5 DEF ReuseInv, TokensFresh, TokensHeld, Holds, Fresh, In, old
    <2>7. refresh \in Tokens \cup {NoToken}
      BY DEF TypeOK
    <2>8. OneRefresh'
      BY <1>1, <1>2, <2>2 DEF OneRefresh
    <2>9. TokensHeld'
      BY <1>1, <1>2, <2>2, <2>3, <2>7 DEF ReuseInv, TokensHeld, Holds, Fresh
    <2>10. TokensFresh'
      BY <1>1, <2>2, <2>3, <2>4, <2>6 DEF ReuseInv, TokensFresh, Holds, Fresh
    <2>11. StoredUnspent'
      BY <2>2 DEF StoredUnspent, Replacing
    <2>12. NoReuse'
      BY <1>2, <2>2 DEF NoReuse, In, RefreshSteps
    <2>. QED
      BY <2>8, <2>9, <2>10, <2>11, <2>12 DEF ReuseInv
  <1>5. CASE RefreshRefused(r)
    <2>1. RefreshFails(r) /\ request[r].step \in Sent \cup NotYet /\ ~In(r, "queued")
      BY <1>1, <1>5 DEF RefreshRefused, In, Sent
    <2>2. /\ request'[r].step = "reject" /\ request'[r].keys = Keys
          /\ \A q \in Requests \ {r} : request'[q] = request[q] \/ request'[q].step \in QuietSteps
      BY <2>1, RefreshFailed DEF QuietSteps
    <2>3. \/ session' = session \/ session' = Ended
          \/ \E t \in Tokens : Created(t) /\ session' = Rotated(old, t)
      BY <1>5 DEF RefreshRefused, old
    <2>4. ASSUME NEW u \in Tokens
          PROVE  /\ session'[u] = "none" => session[u] = "none"
                 /\ session'[u] = "rotated" => session[u] = "rotated" \/ u = old
      <3>1. CASE session' = session
        BY <3>1
      <3>2. CASE session' = Ended
        BY <3>2 DEF Ended
      <3>3. CASE \E t \in Tokens : Created(t) /\ session' = Rotated(old, t)
        BY <1>3, <3>3
      <3>. QED
        BY <2>3, <3>1, <3>2, <3>3
    <2>. QED
      BY <1>1, <2>2, <2>4, RejectReuse DEF In, old
  <1>. QED
    BY <1>4, <1>5

(* The two tokens are stored one after the other, or both cleared. *)
LEMMA RefreshEndsReuse ==
  ASSUME TypeOK, ReuseInv, NEW r \in Requests,
         StoreAccess(r) \/ StoreRefresh(r) \/ ForceLogout(r)
  PROVE  ReuseInv'
  <1>1. CASE StoreAccess(r)
    <2>1. /\ request'[r].step = "rotate" /\ request'[r].token = request[r].token
          /\ \A q \in Requests \ {r} : request'[q] = request[q]
      BY <1>1, Became DEF StoreAccess, With
    <2>2. In(r, "access") /\ UNCHANGED <<refresh, session, torn, isRefreshing>>
      BY <1>1 DEF StoreAccess, server, history
    <2>3. OneRefresh'
      BY <2>1, <2>2 DEF ReuseInv, OneRefresh, In, RefreshSteps
    <2>4. TokensHeld' /\ TokensFresh'
      BY <2>1, <2>2 DEF ReuseInv, TokensHeld, TokensFresh, Holds, Fresh, In
    <2>5. StoredUnspent' /\ NoReuse'
      BY <2>1, <2>2 DEF ReuseInv, StoredUnspent, NoReuse, In, Replacing
    <2>. QED
      BY <2>3, <2>4, <2>5 DEF ReuseInv
  <1>2. CASE StoreRefresh(r)
    <2>1. In(r, "rotate") /\ refresh' = request[r].token /\ UNCHANGED <<session, torn>>
      BY <1>2 DEF StoreRefresh, server
    <2>2. /\ \A q \in Requests : request'[q] = request[q] \/ request'[q].step = "new"
          /\ request'[r].step = "new"
      BY <1>2 DEF StoreRefresh, At
    <2>3. /\ refresh' \in Tokens /\ session[refresh'] \notin {"none", "rotated"}
          /\ \A q \in Requests \ {r} : Holds(q) => request[q].token # refresh'
      BY <2>1 DEF ReuseInv, TokensHeld, TokensFresh, Holds, Fresh, In
    <2>4. \A q \in Requests \ {r} : request[q].step \notin RefreshSteps
      BY <2>1, Refresher DEF In
    <2>5. OneRefresh'
      BY <2>2, <2>4 DEF OneRefresh, RefreshSteps
    <2>6. TokensHeld'
      BY <2>1, <2>2, <2>3 DEF ReuseInv, TokensHeld, Holds, Fresh
    <2>7. TokensFresh'
      BY <2>1, <2>2, <2>3 DEF ReuseInv, TokensFresh, Holds, Fresh
    <2>8. StoredUnspent' /\ NoReuse'
      BY <2>1, <2>2, <2>3, <2>4 DEF StoredUnspent, NoReuse, In, RefreshSteps
    <2>. QED
      BY <2>5, <2>6, <2>7, <2>8 DEF ReuseInv
  <1>3. CASE ForceLogout(r)
    <2>1. Failed(request[r].for).step \in {"idle", "wipe"} /\ New("logout").step = "new"
      BY <1>3, FailedType, RequestMoves DEF ForceLogout, In, NotYet, Purposes
    <2>2. /\ \A q \in Requests : request'[q] = request[q] \/ request'[q].step \in QuietSteps
          /\ request'[r].step \in QuietSteps
      BY <1>3, <2>1 DEF ForceLogout, QuietSteps, TypeOK
    <2>3. \A q \in Requests \ {r} : request[q].step \notin RefreshSteps
      BY <1>3 DEF ReuseInv, OneRefresh, ForceLogout, In, RefreshSteps
    <2>4. \A q \in Requests : request'[q].step \notin RefreshSteps
      BY <2>2, <2>3 DEF RefreshSteps, QuietSteps
    <2>5. UNCHANGED <<refresh, session, torn>>
      BY <1>3 DEF ForceLogout, server, history
    <2>6. \A q \in Requests : ~Replacing(q)
      BY <1>3, <2>3 DEF ForceLogout, In, Replacing, RefreshSteps
    <2>7. QuietStep
      BY <2>2, <2>4, <2>5, <2>6 DEF QuietStep
    <2>. QED
      BY <2>7, QuietReuse
  <1>. QED
    BY <1>1, <1>2, <1>3

LEMMA ReuseInvInit == Init => ReuseInv
  BY RequestMoves DEF Init, ReuseInv, OneRefresh, TokensHeld, TokensFresh, StoredUnspent, NoReuse,
     Holds, Fresh, In, RefreshSteps, Idle

LEMMA ReuseInvNext ==
  ASSUME TypeInv, ReuseInv, [Next]_vars
  PROVE  ReuseInv'
  <1>. TypeOK
    BY DEF TypeInv
  <1>1. ASSUME NEW r \in Requests, Open(r) \/ Logout(r) \/ Start(r) \/ Login(r) PROVE ReuseInv'
    BY <1>1, QuietSendReuse
  <1>2. ASSUME NEW r \in Requests, Progress(r) PROVE ReuseInv'
    BY <1>2, QuietSendReuse, ClearReuse, LoginReuse, StoreReuse,
       RefreshBeginsReuse, RefreshAnswerReuse, RefreshEndsReuse
    DEF Progress
  <1>3. CASE Expire \/ Kill \/ UNCHANGED vars
    BY <1>3, WorldReuse
  <1>. QED
    BY <1>1, <1>2, <1>3 DEF Next

LEMMA ReuseInvAlways == Spec => [](TypeInv /\ ReuseInv)
  <1>1. Spec => []TypeInv
    BY TypeInvAlways
  <1>2. TypeInv /\ ReuseInv /\ [Next]_vars => ReuseInv'
    BY ReuseInvNext
  <1>. QED
    BY <1>1, <1>2, ReuseInvInit, PTL DEF Spec

(* However many requests are answered 401 at once, whoever logs in, out    *)
(* or starts the app anew in between, the app never presents a refresh     *)
(* token that it has had rotated, unless it was killed between the         *)
(* rotation and the storing of the second token (api.ts:99-117).           *)
THEOREM MobileClientNoReuse == Spec => []NoReuse
  <1>1. ReuseInv => NoReuse
    BY DEF ReuseInv
  <1>. QED
    BY <1>1, ReuseInvAlways, PTL

-----------------------------------------------------------------------------
(* Signed in with both tokens. SignedInHasTokens speaks of an app at rest; *)
(* on the way there, either a token is stored or a request is about to     *)
(* clear the screens as well, the logouts that failures force included,    *)
(* and what turns the screens on, a login or a start of the app, has the   *)
(* app to itself.                                                          *)
Aims(r, purposes) == request[r].step \in NotYet \cup Sent /\ request[r].for \in purposes
Opens(r) ==
  \/ request[r].step \in {"login", "store"}
  \/ request[r].step = "wipe" /\ request[r].for = "login"
  \/ Aims(r, {"me", "init"})

OneOpening == \A q, r \in Requests : Opens(q) /\ Opens(r) => q = r /\ ~isAuthenticated

OpensAlone ==
  mixed \/ \A r \in Requests : Opens(r) => \A q \in Requests \ {r} : In(q, "idle")

Openings == OneOpening /\ OpensAlone

LateQueued == \A r \in late : In(r, "queued")

Ends(r) ==
  \/ In(r, "reject")
  \/ r \notin late /\ \/ In(r, "wipe") /\ request[r].for # "login"
                      \/ Aims(r, {"logout"})
Signing == isAuthenticated \/ \E r \in Requests : Aims(r, {"me", "init"})
Sure == ~mixed /\ ~torn

(* Of a pair one token only is stored, or deleted. *)
HalfStored(r) == In(r, "store") /\ request[r].keys \notin {{}, Keys}
HalfCleared(r) == Clearing(r) /\ request[r].keys = {"access"}
RefreshLeft(r) == Clearing(r) /\ request[r].keys = {"refresh"}

OnePair ==
  \/ access \in {NoToken, refresh}
  \/ \E r \in Requests : In(r, "rotate") \/ HalfStored(r) \/ HalfCleared(r)
AccessRotated == \A r \in Requests : In(r, "rotate") => access \in {NoToken, request[r].token}
AccessCleared ==
  \A r \in Requests : RefreshLeft(r) => access = NoToken \/ \E q \in Requests : In(q, "rotate")
PairStored == OnePair /\ AccessRotated /\ AccessCleared

HalvesStored ==
  mixed \/ \A r \in Requests : In(r, "store") =>
             /\ "access" \notin request[r].keys => access = request[r].token
             /\ "refresh" \notin request[r].keys => refresh = request[r].token

SigningStored == Signing => access # NoToken \/ \E r \in Requests : Ends(r)

Stored == HalvesStored /\ (Sure => PairStored /\ SigningStored)

SignInv == Openings /\ LateQueued /\ Stored

LEMMA ForIsAim ==
  ASSUME TypeOK, NEW r \in Requests, NEW P
  PROVE  For(r, P) <=> Aims(r, P) \/ (request[r].step = "wipe" /\ request[r].for \in P)
  <1>1. ASSUME NEW w \in RequestStates
        PROVE  "for" \in DOMAIN w <=> w.step \in NotYet \cup Sent \cup {"wipe"}
    BY DEF RequestStates, Idle, NotYet, Sent
  <1>. QED
    BY <1>1 DEF For, Aims, TypeOK

(* A request goes on with what it is for. *)
Advances(r) ==
  /\ request[r].step \in NotYet \cup Sent
  /\ request'[r].step \in NotYet \cup Sent /\ request'[r].for = request[r].for
  /\ \A q \in Requests \ {r} : request'[q] = request[q]

LEMMA AdvanceSteps ==
  ASSUME TypeOK, NEW r \in Requests,
         \/ Send(r) \/ Queue(r) \/ RefreshStart(r) \/ RefreshSucceeds(r) \/ StoreAccess(r)
         \/ ReadRefreshToken(r) /\ refresh # NoToken
  PROVE  /\ Advances(r) /\ ~In(r, "reject") /\ ~In(r, "queued") /\ ~In(r, "rotate")
         /\ request'[r].step # "reject"
         /\ request'[r].step = "rotate" =>
              StoreAccess(r) /\ request'[r].token = request[r].token
         /\ request'[r].step = "queued" => Queue(r)
         /\ UNCHANGED <<refresh, isAuthenticated, torn, mixed, running>>
         /\ access' = access \/ StoreAccess(r)
         /\ late' = late \/ Queue(r)
  <1>1. request[r].step \in {"new", "sent", "read", "refresh", "access"}
    BY DEF Send, Queue, RefreshStart, ReadRefreshToken, RefreshSucceeds, StoreAccess, Unauthorized, In
  <1>2. /\ request'[r].for = request[r].for
        /\ request'[r].step \in {"sent", "queued", "read", "refresh", "access", "rotate"}
        /\ request'[r].step = "rotate" => StoreAccess(r) /\ request'[r].token = request[r].token
        /\ request'[r].step = "queued" => Queue(r)
        /\ \A q \in Requests \ {r} : request'[q] = request[q]
    <2>1. CASE Send(r)
      BY <2>1, Became DEF Send, With
    <2>2. CASE Queue(r)
      BY <2>2, Became DEF Queue, At
    <2>3. CASE RefreshStart(r)
      BY <2>3, Became DEF RefreshStart
    <2>4. CASE RefreshSucceeds(r)
      BY <2>4, Became DEF RefreshSucceeds, With
    <2>5. CASE StoreAccess(r)
      BY <2>5, Became DEF StoreAccess, With
    <2>6. CASE ReadRefreshToken(r) /\ refresh # NoToken
      BY <2>6, Became DEF ReadRefreshToken, With
    <2>. QED
      BY <2>1, <2>2, <2>3, <2>4, <2>5, <2>6
  <1>3. /\ UNCHANGED <<refresh, isAuthenticated, torn, mixed, running>>
        /\ access' = access \/ StoreAccess(r)
        /\ late' = late \/ Queue(r)
    BY DEF Send, Queue, RefreshStart, ReadRefreshToken, RefreshSucceeds, StoreAccess, server, history
  <1>. QED
    BY <1>1, <1>2, <1>3 DEF Advances, In, NotYet, Sent

(* A request is answered. *)
LEMMA AnswerSteps ==
  ASSUME TypeOK, NEW r \in Requests, Succeed(r) \/ InitWrongRole(r) \/ Reject(r) \/ RejectRetried(r)
  PROVE  /\ request[r].step = "sent" /\ request'[r].step \in {"idle", "wipe"}
         /\ request[r].for = "logout" => request'[r].step = "wipe"
         /\ request'[r].step = "wipe" => request'[r].for # "login" /\ request'[r].keys = Keys
         /\ \A q \in Requests \ {r} : request'[q] = request[q]
         /\ UNCHANGED <<access, refresh, torn, late, mixed, running>>
         /\ isAuthenticated' => isAuthenticated \/ Aims(r, {"me", "init"})
  <1>1. request[r].step = "sent"
    BY DEF Succeed, InitWrongRole, Reject, RejectRetried, Unauthorized, In
  <1>. DEFINE Answer(w) ==
         /\ w.step \in {"idle", "wipe"}
         /\ request[r].for = "logout" => w.step = "wipe"
         /\ w.step = "wipe" => w.for # "login" /\ w.keys = Keys
  <1>2. Answer(Failed(request[r].for))
    BY <1>1, RequestGoesOn, RequestMoves DEF Sent, Failed
  <1>6. Answer(Wiping("logout")) /\ (request[r].for # "logout" => Answer(Idle) /\ Answer(Wiping("init")))
    BY RequestMoves
  <1>3. \E w : Become(r, w) /\ Answer(w)
    <2>. HIDE DEF Answer
    <2>. QED
      BY <1>2, <1>6 DEF Succeed, InitWrongRole, Reject, RejectRetried
  <1>4. UNCHANGED <<access, refresh, torn, late, mixed, running>>
    BY DEF Succeed, InitWrongRole, Reject, RejectRetried, server, history
  <1>5. isAuthenticated' => isAuthenticated \/ request[r].for \in {"me", "init"}
    <2>1. CASE Succeed(r)
      BY <2>1, Zenon DEF Succeed
    <2>2. CASE InitWrongRole(r) \/ Reject(r) \/ RejectRetried(r)
      BY <2>2, Zenon DEF InitWrongRole, Reject, RejectRetried
    <2>. QED
      BY <2>1, <2>2
  <1>. QED
    BY <1>1, <1>3, <1>4, <1>5, Became DEF Aims, Sent

(* A refresh fails: the queue is rejected at once. *)
Fails(r) == RefreshRefused(r) \/ (ReadRefreshToken(r) /\ refresh = NoToken)

LEMMA FailSteps ==
  ASSUME TypeOK, NEW r \in Requests, Fails(r)
  PROVE  /\ request[r].step \in {"read", "refresh"} /\ In(r, "reject")'
         /\ request'[r].for = request[r].for /\ request'[r].keys = Keys
         /\ \A q \in Queued :
              /\ request'[q].step \in {"idle", "wipe"}
              /\ request'[q].step = "wipe" => request'[q].for # "login" /\ request'[q].keys = Keys
         /\ \A q \in Requests \ ({r} \cup Queued) : request'[q] = request[q]
         /\ late' = {}
         /\ UNCHANGED <<access, refresh, isAuthenticated, torn, mixed, running>>
  <1>1. RefreshFails(r) /\ request[r].step \in {"read", "refresh"}
    BY DEF Fails, RefreshRefused, ReadRefreshToken, In
  <1>2. /\ request'[r] = Rejected(r) /\ request'[r].step = "reject" /\ request'[r].keys = Keys
        /\ \A q \in Queued : request'[q] = Failed(request[q].for)
        /\ \A q \in Requests \ ({r} \cup Queued) : request'[q] = request[q]
        /\ late' = {}
    BY <1>1, RefreshFailed DEF In, Sent, NotYet
  <1>3. UNCHANGED <<access, refresh, isAuthenticated, torn, mixed, running>>
    BY DEF Fails, RefreshRefused, ReadRefreshToken, server
  <1>4. ASSUME NEW q \in Queued
        PROVE  /\ request'[q].step \in {"idle", "wipe"}
               /\ request'[q].step = "wipe" => request'[q].for # "login" /\ request'[q].keys = Keys
    <2>1. request[q].for \in Purposes
      BY RequestGoesOn DEF Queued, In, NotYet
    <2>. QED
      BY <2>1, <1>2, RequestMoves
  <1>. QED
    BY <1>1, <1>2, <1>3, <1>4 DEF In, Rejected

(* The second token is stored and the queue sent anew. *)
LEMMA StoreSteps ==
  ASSUME TypeOK, NEW r \in Requests, StoreRefresh(r)
  PROVE  /\ In(r, "rotate") /\ refresh' = request[r].token
         /\ \A q \in {r} \cup Queued : /\ request[q].step \in NotYet \cup Sent
                                      /\ request'[q].step = "new"
                                      /\ request'[q].for = request[q].for
         /\ \A q \in Requests \ ({r} \cup Queued) : request'[q] = request[q]
         /\ late' = {}
         /\ UNCHANGED <<access, isAuthenticated, torn, running>>
  BY DEF StoreRefresh, At, server, Queued, In, NotYet, Sent

(* It takes a login only if no deletion of a pair is left half done. *)
LEMMA StoreMixes ==
  ASSUME NEW r \in Requests, StoreRefresh(r)
  PROVE  /\ mixed => mixed'
         /\ mixed' \/ access = NoToken \/ \A q \in Requests : ~RefreshLeft(q)
  <1>1. mixed' = (mixed \/ (access # NoToken /\ \E q \in Requests : RefreshLeft(q)))
    BY Zenon DEF StoreRefresh, RefreshLeft
  <1>. QED
    BY <1>1

(* The tokens have been cleared: a logout by a request of its own. *)
LEMMA ForceSteps ==
  ASSUME TypeOK, NEW r \in Requests, ForceLogout(r)
  PROVE  /\ In(r, "reject") /\ request[r].keys = {} /\ request'[r].step \in {"idle", "wipe"}
         /\ request'[r].step = "wipe" => request'[r].for # "login" /\ request'[r].keys = Keys
         /\ \E g \in Requests \ {r} :
              /\ In(g, "idle") /\ request'[g].step = "new" /\ request'[g].for = "logout"
              /\ \A q \in Requests \ {g, r} : request'[q] = request[q]
         /\ UNCHANGED <<access, refresh, isAuthenticated, torn, late, mixed, running>>
  <1>1. /\ Failed(request[r].for).step \in {"idle", "wipe"}
        /\ Failed(request[r].for).step = "wipe" =>
             Failed(request[r].for).for # "login" /\ Failed(request[r].for).keys = Keys
    BY RequestGoesOn, RequestMoves DEF ForceLogout, In, NotYet
  <1>2. New("logout").step = "new" /\ New("logout").for = "logout"
    BY DEF New
  <1>3. PICK g \in Requests \ {r} :
          /\ Free(g)
          /\ request' = [request EXCEPT ![r] = Failed(request[r].for), ![g] = New("logout")]
    BY DEF ForceLogout
  <1>4. /\ request'[g] = New("logout") /\ request'[r] = Failed(request[r].for)
        /\ \A q \in Requests \ {g, r} : request'[q] = request[q]
    BY <1>3 DEF TypeOK
  <1>. QED
    BY <1>1, <1>2, <1>3, <1>4 DEF ForceLogout, Free, server, history

LEMMA LoginSteps ==
  ASSUME TypeOK, NEW r \in Requests, LoginAnswer(r) \/ LoginWrongRole(r)
  PROVE  /\ request[r].step = "login" /\ request'[r].step \in {"idle", "store", "wipe"}
         /\ request'[r].step \in {"store", "wipe"} => request'[r].keys = Keys
         /\ request'[r].step = "wipe" => request'[r].for = "login"
         /\ \A q \in Requests \ {r} : request'[q] = request[q]
         /\ UNCHANGED <<access, refresh, isAuthenticated, torn, late, mixed, running>>
  <1>1. \E w \in {Idle, Wiping("login")} \cup {Storing(t) : t \in Tokens} : Become(r, w)
    BY DEF LoginAnswer, LoginWrongRole
  <1>2. /\ request'[r].step \in {"idle", "store", "wipe"}
        /\ request'[r].step \in {"store", "wipe"} => request'[r].keys = Keys
        /\ request'[r].step = "wipe" => request'[r].for = "login"
        /\ \A q \in Requests \ {r} : request'[q] = request[q]
    BY <1>1, Became, RequestMoves
  <1>. QED
    BY <1>2 DEF LoginAnswer, LoginWrongRole, In, history

(* A token of a pair is stored or deleted. *)
LEMMA HalfSteps ==
  ASSUME TypeOK, NEW r \in Requests, NEW key \in Keys, StoreToken(r, key) \/ ClearToken(r, key)
  PROVE  /\ request[r].step \in InPairs /\ request'[r].step = request[r].step
         /\ key \in request[r].keys /\ request'[r].keys = request[r].keys \ {key}
         /\ request[r].keys \in SUBSET Keys
         /\ StoreToken(r, key) => request[r].step = "store" /\ request'[r].token = request[r].token
         /\ ClearToken(r, key) => /\ request[r].step \in {"wipe", "reject"}
                                  /\ request'[r].for = request[r].for
         /\ \A q \in Requests \ {r} : request'[q] = request[q]
         /\ UNCHANGED <<isAuthenticated, late, mixed, running>>
  <1>1. request[r].keys \in SUBSET Keys
    BY ClearEnded, RequestFields DEF TypeOK
  <1>2. UNCHANGED <<isAuthenticated, late, mixed, running>>
    BY DEF StoreToken, ClearToken, history
  <1>. QED
    BY <1>1, <1>2, ClearEnded, WriteEnded DEF In

LEMMA WipeSteps ==
  ASSUME TypeOK, NEW r \in Requests, Wiped(r)
  PROVE  /\ request[r].step = "wipe" /\ request[r].keys = {} /\ request'[r].step = "idle"
         /\ \A q \in Requests \ {r} : request'[q] = request[q]
         /\ isAuthenticated' => isAuthenticated /\ request[r].for = "login"
         /\ UNCHANGED <<access, refresh, torn, late, mixed, running>>
  <1>1. isAuthenticated' => isAuthenticated /\ request[r].for = "login"
    BY Zenon DEF Wiped
  <1>. QED
    BY <1>1, Became, RequestMoves DEF Wiped, In, server, history

(* Openings. *)
LEMMA KeepsOpenings ==
  ASSUME Openings,
         \A q \in Requests : Opens(q)' => Opens(q),
         isAuthenticated' => isAuthenticated \/ \A q \in Requests : ~Opens(q)',
         mixed => mixed',
         \/ mixed
         \/ \A q \in Requests : ~Opens(q)'
         \/ \A q \in Requests : In(q, "idle") => In(q, "idle")'
  PROVE  Openings'
  BY DEF Openings, OneOpening, OpensAlone

LEMMA OpeningsOfApp ==
  ASSUME TypeInv, Openings, NEW r \in Requests,
         Open(r) \/ Logout(r) \/ Start(r) \/ Login(r)
  PROVE  Openings'
  <1>. TypeOK
    BY DEF TypeInv
  <1>1. CASE Open(r) \/ Logout(r)
    <2>1. isAuthenticated /\ UNCHANGED <<isAuthenticated, mixed>>
      BY <1>1 DEF Open, Logout, history
    <2>2. \A q \in Requests : ~Opens(q)
      BY <2>1 DEF Openings, OneOpening
    <2>3. New("data").for = "data" /\ New("logout").for = "logout"
      BY DEF New
    <2>4. /\ request'[r].for \in {"data", "logout"} /\ request'[r].step = "new"
          /\ \A q \in Requests \ {r} : request'[q] = request[q]
      BY <1>1, <2>3, Became, RequestMoves DEF Open, Logout, Purposes
    <2>5. \A q \in Requests : ~Opens(q)'
      BY <2>2, <2>4 DEF Opens, Aims
    <2>. QED
      BY <2>1, <2>5, KeepsOpenings
  <1>2. CASE Start(r)
    <2>1. ~isAuthenticated /\ ~isAuthenticated' /\ \A q \in Requests : In(q, "idle")
      BY <1>2 DEF Start, TypeInv, Stopped
    <2>2. \A q \in Requests \ {r} : request'[q] = request[q]
      BY <1>2, Became DEF Start
    <2>3. \A q \in Requests \ {r} : In(q, "idle")' /\ ~Opens(q)'
      BY <2>1, <2>2 DEF In, Opens, Aims, NotYet, Sent
    <2>. QED
      BY <2>1, <2>3 DEF Openings, OneOpening, OpensAlone
  <1>3. CASE Login(r)
    <2>0. ~isAuthenticated /\ ~isAuthenticated'
      BY <1>3 DEF Login
    <2>5. mixed' \/ \A q \in Requests : In(q, "idle")
      <3>1. mixed' = (mixed \/ Busy)
        BY <1>3, Zenon DEF Login
      <3>2. Busy => mixed'
        BY <3>1, Zenon
      <3>3. ~Busy => \A q \in Requests : In(q, "idle")
        BY DEF Busy
      <3>. QED
        BY <3>2, <3>3
    <2>1. /\ ~isAuthenticated /\ ~isAuthenticated'
          /\ mixed' \/ \A q \in Requests : In(q, "idle")
      BY <2>0, <2>5
    <2>6. \A q \in Requests : ~In(q, "login") /\ ~In(q, "store") /\ ~For(q, {"me", "init", "login"})
      BY <1>3, Zenon DEF Login, Submitting
    <2>2. \A q \in Requests : ~Opens(q)
      <3>. SUFFICES ASSUME NEW q \in Requests PROVE ~Opens(q)
        OBVIOUS
      <3>1. For(q, {"me", "init", "login"}) <=>
              \/ Aims(q, {"me", "init", "login"})
              \/ request[q].step = "wipe" /\ request[q].for \in {"me", "init", "login"}
        BY ForIsAim
      <3>. QED
        BY <2>6, <3>1 DEF Opens, Aims, In
    <2>3. \A q \in Requests \ {r} : request'[q] = request[q]
      BY <1>3, Became DEF Login
    <2>4. \A q \in Requests \ {r} : ~Opens(q)' /\ (In(q, "idle") => In(q, "idle")')
      BY <2>2, <2>3 DEF In, Opens, Aims
    <2>. QED
      BY <2>1, <2>4 DEF Openings, OneOpening, OpensAlone
  <1>. QED
    BY <1>1, <1>2, <1>3

LEMMA OpeningsOfLogin ==
  ASSUME TypeInv, Openings, NEW r \in Requests,
         LoginAnswer(r) \/ LoginWrongRole(r) \/ LoginStored(r) \/ Wiped(r)
  PROVE  Openings'
  <1>. TypeOK
    BY DEF TypeInv
  <1>1. CASE LoginAnswer(r) \/ LoginWrongRole(r) \/ Wiped(r)
    <2>1. /\ request[r].step \in {"login", "wipe"} /\ mixed' = mixed
          /\ isAuthenticated' => isAuthenticated
          /\ \A q \in Requests \ {r} : request'[q] = request[q]
          /\ request'[r].step \in {"idle", "store", "wipe"}
          /\ request'[r].step \in {"store", "wipe"} => request[r].step = "login"
      BY <1>1, LoginSteps, WipeSteps
    <2>2. \A q \in Requests : Opens(q)' => Opens(q)
      BY <2>1 DEF Opens, Aims, NotYet, Sent
    <2>3. \A q \in Requests : In(q, "idle") => In(q, "idle")'
      BY <2>1 DEF In
    <2>. QED
      BY <2>1, <2>2, <2>3, KeepsOpenings
  <1>2. CASE LoginStored(r)
    <2>1. /\ request[r].step = "store" /\ UNCHANGED isAuthenticated
          /\ \A q \in Requests \ {r} : request'[q] = request[q]
      BY <1>2, Became DEF LoginStored, In
    <2>5. mixed => mixed' \/ \A q \in Requests \ {r} : In(q, "idle")
      BY <1>2, Zenon DEF LoginStored, Alone
    <2>2. Opens(r) /\ ~isAuthenticated /\ \A q \in Requests : Opens(q) => q = r
      BY <2>1 DEF Opens, Openings, OneOpening
    <2>3. \A q \in Requests : Opens(q)' => q = r
      BY <2>1, <2>2 DEF Opens, Aims
    <2>4. mixed' \/ \A q \in Requests \ {r} : In(q, "idle")'
      BY <2>1, <2>2, <2>5 DEF Openings, OpensAlone, In
    <2>. QED
      BY <2>1, <2>2, <2>3, <2>4 DEF Openings, OneOpening, OpensAlone
  <1>. QED
    BY <1>1, <1>2

LEMMA OpeningsOfHalf ==
  ASSUME TypeInv, Openings, NEW r \in Requests, NEW key \in Keys,
         StoreToken(r, key) \/ ClearToken(r, key)
  PROVE  Openings'
  <1>. TypeOK
    BY DEF TypeInv
  <1>1. \A q \in Requests : Opens(q)' => Opens(q)
    BY HalfSteps DEF Opens, Aims, InPairs
  <1>2. \A q \in Requests : In(q, "idle") => In(q, "idle")'
    BY HalfSteps DEF In, InPairs
  <1>3. UNCHANGED <<isAuthenticated, mixed>>
    BY HalfSteps
  <1>. QED
    BY <1>1, <1>2, <1>3, KeepsOpenings

LEMMA OpeningsOfRequest ==
  ASSUME TypeInv, Openings, NEW r \in Requests,
         \/ Send(r) \/ Queue(r) \/ RefreshStart(r) \/ ReadRefreshToken(r)
         \/ Succeed(r) \/ InitWrongRole(r) \/ Reject(r) \/ RejectRetried(r)
         \/ RefreshSucceeds(r) \/ RefreshRefused(r)
         \/ StoreAccess(r) \/ StoreRefresh(r) \/ ForceLogout(r)
  PROVE  Openings'
  <1>. TypeOK
    BY DEF TypeInv
  <1>1. CASE \/ Send(r) \/ Queue(r) \/ RefreshStart(r) \/ RefreshSucceeds(r) \/ StoreAccess(r)
             \/ ReadRefreshToken(r) /\ refresh # NoToken
    <2>1. Advances(r) /\ UNCHANGED <<isAuthenticated, mixed>>
      BY <1>1, AdvanceSteps
    <2>2. \A q \in Requests : Opens(q)' => Opens(q)
      BY <2>1 DEF Advances, Opens, Aims, NotYet, Sent
    <2>3. \A q \in Requests : In(q, "idle") => In(q, "idle")'
      BY <2>1 DEF Advances, In, NotYet, Sent
    <2>. QED
      BY <2>1, <2>2, <2>3, KeepsOpenings
  <1>2. CASE Succeed(r) \/ InitWrongRole(r) \/ Reject(r) \/ RejectRetried(r)
    <2>1. /\ request[r].step = "sent" /\ request'[r].step \in {"idle", "wipe"}
          /\ request'[r].step = "wipe" => request'[r].for # "login"
          /\ \A q \in Requests \ {r} : request'[q] = request[q]
          /\ UNCHANGED mixed
          /\ isAuthenticated' => isAuthenticated \/ Aims(r, {"me", "init"})
      BY <1>2, AnswerSteps
    <2>2. \A q \in Requests : Opens(q)' => Opens(q) /\ q # r
      BY <2>1 DEF Opens, Aims, NotYet, Sent
    <2>3. isAuthenticated' => isAuthenticated \/ \A q \in Requests : ~Opens(q)'
      BY <2>1, <2>2 DEF Openings, OneOpening, Opens
    <2>4. \A q \in Requests : In(q, "idle") => In(q, "idle")'
      BY <2>1 DEF In
    <2>. QED
      BY <2>1, <2>2, <2>3, <2>4, KeepsOpenings
  <1>3. CASE Fails(r)
    <2>1. \A q \in Requests : Opens(q)' => Opens(q)
      BY <1>3, FailSteps DEF Opens, Aims, In, NotYet, Sent, Queued
    <2>2. \A q \in Requests : In(q, "idle") => In(q, "idle")'
      BY <1>3, FailSteps DEF In, Queued
    <2>. QED
      BY <1>3, <2>1, <2>2, FailSteps, KeepsOpenings
  <1>4. CASE StoreRefresh(r)
    <2>1. \A q \in Requests : Opens(q)' => Opens(q)
      BY <1>4, StoreSteps DEF Opens, Aims
    <2>2. \A q \in Requests : In(q, "idle") => In(q, "idle")'
      BY <1>4, StoreSteps DEF In, Queued
    <2>. QED
      BY <1>4, <2>1, <2>2, StoreSteps, StoreMixes, KeepsOpenings
  <1>5. CASE ForceLogout(r)
    <2>1. PICK g \in Requests \ {r} :
            /\ In(g, "idle") /\ request'[g].step = "new" /\ request'[g].for = "logout"
            /\ \A q \in Requests \ {g, r} : request'[q] = request[q]
      BY <1>5, ForceSteps
    <2>2. /\ In(r, "reject") /\ request'[r].step \in {"idle", "wipe"}
          /\ request'[r].step = "wipe" => request'[r].for # "login"
          /\ UNCHANGED <<isAuthenticated, mixed>>
      BY <1>5, ForceSteps
    <2>3. \A q \in Requests : Opens(q)' => Opens(q) /\ q # r
      BY <2>1, <2>2 DEF Opens, Aims, NotYet, Sent
    <2>4. mixed \/ \A q \in Requests : ~Opens(q)'
      BY <2>2, <2>3 DEF Openings, OpensAlone, In
    <2>. QED
      BY <2>2, <2>3, <2>4, KeepsOpenings
  <1>. QED
    BY <1>1, <1>2, <1>3, <1>4, <1>5 DEF Fails

LEMMA OpeningsNext ==
  ASSUME TypeInv, Openings, [Next]_vars
  PROVE  Openings'
  <1>1. CASE Kill
    <2>1. \A q \in Requests : In(q, "idle")' /\ ~Opens(q)'
      BY <1>1, RequestMoves DEF Kill, In, Opens, Aims, NotYet, Sent
    <2>. QED
      BY <2>1 DEF Openings, OneOpening, OpensAlone
  <1>2. CASE Expire \/ UNCHANGED vars
    BY <1>2 DEF Expire, app, history, vars, Openings, OneOpening, OpensAlone, Opens, Aims, In
  <1>3. ASSUME NEW r \in Requests, Open(r) \/ Logout(r) \/ Start(r) \/ Login(r) PROVE Openings'
    BY <1>3, OpeningsOfApp
  <1>4. ASSUME NEW r \in Requests, Progress(r) PROVE Openings'
    BY <1>4, OpeningsOfLogin, OpeningsOfHalf, OpeningsOfRequest DEF Progress
  <1>. QED
    BY <1>1, <1>2, <1>3, <1>4 DEF Next

(* What is queued too late is queued. *)
LEMMA LateQueuedNext ==
  ASSUME TypeInv, LateQueued, [Next]_vars
  PROVE  LateQueued'
  <1>. TypeOK
    BY DEF TypeInv
  <1>1. CASE Kill
    BY <1>1 DEF Kill, LateQueued
  <1>2. CASE Expire \/ UNCHANGED vars
    BY <1>2 DEF Expire, app, history, vars, LateQueued, In
  <1>3. ASSUME NEW r \in Requests, ~In(r, "queued"), late' = late,
               \A q \in Requests \ {r} : request'[q] = request[q]
        PROVE  LateQueued'
    BY <1>3 DEF LateQueued, In, TypeOK
  <1>4. ASSUME NEW r \in Requests, Open(r) \/ Logout(r) \/ Start(r) \/ Login(r)
        PROVE  LateQueued'
    <2>1. ~In(r, "queued") /\ late' = late
      BY <1>4 DEF Open, Logout, Start, Login, Ready, Free, In, history, TypeInv, Stopped
    <2>2. \A q \in Requests \ {r} : request'[q] = request[q]
      BY <1>4, Became DEF Open, Logout, Start, Login
    <2>. QED
      BY <1>3, <2>1, <2>2
  <1>5. ASSUME NEW r \in Requests, Progress(r) PROVE LateQueued'
    <2>1. CASE LoginAnswer(r) \/ LoginWrongRole(r) \/ Wiped(r)
      BY <1>3, <2>1, LoginSteps, WipeSteps DEF In
    <2>2. CASE LoginStored(r)
      BY <1>3, <2>2, Became DEF LoginStored, In
    <2>7. ASSUME NEW key \in Keys, StoreToken(r, key) \/ ClearToken(r, key) PROVE LateQueued'
      <3>1. /\ request[r].step \in InPairs /\ late' = late
            /\ \A q \in Requests \ {r} : request'[q] = request[q]
        BY <2>7, HalfSteps
      <3>. QED
        BY <1>3, <3>1 DEF In, InPairs
    <2>3. CASE \/ Send(r) \/ Queue(r) \/ RefreshStart(r) \/ RefreshSucceeds(r) \/ StoreAccess(r)
               \/ ReadRefreshToken(r) /\ refresh # NoToken
      <3>1. Advances(r) /\ ~In(r, "queued") /\ (late' = late \/ Queue(r))
        BY <2>3, AdvanceSteps
      <3>2. CASE Queue(r)
        <4>1. request'[r].step = "queued" /\ late' \subseteq late \cup {r}
          BY <3>2, Became DEF Queue, At
        <4>. QED
          BY <3>1, <4>1 DEF Advances, LateQueued, In, TypeOK
      <3>. QED
        BY <1>3, <3>1, <3>2 DEF Advances
    <2>4. CASE Succeed(r) \/ InitWrongRole(r) \/ Reject(r) \/ RejectRetried(r)
      BY <1>3, <2>4, AnswerSteps DEF In
    <2>5. CASE Fails(r) \/ StoreRefresh(r)
      BY <2>5, FailSteps, StoreSteps DEF LateQueued
    <2>6. CASE ForceLogout(r)
      BY <2>6, ForceSteps DEF LateQueued, In, TypeOK
    <2>. QED
      BY <1>5, <2>1, <2>2, <2>3, <2>4, <2>5, <2>6, <2>7 DEF Progress, Fails
  <1>. QED
    BY <1>1, <1>2, <1>4, <1>5 DEF Next

(* What is stored. A step that starts or ends a pair, but is in none of    *)
(* its writes, leaves what is stored of it. *)
Whole(r) ==
  /\ request[r].step # "rotate"
  /\ request[r].step \in InPairs => request[r].keys \in {{}, Keys}
  /\ request[r].step = "store" => request[r].keys = Keys

LEMMA PairKept ==
  ASSUME TypeOK, NEW r \in Requests,
         UNCHANGED <<access, refresh>>,
         mixed => mixed',
         \A q \in Requests : request'[q] = request[q] \/ (Whole(q) /\ Whole(q)')
  PROVE  /\ HalvesStored => HalvesStored'
         /\ PairStored => PairStored'
  <1>1. /\ \A q \in Requests : In(q, "rotate") <=> In(q, "rotate")'
        /\ \A q \in Requests : In(q, "rotate") => request'[q] = request[q]
    BY DEF Whole, In
  <1>2. \A q \in Requests : (HalfStored(q) => HalfStored(q)') /\ (HalfCleared(q) => HalfCleared(q)')
    BY DEF Whole, In, InPairs, HalfStored, HalfCleared, Clearing, Keys
  <1>3. \A q \in Requests : RefreshLeft(q)' => RefreshLeft(q)
    BY DEF Whole, In, InPairs, RefreshLeft, Clearing, Keys
  <1>4. \A q \in Requests : In(q, "store")' /\ request'[q] # request[q] => request'[q].keys = Keys
    BY DEF Whole, In
  <1>5. HalvesStored => HalvesStored'
    BY <1>4 DEF HalvesStored, In, Keys
  <1>6. OnePair => OnePair'
    BY <1>1, <1>2 DEF OnePair
  <1>7. AccessRotated => AccessRotated'
    BY <1>1 DEF AccessRotated
  <1>8. AccessCleared => AccessCleared'
    BY <1>1, <1>3 DEF AccessCleared
  <1>. QED
    BY <1>5, <1>6, <1>7, <1>8 DEF PairStored

LEMMA IdleWhole ==
  ASSUME NEW r \in Requests, request[r].step \notin InPairs \cup {"rotate"}
  PROVE  Whole(r)
  BY DEF Whole, InPairs

(* What is stored. A request that ends signing in goes on to do so, unless *)
(* it is queued too late, behind one that will.                            *)
LEMMA WholeSteps ==
  ASSUME TypeInv, NEW r \in Requests,
         \/ Open(r) \/ Logout(r) \/ Start(r) \/ Login(r)
         \/ LoginAnswer(r) \/ LoginWrongRole(r) \/ Wiped(r)
         \/ Send(r) \/ Queue(r) \/ RefreshStart(r) \/ RefreshSucceeds(r)
         \/ ReadRefreshToken(r) /\ refresh # NoToken
         \/ Succeed(r) \/ InitWrongRole(r) \/ Reject(r) \/ RejectRetried(r)
         \/ Fails(r) \/ ForceLogout(r)
  PROVE  /\ UNCHANGED <<access, refresh, torn>>
         /\ mixed => mixed'
         /\ HalvesStored => HalvesStored'
         /\ PairStored => PairStored'
  <1>. TypeOK
    BY DEF TypeInv
  <1>1. CASE Open(r) \/ Logout(r) \/ Start(r) \/ Login(r)
    <2>1. In(r, "idle") /\ UNCHANGED <<access, refresh, torn>>
      BY <1>1 DEF Open, Logout, Start, Login, Ready, Free, history
    <2>2. mixed => mixed'
      <3>1. CASE Open(r) \/ Logout(r) \/ Start(r)
        BY <3>1 DEF Open, Logout, Start, history
      <3>2. CASE Login(r)
        BY <3>2, Zenon DEF Login
      <3>. QED
        BY <1>1, <3>1, <3>2
    <2>3. /\ request'[r].step \in {"idle", "new", "login"}
          /\ \A q \in Requests \ {r} : request'[q] = request[q]
      BY <1>1, Became, RequestMoves DEF Open, Logout, Start, Login, Purposes
    <2>4. Whole(r) /\ Whole(r)'
      BY <2>1, <2>3 DEF Whole, In, InPairs
    <2>. QED
      BY <2>1, <2>2, <2>3, <2>4, PairKept
  <1>2. CASE LoginAnswer(r) \/ LoginWrongRole(r) \/ Wiped(r)
    <2>1. /\ \A q \in Requests \ {r} : request'[q] = request[q]
          /\ UNCHANGED <<access, refresh, torn, mixed>>
      BY <1>2, LoginSteps, WipeSteps
    <2>2. Whole(r) /\ Whole(r)'
      BY <1>2, LoginSteps, WipeSteps DEF Whole, InPairs
    <2>. QED
      BY <2>1, <2>2, PairKept
  <1>3. CASE \/ Send(r) \/ Queue(r) \/ RefreshStart(r) \/ RefreshSucceeds(r)
             \/ ReadRefreshToken(r) /\ refresh # NoToken
    <2>1. /\ Advances(r) /\ ~In(r, "reject") /\ ~In(r, "rotate") /\ request'[r].step # "reject"
          /\ UNCHANGED <<refresh, torn, mixed>>
      BY <1>3, AdvanceSteps
    <2>2. ~StoreAccess(r)
      BY <1>3 DEF Send, Queue, RefreshStart, RefreshSucceeds, ReadRefreshToken, StoreAccess,
         Unauthorized, In
    <2>3. UNCHANGED access /\ request'[r].step # "rotate"
      BY <1>3, <2>2, AdvanceSteps
    <2>4. Whole(r) /\ Whole(r)'
      BY <2>1, <2>3 DEF Whole, Advances, In, InPairs, NotYet, Sent
    <2>. QED
      BY <2>1, <2>3, <2>4, PairKept DEF Advances
  <1>4. CASE Succeed(r) \/ InitWrongRole(r) \/ Reject(r) \/ RejectRetried(r)
    <2>1. /\ \A q \in Requests \ {r} : request'[q] = request[q]
          /\ UNCHANGED <<access, refresh, torn, mixed>>
      BY <1>4, AnswerSteps
    <2>2. Whole(r) /\ Whole(r)'
      BY <1>4, AnswerSteps DEF Whole, InPairs
    <2>. QED
      BY <2>1, <2>2, PairKept
  <1>5. CASE Fails(r)
    <2>1. UNCHANGED <<access, refresh, torn, mixed>>
      BY <1>5, FailSteps
    <2>2. Whole(r) /\ Whole(r)'
      BY <1>5, FailSteps DEF Whole, In, InPairs
    <2>3. ASSUME NEW q \in Queued PROVE q \in Requests /\ Whole(q) /\ Whole(q)'
      BY <1>5, <2>3, FailSteps DEF Whole, Queued, In, InPairs
    <2>4. \A q \in Requests : request'[q] = request[q] \/ (Whole(q) /\ Whole(q)')
      BY <1>5, <2>2, <2>3, FailSteps
    <2>. QED
      BY <2>1, <2>4, PairKept
  <1>6. CASE ForceLogout(r)
    <2>1. UNCHANGED <<access, refresh, torn, mixed>>
      BY <1>6, ForceSteps
    <2>2. Whole(r) /\ Whole(r)'
      BY <1>6, ForceSteps DEF Whole, In, InPairs
    <2>3. PICK g \in Requests \ {r} :
            /\ In(g, "idle") /\ request'[g].step = "new"
            /\ \A q \in Requests \ {g, r} : request'[q] = request[q]
      BY <1>6, ForceSteps
    <2>4. Whole(g) /\ Whole(g)'
      BY <2>3 DEF Whole, In, InPairs
    <2>5. \A q \in Requests : request'[q] = request[q] \/ (Whole(q) /\ Whole(q)')
      BY <2>2, <2>3, <2>4
    <2>. QED
      BY <2>1, <2>5, PairKept
  <1>. QED
    BY <1>1, <1>2, <1>3, <1>4, <1>5, <1>6

(* Then a request that ends signing in is all that may be missed: it goes  *)
(* on to do so, unless it is queued too late, behind one that will. *)
LEMMA StoredKept ==
  ASSUME Stored, torn' = torn, mixed => mixed',
         HalvesStored => HalvesStored', PairStored => PairStored',
         Sure /\ SigningStored => SigningStored'
  PROVE  Stored'
  BY DEF Stored, Sure

LEMMA StoredOfApp ==
  ASSUME TypeInv, SignInv, NEW r \in Requests,
         Open(r) \/ Logout(r) \/ Start(r) \/ Login(r)
  PROVE  Stored'
  <1>. TypeOK
    BY DEF TypeInv
  <1>1. /\ In(r, "idle")
        /\ UNCHANGED <<access, isAuthenticated, late>>
    BY DEF Open, Logout, Start, Login, Ready, Free, history
  <1>2. /\ request'[r].step \in {"idle", "new", "login"}
        /\ \A q \in Requests \ {r} : request'[q] = request[q]
    BY Became, RequestMoves DEF Open, Logout, Start, Login, Purposes
  <1>3. \A q \in Requests : Ends(q) => Ends(q)'
    BY <1>1, <1>2 DEF Ends, Aims, In, NotYet, Sent
  <1>4. Sure /\ SigningStored => SigningStored'
    <2>1. CASE Open(r) \/ Logout(r)
      BY <1>1, <1>3, <2>1 DEF Open, Logout, SigningStored, Signing
    <2>2. CASE Start(r)
      <3>1. ~isAuthenticated /\ \A q \in Requests : In(q, "idle")
        BY <2>2 DEF Start, TypeInv, Stopped
      <3>2. \A q \in Requests \ {r} : ~Aims(q, {"me", "init"})'
        BY <1>2, <3>1 DEF Aims, In, NotYet, Sent
      <3>3. access = NoToken => ~Aims(r, {"me", "init"})'
        BY <2>2, Became, RequestMoves DEF Start, Aims, NotYet, Sent
      <3>. QED
        BY <1>1, <3>1, <3>2, <3>3 DEF SigningStored, Signing
    <2>3. CASE Login(r)
      <3>1. ~isAuthenticated /\ \A q \in Requests : ~For(q, {"me", "init", "login"})
        BY <2>3, Zenon DEF Login, Submitting
      <3>2. \A q \in Requests : ~Aims(q, {"me", "init"})
        <4>. SUFFICES ASSUME NEW q \in Requests PROVE ~Aims(q, {"me", "init"})
          OBVIOUS
        <4>1. Aims(q, {"me", "init", "login"}) => For(q, {"me", "init", "login"})
          BY ForIsAim
        <4>. QED
          BY <3>1, <4>1 DEF Aims
      <3>3. request'[r].step = "login"
        BY <2>3, Became DEF Login
      <3>4. ~Signing'
        BY <1>1, <1>2, <3>1, <3>2, <3>3 DEF Signing, Aims, NotYet, Sent
      <3>. QED
        BY <3>4 DEF SigningStored
    <2>. QED
      BY <2>1, <2>2, <2>3
  <1>. QED
    BY <1>4, WholeSteps, StoredKept DEF SignInv

LEMMA StoredOfLogin ==
  ASSUME TypeInv, SignInv, NEW r \in Requests,
         LoginAnswer(r) \/ LoginWrongRole(r) \/ Wiped(r)
  PROVE  Stored'
  <1>. TypeOK
    BY DEF TypeInv
  <1>1. CASE LoginAnswer(r) \/ LoginWrongRole(r)
    <2>1. /\ request[r].step = "login" /\ request'[r].step \in {"idle", "store", "wipe"}
          /\ \A q \in Requests \ {r} : request'[q] = request[q]
          /\ UNCHANGED <<access, isAuthenticated, late>>
      BY <1>1, LoginSteps
    <2>2. \A q \in Requests : Ends(q) => Ends(q)'
      BY <2>1 DEF Ends, Aims, In, NotYet, Sent
    <2>3. Signing' => Signing
      BY <2>1 DEF Signing, Aims, NotYet, Sent
    <2>4. SigningStored => SigningStored'
      BY <2>1, <2>2, <2>3 DEF SigningStored
    <2>. QED
      BY <1>1, <2>4, WholeSteps, StoredKept DEF SignInv
  <1>2. CASE Wiped(r)
    <2>1. /\ request[r].step = "wipe" /\ request'[r].step = "idle"
          /\ \A q \in Requests \ {r} : request'[q] = request[q]
          /\ isAuthenticated' => isAuthenticated /\ request[r].for = "login"
      BY <1>2, WipeSteps
    <2>2. ~isAuthenticated'
      BY <2>1 DEF SignInv, Openings, OneOpening, Opens
    <2>3. ASSUME Sure, NEW q \in Requests, Aims(q, {"me", "init"})' PROVE FALSE
      <3>1. q # r /\ Opens(q) /\ ~mixed
        BY <2>1, <2>3 DEF Aims, Opens, Sure, NotYet, Sent
      <3>. QED
        BY <2>1, <3>1 DEF SignInv, Openings, OpensAlone, In
    <2>4. Sure => SigningStored'
      BY <2>2, <2>3 DEF SigningStored, Signing
    <2>. QED
      BY <1>2, <2>4, WholeSteps, StoredKept DEF SignInv
  <1>. QED
    BY <1>1, <1>2

(* A token of a pair is deleted. *)
LEMMA StoredOfClear ==
  ASSUME TypeInv, SignInv, NEW r \in Requests, NEW key \in Keys, ClearToken(r, key)
  PROVE  Stored'
  <1>. TypeOK
    BY DEF TypeInv
  <1>1. /\ request[r].step \in {"wipe", "reject"} /\ request'[r].step = request[r].step
        /\ key \in request[r].keys /\ request'[r].keys = request[r].keys \ {key}
        /\ request[r].keys \in SUBSET Keys /\ request'[r].for = request[r].for
        /\ \A q \in Requests \ {r} : request'[q] = request[q]
        /\ UNCHANGED <<isAuthenticated, late, mixed>>
    BY HalfSteps
  <1>2. /\ access' = IF key = "access" THEN NoToken ELSE access
        /\ refresh' = IF key = "refresh" THEN NoToken ELSE refresh
        /\ torn' = torn
    BY DEF ClearToken, history
  <1>3. HalvesStored'
    <2>1. ASSUME ~mixed, NEW q \in Requests, In(q, "store")' PROVE FALSE
      <3>1. q # r /\ Opens(q)
        BY <1>1, <2>1 DEF In, Opens
      <3>. QED
        BY <1>1, <2>1, <3>1 DEF SignInv, Openings, OpensAlone, In
    <2>. QED
      BY <1>1, <2>1 DEF HalvesStored
  <1>4. \A q \in Requests : /\ In(q, "rotate")' <=> In(q, "rotate")
                            /\ In(q, "rotate") => request'[q] = request[q]
    BY <1>1 DEF In
  <1>5. ASSUME PairStored PROVE PairStored'
    <2>1. CASE key = "access"
      BY <1>2, <1>4, <2>1 DEF PairStored, OnePair, AccessRotated, AccessCleared
    <2>2. CASE key = "refresh"
      <3>1. HalfCleared(r)' \/ RefreshLeft(r)
        BY <1>1, <2>2 DEF HalfCleared, RefreshLeft, Clearing, In, Keys
      <3>2. \A q \in Requests : RefreshLeft(q)' => RefreshLeft(q)
        BY <1>1, <2>2 DEF RefreshLeft, Clearing, In
      <3>3. access' = access /\ refresh' = NoToken
        BY <1>2, <2>2
      <3>4. OnePair'
        BY <1>4, <1>5, <3>1, <3>3 DEF PairStored, OnePair, AccessCleared
      <3>5. AccessRotated' /\ AccessCleared'
        BY <1>4, <1>5, <3>2, <3>3 DEF PairStored, AccessRotated, AccessCleared
      <3>. QED
        BY <3>4, <3>5 DEF PairStored
    <2>. QED
      BY <2>1, <2>2 DEF Keys
  <1>6. ASSUME SigningStored PROVE SigningStored'
    <2>1. Signing' => Signing
      BY <1>1 DEF Signing, Aims
    <2>2. \A q \in Requests : Ends(q) => Ends(q)'
      BY <1>1 DEF Ends, Aims, In, NotYet, Sent
    <2>3. r \notin late
      BY <1>1 DEF SignInv, LateQueued, In
    <2>4. CASE request[r].step = "wipe" /\ request[r].for = "login"
      <3>1. Opens(r) /\ ~Aims(r, {"me", "init"})
        BY <2>4 DEF Opens, Aims, NotYet, Sent
      <3>2. ~Signing
        BY <3>1 DEF SignInv, Openings, OneOpening, Signing, Opens
      <3>. QED
        BY <2>1, <3>2 DEF SigningStored
    <2>5. CASE ~(request[r].step = "wipe" /\ request[r].for = "login")
      <3>1. Ends(r)
        BY <1>1, <2>3, <2>5 DEF Ends, In
      <3>. QED
        BY <2>2, <3>1 DEF SigningStored
    <2>. QED
      BY <2>4, <2>5
  <1>. QED
    BY <1>1, <1>2, <1>3, <1>5, <1>6, StoredKept DEF SignInv

(* A token of a pair is stored: the login is alone, or what is stored may  *)
(* be mixed. *)
LEMMA StoredOfStore ==
  ASSUME TypeInv, SignInv, NEW r \in Requests, NEW key \in Keys, StoreToken(r, key)
  PROVE  Stored'
  <1>. TypeOK
    BY DEF TypeInv
  <1>1. /\ request[r].step = "store" /\ request'[r].step = "store"
        /\ key \in request[r].keys /\ request'[r].keys = request[r].keys \ {key}
        /\ request[r].keys \in SUBSET Keys /\ request'[r].token = request[r].token
        /\ \A q \in Requests \ {r} : request'[q] = request[q]
        /\ UNCHANGED <<isAuthenticated, mixed>>
    BY HalfSteps
  <1>2. /\ access' = IF key = "access" THEN request[r].token ELSE access
        /\ refresh' = IF key = "refresh" THEN request[r].token ELSE refresh
    BY DEF StoreToken
  <1>3. CASE mixed
    BY <1>1, <1>3 DEF Stored, HalvesStored, Sure
  <1>4. CASE ~mixed
    <2>1. ~isAuthenticated /\ \A q \in Requests \ {r} : request'[q].step = "idle"
      BY <1>1, <1>4 DEF SignInv, Openings, OneOpening, OpensAlone, Opens, In
    <2>2. /\ "access" \notin request[r].keys => access = request[r].token
          /\ "refresh" \notin request[r].keys => refresh = request[r].token
      BY <1>1, <1>4 DEF SignInv, Stored, HalvesStored, In
    <2>3. /\ "access" \notin request'[r].keys => access' = request[r].token
          /\ "refresh" \notin request'[r].keys => refresh' = request[r].token
      BY <1>1, <1>2, <2>2 DEF Keys
    <2>4. HalvesStored'
      BY <1>1, <2>1, <2>3 DEF HalvesStored, In
    <2>5. OnePair'
      <3>1. CASE request'[r].keys = {}
        BY <2>3, <3>1 DEF OnePair
      <3>2. CASE request'[r].keys # {}
        BY <1>1, <3>2 DEF OnePair, HalfStored, In
      <3>. QED
        BY <3>1, <3>2
    <2>6. AccessRotated' /\ AccessCleared'
      BY <1>1, <2>1 DEF AccessRotated, AccessCleared, RefreshLeft, Clearing, In
    <2>7. SigningStored'
      BY <1>1, <2>1 DEF SigningStored, Signing, Aims, NotYet, Sent
    <2>. QED
      BY <2>4, <2>5, <2>6, <2>7 DEF Stored, PairStored
  <1>. QED
    BY <1>3, <1>4

LEMMA StoredOfLoginStored ==
  ASSUME TypeInv, SignInv, NEW r \in Requests, LoginStored(r)
  PROVE  Stored'
  <1>. TypeOK
    BY DEF TypeInv
  <1>1. /\ In(r, "store") /\ request[r].keys = {}
        /\ UNCHANGED <<access, refresh, isAuthenticated>>
    BY DEF LoginStored
  <1>2. request[r].token \in Tokens
    BY <1>1, RequestFields DEF TypeOK, In
  <1>3. /\ request'[r].step = "new"
        /\ \A q \in Requests \ {r} : request'[q] = request[q]
    BY Became, RequestMoves DEF LoginStored, Purposes
  <1>4. ~mixed' => ~mixed \/ (Alone(r) /\ {access, refresh} = {request[r].token})
    BY Zenon DEF LoginStored
  <1>5. CASE mixed'
    BY <1>5 DEF Stored, HalvesStored, Sure
  <1>6. CASE ~mixed'
    <2>1. /\ \A q \in Requests \ {r} : In(q, "idle")
          /\ access = request[r].token /\ refresh = request[r].token
      <3>1. CASE ~mixed
        BY <1>1, <3>1 DEF SignInv, Openings, OpensAlone, Opens, Stored, HalvesStored, In
      <3>2. CASE Alone(r) /\ {access, refresh} = {request[r].token}
        BY <3>2 DEF Alone
      <3>. QED
        BY <1>4, <1>6, <3>1, <3>2
    <2>2. \A q \in Requests : request'[q].step \in {"idle", "new"}
      BY <1>3, <2>1 DEF In
    <2>3. HalvesStored'
      BY <2>2 DEF HalvesStored, In
    <2>4. PairStored'
      BY <1>1, <2>1, <2>2 DEF PairStored, OnePair, AccessRotated, AccessCleared, RefreshLeft, Clearing, In
    <2>5. SigningStored'
      BY <1>1, <1>2, <2>1, NoTokenIsNone DEF SigningStored
    <2>. QED
      BY <2>3, <2>4, <2>5 DEF Stored
  <1>. QED
    BY <1>5, <1>6

(* A request on its way, and its answer. *)
LEMMA StoredOfRequest ==
  ASSUME TypeInv, SignInv, NEW r \in Requests,
         \/ Send(r) \/ Queue(r) \/ RefreshStart(r) \/ RefreshSucceeds(r)
         \/ ReadRefreshToken(r) /\ refresh # NoToken
         \/ Succeed(r) \/ InitWrongRole(r) \/ Reject(r) \/ RejectRetried(r)
  PROVE  Stored'
  <1>. TypeOK
    BY DEF TypeInv
  <1>1. CASE \/ Send(r) \/ Queue(r) \/ RefreshStart(r) \/ RefreshSucceeds(r)
             \/ ReadRefreshToken(r) /\ refresh # NoToken
    <2>1. /\ Advances(r) /\ ~In(r, "reject") /\ ~In(r, "queued")
          /\ UNCHANGED isAuthenticated
          /\ late' = late \/ Queue(r)
      BY <1>1, AdvanceSteps
    <2>2. access' = access
      BY <1>1, WholeSteps
    <2>3. Queue(r) => late' = late \/ \E q \in Requests : In(q, "reject")
      BY DEF Queue
    <2>4. Queue(r) => late' \subseteq late \cup {r}
      BY DEF Queue
    <2>5. \A q \in Requests : Ends(q) /\ q # r => Ends(q)'
      BY <2>1, <2>4 DEF Ends, Advances, Aims, In
    <2>6. Ends(r) => \E q \in Requests : Ends(q)'
      <3>1. CASE late' = late
        BY <2>1, <3>1 DEF Ends, Advances, Aims, In, NotYet, Sent
      <3>2. CASE \E q \in Requests : In(q, "reject")
        BY <2>1, <2>5, <3>2 DEF Ends
      <3>. QED
        BY <2>1, <2>3, <3>1, <3>2
    <2>7. Signing' => Signing
      BY <2>1 DEF Signing, Advances, Aims
    <2>8. SigningStored => SigningStored'
      BY <2>2, <2>5, <2>6, <2>7 DEF SigningStored
    <2>. QED
      BY <1>1, <2>8, WholeSteps, StoredKept DEF SignInv
  <1>2. CASE Succeed(r) \/ InitWrongRole(r) \/ Reject(r) \/ RejectRetried(r)
    <2>1. /\ request[r].step = "sent" /\ request'[r].step \in {"idle", "wipe"}
          /\ request[r].for = "logout" => request'[r].step = "wipe"
          /\ request'[r].step = "wipe" => request'[r].for # "login"
          /\ \A q \in Requests \ {r} : request'[q] = request[q]
          /\ UNCHANGED <<access, late>>
          /\ isAuthenticated' => isAuthenticated \/ Aims(r, {"me", "init"})
      BY <1>2, AnswerSteps
    <2>2. \A q \in Requests : Ends(q) => Ends(q)'
      BY <2>1 DEF Ends, Aims, In
    <2>3. Signing' => Signing
      BY <2>1 DEF Signing, Aims, NotYet, Sent
    <2>4. SigningStored => SigningStored'
      BY <2>1, <2>2, <2>3 DEF SigningStored
    <2>. QED
      BY <1>2, <2>4, WholeSteps, StoredKept DEF SignInv
  <1>. QED
    BY <1>1, <1>2

(* A refresh ends. *)
LEMMA StoredOfRefresh ==
  ASSUME TypeInv, ReuseInv, SignInv, NEW r \in Requests,
         StoreAccess(r) \/ StoreRefresh(r) \/ Fails(r) \/ ForceLogout(r)
  PROVE  Stored'
  <1>. TypeOK
    BY DEF TypeInv
  <1>1. CASE StoreAccess(r)
    <2>1. /\ Advances(r) /\ UNCHANGED <<torn, mixed, refresh>>
          /\ request'[r].step = "rotate" /\ request'[r].token = request[r].token
          /\ In(r, "access") /\ access' = request[r].token
      BY <1>1, AdvanceSteps, Became DEF StoreAccess, With
    <2>2. /\ request[r].token \in Tokens
          /\ \A q \in Requests \ {r} : request[q].step \notin RefreshSteps
      BY <2>1, Refresher DEF In
    <2>3. \A q \in Requests \ {r} : ~In(q, "rotate")'
      BY <2>1, <2>2 DEF Advances, In, RefreshSteps
    <2>4. PairStored'
      BY <2>1, <2>3 DEF PairStored, OnePair, AccessRotated, AccessCleared, In
    <2>5. ASSUME ~mixed, NEW q \in Requests, In(q, "store")' PROVE FALSE
      <3>1. q # r /\ Opens(q)
        BY <2>1, <2>5 DEF Advances, In, Opens
      <3>. QED
        BY <2>1, <2>5, <3>1 DEF SignInv, Openings, OpensAlone, In
    <2>6. HalvesStored'
      BY <2>1, <2>5 DEF HalvesStored
    <2>. QED
      BY <2>1, <2>2, <2>4, <2>6, NoTokenIsNone DEF Stored, SigningStored
  <1>2. CASE Fails(r)
    <2>1. SigningStored'
      BY <1>2, FailSteps DEF SigningStored, Ends
    <2>. QED
      BY <1>2, <2>1, WholeSteps, StoredKept DEF SignInv
  <1>3. CASE StoreRefresh(r)
    <2>1. /\ In(r, "rotate") /\ refresh' = request[r].token /\ late' = {}
          /\ UNCHANGED <<access, isAuthenticated, torn>>
      BY <1>3, StoreSteps
    <2>2. \A q \in Requests \ {r} : request[q].step \notin RefreshSteps
      BY <2>1, Refresher DEF In
    <2>3. /\ mixed => mixed'
          /\ mixed' \/ access = NoToken \/ \A q \in Requests : ~RefreshLeft(q)
      BY <1>3, StoreMixes
    <2>4. \A q \in Requests : ~In(q, "rotate")'
      BY <1>3, <2>2, StoreSteps DEF In, RefreshSteps
    <2>5. \A q \in Requests : RefreshLeft(q)' => RefreshLeft(q)
      BY <1>3, StoreSteps DEF RefreshLeft, Clearing, In
    <2>6. Sure' /\ Sure /\ PairStored => PairStored'
      BY <2>1, <2>3, <2>4, <2>5 DEF Sure, PairStored, OnePair, AccessRotated, AccessCleared
    <2>7. \A q \in Requests : Ends(q) => Ends(q)'
      BY <1>3, <2>1, StoreSteps DEF Ends, Aims, In, Queued, NotYet, Sent
    <2>8. Signing' => Signing
      BY <1>3, <2>1, StoreSteps DEF Signing, Aims
    <2>9. SigningStored => SigningStored'
      BY <2>1, <2>7, <2>8 DEF SigningStored
    <2>10. ASSUME ~mixed, NEW q \in Requests, In(q, "store")' PROVE FALSE
      <3>1. q # r /\ Opens(q)
        BY <1>3, <2>10, StoreSteps DEF In, Opens
      <3>. QED
        BY <2>1, <2>10, <3>1 DEF SignInv, Openings, OpensAlone, In
    <2>11. HalvesStored'
      BY <2>3, <2>10 DEF HalvesStored
    <2>. QED
      BY <2>1, <2>3, <2>6, <2>9, <2>11 DEF SignInv, Stored, Sure
  <1>4. CASE ForceLogout(r)
    <2>1. PICK g \in Requests \ {r} :
            In(g, "idle") /\ request'[g].step = "new" /\ request'[g].for = "logout"
      BY <1>4, ForceSteps
    <2>2. g \notin late'
      BY <1>4, <2>1, ForceSteps DEF SignInv, LateQueued, In
    <2>3. SigningStored'
      BY <2>1, <2>2 DEF SigningStored, Ends, Aims, NotYet
    <2>. QED
      BY <1>4, <2>3, WholeSteps, StoredKept DEF SignInv
  <1>. QED
    BY <1>1, <1>2, <1>3, <1>4

LEMMA StoredOfWorld ==
  ASSUME TypeInv, ReuseInv, SignInv, Expire \/ Kill \/ UNCHANGED vars
  PROVE  Stored'
  <1>1. CASE Expire \/ UNCHANGED vars
    <2>1. UNCHANGED <<app, history>>
      BY <1>1 DEF Expire, app, history, vars
    <2>. QED
      BY <2>1 DEF app, history, SignInv, Stored, Sure, HalvesStored, PairStored, OnePair, AccessRotated,
         AccessCleared, SigningStored, Signing, HalfStored, HalfCleared, RefreshLeft, Clearing, Ends,
         Aims, In
  <1>2. CASE Kill
    <2>1. ~isAuthenticated' /\ UNCHANGED <<access, refresh>>
      BY <1>2 DEF Kill
    <2>2. \A q \in Requests : request'[q].step = "idle"
      BY <1>2, RequestMoves DEF Kill
    <2>3. ~Signing'
      BY <2>1, <2>2 DEF Signing, Aims, NotYet, Sent
    <2>4. ~torn' => ~torn /\ ~isRefreshing
      BY <1>2, Zenon DEF Kill
    <2>5. ~mixed' => ~mixed /\ \A q \in Requests : ~Halfway(q)
      BY <1>2, Zenon DEF Kill
    <2>6. ~torn' => \A q \in Requests : ~In(q, "rotate")
      BY <2>4 DEF ReuseInv, OneRefresh, In, RefreshSteps
    <2>7. ~mixed' => \A q \in Requests : ~HalfStored(q) /\ ~HalfCleared(q)
      BY <2>5 DEF Halfway, HalfStored, HalfCleared, Keys
    <2>8. Sure' => PairStored'
      BY <2>1, <2>2, <2>4, <2>5, <2>6, <2>7
      DEF SignInv, Stored, Sure, PairStored, OnePair, AccessRotated, AccessCleared, RefreshLeft,
          Clearing, In
    <2>. QED
      BY <2>2, <2>3, <2>8 DEF Stored, SigningStored, HalvesStored, In
  <1>. QED
    BY <1>1, <1>2

LEMMA SignInvInit == Init => SignInv
  BY RequestMoves DEF Init, SignInv, Openings, OneOpening, OpensAlone, LateQueued, Stored, Sure,
     HalvesStored, PairStored, OnePair, AccessRotated, AccessCleared, RefreshLeft, Clearing,
     SigningStored, Signing, Opens, Aims, In, NotYet, Sent

LEMMA SignInvNext ==
  ASSUME TypeInv, ReuseInv, SignInv, [Next]_vars
  PROVE  SignInv'
  <1>1. Openings' /\ LateQueued'
    BY OpeningsNext, LateQueuedNext DEF SignInv
  <1>2. ASSUME NEW r \in Requests, Open(r) \/ Logout(r) \/ Start(r) \/ Login(r) PROVE Stored'
    BY <1>2, StoredOfApp
  <1>3. ASSUME NEW r \in Requests, Progress(r) PROVE Stored'
    BY <1>3, StoredOfLogin, StoredOfStore, StoredOfLoginStored, StoredOfClear, StoredOfRequest,
       StoredOfRefresh DEF Progress, Fails
  <1>4. ASSUME Expire \/ Kill \/ UNCHANGED vars PROVE Stored'
    BY <1>4, StoredOfWorld
  <1>5. Stored'
    BY <1>2, <1>3, <1>4 DEF Next
  <1>. QED
    BY <1>1, <1>5 DEF SignInv

LEMMA SignedInAtRest == SignInv => SignedInHasTokens
  <1> SUFFICES ASSUME SignInv, Sure, isAuthenticated,
                      \A r \in Requests : In(r, "idle") \/ r \in late
               PROVE  access # NoToken /\ access = refresh
    BY DEF SignedInHasTokens, Sure
  <1>1. \A r \in Requests : In(r, "idle") \/ (In(r, "queued") /\ r \in late)
    BY DEF SignInv, LateQueued
  <1>2. \A r \in Requests : ~Ends(r) /\ ~In(r, "rotate") /\ ~HalfStored(r) /\ ~HalfCleared(r)
    BY <1>1 DEF Ends, Aims, HalfStored, HalfCleared, Clearing, In, NotYet, Sent
  <1>. QED
    BY <1>2 DEF SignInv, Stored, PairStored, OnePair, SigningStored, Signing

(* An app whose screens are shown has both tokens of one session, once     *)
(* nothing is under way, whatever was refreshed, refused, logged out and   *)
(* started anew in between, and in whatever order the two writes of a pair *)
(* and the two deletions of a logout end; unless what is stored may be     *)
(* mixed: a login crossed the logout of the one before, a refresh stored a *)
(* pair between the two deletions of a logout, or the app was killed       *)
(* between the two writes of a pair (auth.ts:15-35, api.ts:111-130,        *)
(* auth.store.ts:107-116). *)
THEOREM MobileClientSignedInHasTokens == Spec => []SignedInHasTokens
  <1>1. Spec => [](TypeInv /\ ReuseInv)
    BY ReuseInvAlways
  <1>2. TypeInv /\ ReuseInv /\ SignInv /\ [Next]_vars => SignInv'
    BY SignInvNext
  <1>. QED
    BY <1>1, <1>2, SignInvInit, SignedInAtRest, PTL DEF Spec

-----------------------------------------------------------------------------
(* Sequences of requests: one taken out, others put behind.                *)
Without(s, i) == SubSeq(s, 1, i - 1) \o SubSeq(s, i + 1, Len(s))
Old(i, k) == IF k < i THEN k ELSE k + 1

LEMMA SeqOf ==
  ASSUME NEW S, NEW s \in Seq(S)
  PROVE  /\ Len(s) \in Nat /\ DOMAIN s = 1..Len(s)
         /\ \A k \in 1..Len(s) : s[k] \in S
         /\ s = [k \in 1..Len(s) |-> s[k]]
  OBVIOUS

LEMMA WithoutOne ==
  ASSUME NEW S, NEW s \in Seq(S), NEW i \in 1..Len(s)
  PROVE  LET t == Without(s, i) IN
         /\ t \in Seq(S) /\ Len(t) = Len(s) - 1
         /\ \A k \in 1..Len(t) : Old(i, k) \in 1..Len(s) /\ t[k] = s[Old(i, k)]
  <1>. DEFINE a == SubSeq(s, 1, i - 1)
              b == SubSeq(s, i + 1, Len(s))
  <1>1. Len(s) \in Nat /\ i \in Nat /\ i >= 1 /\ i <= Len(s)
    BY SeqOf
  <1>2. a \in Seq(S) /\ Len(a) = i - 1 /\ \A k \in 1..(i - 1) : a[k] = s[k]
    BY <1>1, SubSeqProperties
  <1>3. b \in Seq(S) /\ Len(b) = Len(s) - i /\ \A k \in 1..(Len(s) - i) : b[k] = s[i + k]
    BY <1>1, SubSeqProperties
  <1>. HIDE DEF a, b
  <1>4. /\ a \o b \in Seq(S) /\ Len(a \o b) = Len(a) + Len(b)
        /\ \A k \in 1..(Len(a) + Len(b)) : (a \o b)[k] = IF k <= Len(a) THEN a[k] ELSE b[k - Len(a)]
    BY <1>2, <1>3, ConcatProperties
  <1>. DEFINE t == a \o b
  <1>. HIDE DEF t
  <1>5. t \in Seq(S) /\ Len(t) = Len(s) - 1
    BY <1>1, <1>2, <1>3, <1>4 DEF t
  <1>6. ASSUME NEW k \in 1..Len(t) PROVE Old(i, k) \in 1..Len(s) /\ t[k] = s[Old(i, k)]
    <2>1. k \in Nat /\ k >= 1 /\ k <= Len(s) - 1
      BY <1>1, <1>5
    <2>2. CASE k < i
      <3>1. t[k] = a[k] /\ a[k] = s[k]
        BY <1>1, <1>2, <1>3, <1>4, <2>1, <2>2 DEF t
      <3>. QED
        BY <1>1, <2>1, <2>2, <3>1 DEF Old
    <2>3. CASE ~(k < i)
      <3>1. k - (i - 1) \in 1..(Len(s) - i) /\ i + (k - (i - 1)) = k + 1
        BY <1>1, <2>1, <2>3
      <3>2. t[k] = b[k - (i - 1)]
        BY <1>1, <1>2, <1>3, <1>4, <2>1, <2>3 DEF t
      <3>3. b[k - (i - 1)] = s[k + 1]
        BY <1>3, <3>1
      <3>. QED
        BY <1>1, <2>1, <2>3, <3>2, <3>3 DEF Old
    <2>. QED
      BY <2>2, <2>3
  <1>7. Without(s, i) = t
    BY DEF t, a, b, Without
  <1>. QED
    BY <1>5, <1>6, <1>7

(* The sequence of a finite set has each of its elements.                  *)
LEMMA EachInSeq ==
  ASSUME NEW S, IsFiniteSet(S)
  PROVE  LET f == Screens!SetToSeq(S) IN
         f \in Seq(S) /\ \A x \in S : \E k \in 1..Len(f) : f[k] = x
  <1>. DEFINE n == Cardinality(S)
              f == Screens!SetToSeq(S)
  <1>1. n \in Nat /\ ExistsBijection(1..n, S)
    BY FS_CardinalityType
  <1>2. \E g \in [1..n -> S] : Screens!IsInjective(g)
    BY <1>1 DEF ExistsBijection, Bijection, Injection, IsInjective, Screens!IsInjective
  <1>3. Screens!SetToSeq(S) = CHOOSE g \in [1..n -> S] : Screens!IsInjective(g)
    BY DEF Screens!SetToSeq, Screens!Cardinality, Cardinality
  <1>4. f \in [1..n -> S] /\ Screens!IsInjective(f)
    BY <1>2, <1>3
  <1>. HIDE DEF n, f
  <1>5. f \in Seq(S) /\ Len(f) = n
    BY <1>1, <1>4
  <1>. DEFINE R == {f[k] : k \in 1..n}
  <1>6. R \subseteq S
    BY <1>4
  <1>7. ExistsBijection(1..n, R)
    <2>1. f \in [1..n -> R]
      BY <1>4
    <2>2. f \in Bijection(1..n, R)
      BY <1>4, <2>1 DEF Bijection, Injection, Surjection, IsInjective, Screens!IsInjective
    <2>. QED
      BY <2>2 DEF ExistsBijection
  <1>. HIDE DEF R
  <1>8. Cardinality(R) = n
    BY <1>1, <1>7, FS_CountingElements
  <1>9. R = S
    BY <1>6, <1>8, FS_Subset DEF n
  <1>. QED
    BY <1>5, <1>9 DEF R, f

-----------------------------------------------------------------------------
(* The requests of a page. In what is pending, the loads of a list that    *)
(* come too late were sent before those that do not.                       *)
IsRequest(r) ==
  /\ r = [kind |-> r.kind, of |-> r.of, choice |-> r.choice, outdated |-> r.outdated,
          late |-> r.late, past |-> r.past]
  /\ r.late \in BOOLEAN
  /\ r.kind = "load" => r.of \in Screens!Lists
  /\ r.kind # "load" => r.kind = "do" /\ r.of \in DOMAIN Screens!Page.does

IsLoad(r) == r.kind = "load"
InTime(r) == IsLoad(r) /\ ~r.late

Entries(p) == {p[k] : k \in DOMAIN p}
Awaited(p) == {p[k].of : k \in {j \in DOMAIN p : InTime(p[j])}}
LateFirst(p) ==
  \A j, k \in DOMAIN p :
    j < k /\ IsLoad(p[j]) /\ IsLoad(p[k]) /\ p[j].of = p[k].of /\ p[k].late => p[j].late

Sound(p) ==
  /\ p \in Seq(Entries(p)) /\ \A k \in DOMAIN p : IsRequest(p[k])
  /\ LateFirst(p)

LEMMA SoundSeq ==
  ASSUME NEW S, NEW p \in Seq(S), \A k \in 1..Len(p) : IsRequest(p[k]), LateFirst(p)
  PROVE  Sound(p)
  <1>1. Len(p) \in Nat /\ DOMAIN p = 1..Len(p) /\ p = [k \in 1..Len(p) |-> p[k]]
    BY SeqOf
  <1>2. p \in [1..Len(p) -> Entries(p)]
    BY <1>1 DEF Entries
  <1>3. p \in Seq(Entries(p))
    BY <1>1, <1>2
  <1>4. \A k \in DOMAIN p : IsRequest(p[k])
    BY <1>1
  <1>. QED
    BY <1>3, <1>4 DEF Sound

LEMMA SoundDomain ==
  ASSUME NEW p, Sound(p)
  PROVE  Len(p) \in Nat /\ DOMAIN p = 1..Len(p) /\ p \in Seq(Entries(p))
  <1>1. p \in Seq(Entries(p))
    BY DEF Sound
  <1>. QED
    BY <1>1, SeqOf

LEMMA NothingSound == Sound(<<>>) /\ Awaited(<<>>) = {}
  <1>1. DOMAIN <<>> = {} /\ <<>> \in Seq(Entries(<<>>))
    OBVIOUS
  <1>. QED
    BY <1>1 DEF Sound, LateFirst, Awaited

LEMMA OldReaches ==
  ASSUME NEW n \in Nat, NEW i \in 1..n, NEW j \in (1..n) \ {i}
  PROVE  \E k \in 1..(n - 1) : Old(i, k) = j
  <1>1. CASE j < i
    <2>1. j \in 1..(n - 1) /\ Old(i, j) = j
      BY <1>1 DEF Old
    <2>. QED
      BY <2>1
  <1>2. CASE j > i
    <2>1. j - 1 \in 1..(n - 1) /\ Old(i, j - 1) = j
      BY <1>2 DEF Old
    <2>. QED
      BY <2>1
  <1>. QED
    BY <1>1, <1>2

LEMMA OneTaken ==
  ASSUME NEW p, Sound(p), NEW i \in DOMAIN p
  PROVE  LET q == Screens!RemoveAt(p, i) IN
         /\ Sound(q) /\ DOMAIN q = 1..(Len(p) - 1)
         /\ \A k \in DOMAIN q : Old(i, k) \in DOMAIN p /\ q[k] = p[Old(i, k)]
         /\ \A j \in DOMAIN p \ {i} : InTime(p[j]) => p[j].of \in Awaited(q)
         /\ Awaited(q) \subseteq Awaited(p)
  <1>. DEFINE q == Without(p, i)
  <1>1. Len(p) \in Nat /\ DOMAIN p = 1..Len(p) /\ p \in Seq(Entries(p))
    BY SoundDomain
  <1>2. /\ q \in Seq(Entries(p)) /\ Len(q) = Len(p) - 1
        /\ \A k \in 1..Len(q) : Old(i, k) \in 1..Len(p) /\ q[k] = p[Old(i, k)]
    <2>1. i \in 1..Len(p)
      BY <1>1
    <2>. HIDE DEF q
    <2>. QED
      BY <1>1, <2>1, WithoutOne DEF q
  <1>. HIDE DEF q
  <1>3. DOMAIN q = 1..Len(q)
    BY <1>2, SeqOf
  <1>4. \A k \in 1..Len(q) : IsRequest(q[k])
    BY <1>1, <1>2 DEF Sound
  <1>5. LateFirst(q)
    <2>1. ASSUME NEW j \in 1..Len(q), NEW k \in 1..Len(q), j < k PROVE Old(i, j) < Old(i, k)
      BY <1>1, <2>1 DEF Old
    <2>. QED
      BY <1>1, <1>2, <1>3, <2>1 DEF LateFirst, Sound
  <1>6. Sound(q)
    BY <1>2, <1>4, <1>5, SoundSeq
  <1>7. ASSUME NEW j \in DOMAIN p \ {i}, InTime(p[j]) PROVE p[j].of \in Awaited(q)
    <2>1. PICK k \in 1..Len(q) : Old(i, k) = j
      BY <1>1, <1>2, OldReaches
    <2>. QED
      BY <1>2, <1>3, <1>7, <2>1 DEF Awaited
  <1>8. Awaited(q) \subseteq Awaited(p)
    BY <1>1, <1>2, <1>3 DEF Awaited
  <1>9. Screens!RemoveAt(p, i) = q
    BY DEF q, Without, Screens!RemoveAt
  <1>. QED
    BY <1>2, <1>3, <1>6, <1>7, <1>8, <1>9

(* Marks on requests that leave the late ones first.                       *)
LEMMA Marked ==
  ASSUME NEW p, Sound(p), NEW q, q = [k \in DOMAIN p |-> q[k]],
         \A k \in DOMAIN p : IsRequest(q[k]), LateFirst(q)
  PROVE  Sound(q)
  <1>1. Len(p) \in Nat /\ DOMAIN p = 1..Len(p)
    BY SoundDomain
  <1>2. DOMAIN q = 1..Len(p)
    BY <1>1
  <1>3. q \in [1..Len(p) -> Entries(q)]
    BY <1>1, <1>2 DEF Entries
  <1>4. q \in Seq(Entries(q)) /\ Len(q) = Len(p)
    BY <1>1, <1>3
  <1>. QED
    BY <1>1, <1>2, <1>4 DEF Sound

(* New loads come last, and in time.                                       *)
LEMMA LoadRequestIs ==
  ASSUME NEW l \in Screens!Lists, NEW choice, NEW past
  PROVE  LET r == Screens!LoadRequest(l, choice, past) IN
         /\ IsRequest(r) /\ InTime(r) /\ r.of = l /\ ~r.late /\ IsLoad(r) /\ r.past = past
         /\ r.choice = Screens!Only(choice, Screens!LoadOf(l).sends)
  BY DEF Screens!LoadRequest, IsRequest, InTime, IsLoad

Behind(p, q, lists, S) ==
  /\ Sound(q) /\ Awaited(q) = Awaited(p) \cup lists
  /\ \A k \in DOMAIN p : k \in DOMAIN q /\ q[k] = p[k]
  /\ \A k \in DOMAIN q \ DOMAIN p : q[k] \in S /\ IsLoad(q[k])
  /\ \A l \in lists : \E k \in DOMAIN q \ DOMAIN p : InTime(q[k]) /\ q[k].of = l
  /\ \A j \in DOMAIN p, k \in DOMAIN q \ DOMAIN p : j < k
NewLoads(lists, choice, past) == {Screens!LoadRequest(l, choice, past[l]) : l \in lists}

LEMMA LoadsBehind ==
  ASSUME NEW p, Sound(p), NEW lists \in SUBSET Screens!Lists, IsFiniteSet(lists), NEW choice,
         NEW past, NEW S, S = NewLoads(lists, choice, past), NEW q, q = p \o Screens!SetToSeq(S)
  PROVE  Behind(p, q, lists, S)
  <1>. DEFINE f == Screens!SetToSeq(S)
              all == Entries(p) \cup S
  <1>14. q = p \o f /\ S = {Screens!LoadRequest(l, choice, past[l]) : l \in lists}
    BY DEF NewLoads
  <1>1. Len(p) \in Nat /\ DOMAIN p = 1..Len(p) /\ p \in Seq(Entries(p))
    BY SoundDomain
  <1>2. IsFiniteSet(S)
    <2>. DEFINE g == [l \in lists |-> Screens!LoadRequest(l, choice, past[l])]
    <2>1. g \in Surjection(lists, S)
      BY <1>14 DEF Surjection
    <2>. HIDE DEF g
    <2>. QED
      BY <2>1, FS_Surjection
  <1>3. f \in Seq(S) /\ \A x \in S : \E k \in 1..Len(f) : f[k] = x
    BY <1>2, EachInSeq
  <1>. HIDE DEF f
  <1>4. p \in Seq(all) /\ f \in Seq(all) /\ Len(f) \in Nat
    BY <1>1, <1>3
  <1>. HIDE DEF all
  <1>5. /\ q \in Seq(all) /\ Len(q) = Len(p) + Len(f)
        /\ \A k \in 1..(Len(p) + Len(f)) : q[k] = IF k <= Len(p) THEN p[k] ELSE f[k - Len(p)]
    BY <1>4, <1>14, ConcatProperties
  <1>6. DOMAIN q = 1..(Len(p) + Len(f))
    BY <1>5, SeqOf
  <1>7. \A k \in DOMAIN p : k \in DOMAIN q /\ q[k] = p[k]
    BY <1>1, <1>4, <1>5, <1>6
  <1>8. ASSUME NEW k \in DOMAIN q \ DOMAIN p PROVE q[k] \in S
    <2>1. k - Len(p) \in 1..Len(f) /\ ~(k <= Len(p)) /\ k \in 1..(Len(p) + Len(f))
      BY <1>1, <1>4, <1>6, <1>8
    <2>2. q[k] = f[k - Len(p)]
      BY <1>5, <2>1
    <2>3. f[k - Len(p)] \in S
      BY <1>3, <2>1, SeqOf
    <2>. QED
      BY <2>2, <2>3
  <1>9. \A x \in S : IsRequest(x) /\ InTime(x) /\ ~x.late /\ IsLoad(x) /\ x.of \in lists
    BY <1>14, LoadRequestIs
  <1>10. Sound(q)
    <2>1. \A k \in 1..Len(q) : IsRequest(q[k])
      BY <1>5, <1>6, <1>7, <1>8, <1>9 DEF Sound
    <2>2. LateFirst(q)
      <3>1. ASSUME NEW j \in DOMAIN q, NEW k \in DOMAIN q, j < k, IsLoad(q[j]), IsLoad(q[k]),
                   q[j].of = q[k].of, q[k].late
            PROVE  q[j].late
        <4>1. k \in DOMAIN p
          BY <1>8, <1>9, <3>1
        <4>2. j \in DOMAIN p
          BY <1>1, <1>4, <1>6, <3>1, <4>1
        <4>. QED
          BY <1>7, <3>1, <4>1, <4>2 DEF Sound, LateFirst
      <3>. QED
        BY <3>1 DEF LateFirst
    <2>. QED
      BY <1>5, <2>1, <2>2, SoundSeq
  <1>12. ASSUME NEW l \in lists PROVE \E k \in DOMAIN q \ DOMAIN p : InTime(q[k]) /\ q[k].of = l
    <2>. DEFINE r == Screens!LoadRequest(l, choice, past[l])
    <2>1. r \in S /\ InTime(r) /\ r.of = l
      <3>1. r \in S
        BY <1>14
      <3>. QED
        BY <3>1, LoadRequestIs
    <2>. HIDE DEF r
    <2>2. PICK k \in 1..Len(f) : f[k] = r
      BY <1>3, <2>1
    <2>3. /\ Len(p) + k \in DOMAIN q \ DOMAIN p
          /\ ~(Len(p) + k <= Len(p)) /\ Len(p) + k - Len(p) = k
      BY <1>1, <1>4, <1>6
    <2>4. q[Len(p) + k] = r
      <3>. DEFINE u == Len(p) + k
      <3>1. u \in 1..(Len(p) + Len(f)) /\ ~(u <= Len(p)) /\ u - Len(p) = k
        BY <1>6, <2>3
      <3>. HIDE DEF u
      <3>2. q[u] = f[u - Len(p)]
        BY <1>5, <3>1
      <3>3. q[u] = r
        BY <2>2, <3>1, <3>2
      <3>. QED
        BY <3>3 DEF u
    <2>. QED
      BY <2>1, <2>3, <2>4
  <1>13. \A j \in DOMAIN p, k \in DOMAIN q \ DOMAIN p : j < k
    BY <1>1, <1>4, <1>6
  <1>11. Awaited(q) = Awaited(p) \cup lists
    <2>1. Awaited(q) \subseteq Awaited(p) \cup lists
      <3>1. \A k \in DOMAIN q \ DOMAIN p : q[k].of \in lists
        BY <1>8, <1>9
      <3>. QED
        BY <1>7, <3>1 DEF Awaited
    <2>2. Awaited(p) \subseteq Awaited(q)
      BY <1>7 DEF Awaited
    <2>3. lists \subseteq Awaited(q)
      BY <1>12 DEF Awaited
    <2>. QED
      BY <2>1, <2>2, <2>3
  <1>. QED
    BY <1>7, <1>8, <1>9, <1>10, <1>11, <1>12, <1>13 DEF Behind

(* A handler's request comes last, and is no load.                         *)
LEMMA DoBehind ==
  ASSUME NEW p, Sound(p), NEW r, IsRequest(r), ~IsLoad(r)
  PROVE  LET q == Append(p, r) IN
         /\ Sound(q) /\ Awaited(q) = Awaited(p)
         /\ DOMAIN q = 1..(Len(p) + 1) /\ q[Len(p) + 1] = r
         /\ \A k \in DOMAIN p : k \in DOMAIN q /\ q[k] = p[k]
  <1>. DEFINE q == Append(p, r)
              all == Entries(p) \cup {r}
  <1>1. Len(p) \in Nat /\ DOMAIN p = 1..Len(p) /\ p \in Seq(Entries(p))
    BY SoundDomain
  <1>2. p \in Seq(all)
    BY <1>1
  <1>3. /\ q \in Seq(all) /\ Len(q) = Len(p) + 1 /\ q[Len(p) + 1] = r
        /\ \A k \in 1..Len(p) : q[k] = p[k]
    <2>1. r \in all
      OBVIOUS
    <2>. HIDE DEF all
    <2>. QED
      BY <1>2, <2>1, AppendProperties
  <1>. HIDE DEF q, all
  <1>4. DOMAIN q = 1..(Len(p) + 1)
    BY <1>3, SeqOf
  <1>5. \A k \in DOMAIN q : k \in DOMAIN p \/ k = Len(p) + 1
    BY <1>1, <1>4
  <1>6. \A k \in DOMAIN p : k \in DOMAIN q /\ q[k] = p[k]
    BY <1>1, <1>3, <1>4
  <1>7. Sound(q)
    <2>1. \A k \in 1..Len(q) : IsRequest(q[k])
      BY <1>3, <1>4, <1>5, <1>6 DEF Sound
    <2>2. LateFirst(q)
      BY <1>3, <1>5, <1>6 DEF Sound, LateFirst
    <2>. QED
      BY <1>3, <2>1, <2>2, SoundSeq
  <1>8. Awaited(q) = Awaited(p)
    BY <1>3, <1>5, <1>6 DEF Awaited, InTime
  <1>. QED
    BY <1>3, <1>4, <1>6, <1>7, <1>8 DEF q

LEMMA MarkedRequest ==
  ASSUME NEW r, IsRequest(r)
  PROVE  /\ LET q == [r EXCEPT !.late = TRUE] IN
            /\ IsRequest(q) /\ q.kind = r.kind /\ q.of = r.of /\ q.late
            /\ q.choice = r.choice /\ q.past = r.past
         /\ LET q == [r EXCEPT !.outdated = TRUE] IN
            /\ IsRequest(q) /\ q.kind = r.kind /\ q.of = r.of /\ q.late = r.late
            /\ q.choice = r.choice /\ q.past = r.past
  <1>1. ASSUME NEW v \in BOOLEAN
        PROVE  LET q == [r EXCEPT !.late = v] IN
               /\ IsRequest(q) /\ q.kind = r.kind /\ q.of = r.of /\ q.late = v
               /\ q.choice = r.choice /\ q.past = r.past
    BY DEF IsRequest
  <1>2. ASSUME NEW v
        PROVE  LET q == [r EXCEPT !.outdated = v] IN
               /\ IsRequest(q) /\ q.kind = r.kind /\ q.of = r.of /\ q.late = r.late
               /\ q.choice = r.choice /\ q.past = r.past
    BY DEF IsRequest
  <1>. QED
    BY <1>1, <1>2

(* The loads of a list that were sent before the i-th come too late for    *)
(* its answer. *)
Passed(j, i) ==
  IsLoad(pending[i]) /\ j < i /\ IsLoad(pending[j]) /\ pending[j].of = pending[i].of

(* A request that is answered makes the loads of its list late that were   *)
(* sent before it.                                                         *)
LEMMA OneAnswered ==
  ASSUME Sound(pending), NEW i \in DOMAIN pending
  PROVE  LET q == Screens!Overtaken(i) IN
         /\ Sound(q)
         /\ \A k \in DOMAIN q : /\ Old(i, k) \in DOMAIN pending
                                /\ q[k].kind = pending[Old(i, k)].kind
                                /\ q[k].of = pending[Old(i, k)].of
                                /\ q[k].choice = pending[Old(i, k)].choice
                                /\ q[k].past = pending[Old(i, k)].past
                                /\ q[k].late <=> pending[Old(i, k)].late \/ Passed(Old(i, k), i)
         /\ DOMAIN q = 1..(Len(pending) - 1)
         /\ \A j \in DOMAIN pending \ {i} :
              /\ InTime(pending[j])
              /\ IsLoad(pending[i]) /\ j < i => pending[j].of # pending[i].of
              => pending[j].of \in Awaited(q)
  <1>. DEFINE Late(j) == /\ pending[i].kind = "load" /\ j < i
                         /\ j \in Screens!LoadsOf(pending[i].of)
              m == [j \in DOMAIN pending |->
                      IF Late(j) THEN [pending[j] EXCEPT !.late = TRUE] ELSE pending[j]]
              q == Screens!RemoveAt(m, i)
  <1>1. DOMAIN m = DOMAIN pending /\ DOMAIN pending = 1..Len(pending) /\ Len(pending) \in Nat
    BY SoundDomain
  <1>2. ASSUME NEW j \in DOMAIN pending
        PROVE  /\ IsRequest(m[j]) /\ m[j].kind = pending[j].kind /\ m[j].of = pending[j].of
               /\ m[j].late <=> Late(j) \/ pending[j].late
               /\ m[j].choice = pending[j].choice /\ m[j].past = pending[j].past
               /\ ~Late(j) => m[j] = pending[j]
    <2>1. IsRequest(pending[j])
      BY DEF Sound
    <2>2. CASE Late(j)
      <3>. DEFINE marked == [pending[j] EXCEPT !.late = TRUE]
      <3>1. m[j] = marked
        BY <2>2
      <3>2. /\ IsRequest(marked) /\ marked.kind = pending[j].kind /\ marked.of = pending[j].of
            /\ marked.late /\ marked.choice = pending[j].choice /\ marked.past = pending[j].past
        BY <2>1, MarkedRequest
      <3>. HIDE DEF m, Late, marked
      <3>. QED
        BY <2>2, <3>1, <3>2
    <2>3. CASE ~Late(j)
      <3>1. m[j] = pending[j]
        BY <2>3
      <3>. HIDE DEF m, Late
      <3>. QED
        BY <2>1, <2>3, <3>1
    <2>. QED
      BY <2>2, <2>3
  <1>3. m = [j \in DOMAIN pending |-> m[j]]
    OBVIOUS
  <1>. HIDE DEF m
  <1>4. LateFirst(m)
    <2>1. ASSUME NEW j \in DOMAIN pending, NEW k \in DOMAIN pending, j < k,
                 IsLoad(m[j]), IsLoad(m[k]), m[j].of = m[k].of, m[k].late
          PROVE  m[j].late
      <3>1. CASE Late(k)
        <4>1. Late(j)
          BY <1>1, <1>2, <2>1, <3>1 DEF Screens!LoadsOf, IsLoad
        <4>. QED
          BY <1>2, <4>1
      <3>2. CASE ~Late(k)
        <4>1. pending[k].late
          BY <1>2, <2>1, <3>2
        <4>2. pending[j].late
          BY <1>2, <2>1, <4>1 DEF Sound, LateFirst, IsLoad
        <4>. QED
          BY <1>2, <4>2
      <3>. QED
        BY <3>1, <3>2
    <2>. QED
      BY <1>1, <2>1 DEF LateFirst
  <1>5. Sound(m)
    BY <1>2, <1>3, <1>4, Marked
  <1>6. /\ Sound(q) /\ DOMAIN q = 1..(Len(m) - 1)
        /\ \A k \in DOMAIN q : Old(i, k) \in DOMAIN m /\ q[k] = m[Old(i, k)]
        /\ \A j \in DOMAIN m \ {i} : InTime(m[j]) => m[j].of \in Awaited(q)
    BY <1>1, <1>5, OneTaken
  <1>7. Len(m) = Len(pending)
    BY <1>1, <1>5, SoundDomain
  <1>8. Screens!Overtaken(i) = q
    BY DEF Screens!Overtaken, q, m
  <1>. HIDE DEF q
  <1>9. ASSUME NEW j \in DOMAIN pending \ {i}, InTime(pending[j]),
               IsLoad(pending[i]) /\ j < i => pending[j].of # pending[i].of
        PROVE  pending[j].of \in Awaited(q)
    <2>1. ~Late(j)
      BY <1>9 DEF Screens!LoadsOf, IsLoad
    <2>2. InTime(m[j]) /\ m[j].of = pending[j].of
      BY <1>2, <1>9, <2>1
    <2>. QED
      BY <1>1, <1>6, <2>2
  <1>10. \A k \in DOMAIN q : /\ Old(i, k) \in DOMAIN pending
                             /\ q[k].kind = pending[Old(i, k)].kind
                             /\ q[k].of = pending[Old(i, k)].of
                             /\ q[k].choice = pending[Old(i, k)].choice
                             /\ q[k].past = pending[Old(i, k)].past
                             /\ q[k].late <=> pending[Old(i, k)].late \/ Late(Old(i, k))
    BY <1>1, <1>2, <1>6
  <1>11. \A k \in DOMAIN q : Late(Old(i, k)) <=> Passed(Old(i, k), i)
    BY <1>10 DEF Passed, Screens!LoadsOf, IsLoad
  <1>. HIDE DEF Late
  <1>. QED
    BY <1>6, <1>7, <1>8, <1>9, <1>10, <1>11

-----------------------------------------------------------------------------
(* What is on show. A list whose last load was answered in its turn shows  *)
(* what is chosen, unless a load that is not late is still on its way: to  *)
(* know this of the last load, the late ones must be those sent first, and *)
(* what it was sent for must still be chosen, which the effects of a page  *)
(* see to if they depend on all that they send. *)
UpToDate(l) ==
  shown[l] # Screens!NotShown =>
    /\ l \notin outdated
    /\ Screens!LoadOf(l).asked \/
         \A c \in Screens!LoadOf(l).sends : shown[l].choice[c] = chosen[c]

Matches(r, choice) ==
  Screens!LoadOf(r.of).asked \/ \A c \in Screens!LoadOf(r.of).sends : r.choice[c] = choice[c]
Chosen(p, choice) ==
  \A k \in DOMAIN p : InTime(p[k]) /\ ~p[k].past =>
    \/ Matches(p[k], choice)
    \/ \E j \in DOMAIN p : j > k /\ InTime(p[j]) /\ p[j].of = p[k].of

ScreenSound ==
  /\ name \in DOMAIN Pages
  /\ Sound(pending)
  /\ shown = [l \in Screens!Lists |-> shown[l]]
  /\ chosen = [c \in Screens!ChoicesMade |-> chosen[c]]

ScreenInv ==
  /\ Chosen(pending, chosen)
  /\ \A l \in Screens!Lists \ (astray \cup Awaited(pending)) : UpToDate(l)

LEMMA PageFacts ==
  ASSUME name \in DOMAIN Pages
  PROVE  /\ IsFiniteSet(Screens!Lists)
         /\ \A n \in DOMAIN Screens!Page.does :
              Screens!Does(n).reloads \cup Screens!Does(n).shows \subseteq Screens!Lists
  BY PagesAssumption DEF Screens!Lists, Screens!Page, Screens!LoadOf, Screens!Does

LEMMA CompleteFacts ==
  ASSUME PagesComplete, name \in DOMAIN Pages
  PROVE  /\ \A l \in Screens!Lists :
              Screens!LoadOf(l).asked \/ Screens!LoadOf(l).sends \subseteq Screens!LoadOf(l).on
         /\ \A n \in DOMAIN Screens!Page.does :
              /\ Screens!Does(n).changes \subseteq
                   Screens!Does(n).reloads \cup Screens!Does(n).patches \cup Screens!Does(n).shows
                   \cup Screens!Does(n).leaves
              /\ \A l \in Screens!Does(n).shows : Screens!LoadOf(l).sends = {}
  BY DEF PagesComplete, Screens!Lists, Screens!Page, Screens!LoadOf, Screens!Does

LEMMA SamePage ==
  ASSUME name' = name
  PROVE  /\ Screens!Page' = Screens!Page /\ Screens!Lists' = Screens!Lists
         /\ Screens!ChoicesMade' = Screens!ChoicesMade
         /\ \A l : Screens!LoadOf(l)' = Screens!LoadOf(l)
         /\ \A n : Screens!Does(n)' = Screens!Does(n)
         /\ Sound(pending') => Sound(pending)'
         /\ Chosen(pending', chosen') => Chosen(pending, chosen)'
         /\ Awaited(pending)' = Awaited(pending')
  BY DEF Screens!Page, Screens!Lists, Screens!LoadOf, Screens!Does, Screens!ChoicesMade, Sound,
         IsRequest, LateFirst, IsLoad, Entries, Awaited, InTime, Chosen, Matches

(* What is new behind the others is a load for what is chosen, or no load. *)
LEMMA ChosenBehind ==
  ASSUME NEW p, NEW q, NEW choice, Chosen(p, choice),
         \A k \in DOMAIN p : k \in DOMAIN q /\ q[k] = p[k],
         \A k \in DOMAIN q \ DOMAIN p : InTime(q[k]) /\ ~q[k].past => Matches(q[k], choice)
  PROVE  Chosen(q, choice)
  BY DEF Chosen

(* One is taken out; if it is a load, those it passes are late from then   *)
(* on, or another one in time was sent after it. *)
Taken(p, q, i, marks) ==
  /\ DOMAIN q = 1..(Len(p) - 1)
  /\ \A k \in DOMAIN q :
       /\ Old(i, k) \in DOMAIN p
       /\ q[k].kind = p[Old(i, k)].kind /\ q[k].of = p[Old(i, k)].of
       /\ q[k].choice = p[Old(i, k)].choice /\ q[k].past = p[Old(i, k)].past
       /\ q[k].late <=> \/ p[Old(i, k)].late
                        \/ /\ marks /\ IsLoad(p[i]) /\ Old(i, k) < i
                           /\ IsLoad(p[Old(i, k)]) /\ p[Old(i, k)].of = p[i].of
LaterOne(p, i) ==
  \E j \in DOMAIN p \ {i} : j > i /\ InTime(p[j]) /\ p[j].of = p[i].of

LEMMA ChosenTaken ==
  ASSUME NEW p, NEW q, NEW i \in DOMAIN p, NEW choice, NEW marks \in BOOLEAN,
         Chosen(p, choice), Sound(p), Taken(p, q, i, marks),
         marks \/ ~InTime(p[i]) \/ LaterOne(p, i)
  PROVE  Chosen(q, choice)
  <1>1. Len(p) \in Nat /\ DOMAIN p = 1..Len(p)
    BY SoundDomain
  <1>. SUFFICES ASSUME NEW k \in DOMAIN q, InTime(q[k]), ~q[k].past, ~Matches(q[k], choice)
                PROVE  \E j \in DOMAIN q : j > k /\ InTime(q[j]) /\ q[j].of = q[k].of
    BY DEF Chosen
  <1>. DEFINE o == Old(i, k)
  <1>2. /\ o \in DOMAIN p /\ InTime(p[o]) /\ ~p[o].past /\ p[o].of = q[k].of
        /\ ~Matches(p[o], choice)
        /\ ~(marks /\ IsLoad(p[i]) /\ o < i /\ p[o].of = p[i].of)
    BY DEF InTime, IsLoad, Matches, Taken
  <1>. HIDE DEF o
  <1>3. PICK j \in DOMAIN p : j > o /\ InTime(p[j]) /\ p[j].of = p[o].of
    BY <1>2 DEF Chosen
  <1>4. PICK u \in DOMAIN p \ {i} : /\ u > o /\ InTime(p[u]) /\ p[u].of = p[o].of
                                    /\ ~(marks /\ IsLoad(p[i]) /\ u < i /\ p[u].of = p[i].of)
    <2>1. CASE j # i
      BY <1>1, <1>2, <1>3, <2>1
    <2>2. CASE j = i
      <3>1. ~marks
        BY <1>1, <1>2, <1>3, <2>2 DEF InTime
      <3>2. PICK u \in DOMAIN p \ {i} : u > i /\ InTime(p[u]) /\ p[u].of = p[i].of
        BY <1>3, <2>2, <3>1 DEF LaterOne
      <3>. QED
        BY <1>1, <1>2, <1>3, <2>2, <3>1, <3>2
    <2>. QED
      BY <2>1, <2>2
  <1>5. PICK v \in 1..(Len(p) - 1) : Old(i, v) = u
    <2>1. i \in 1..Len(p) /\ u \in (1..Len(p)) \ {i}
      BY <1>1
    <2>. QED
      BY <1>1, <2>1, OldReaches
  <1>6. InTime(q[v]) /\ q[v].of = q[k].of
    <2>1. v \in DOMAIN q
      BY <1>5 DEF Taken
    <2>. QED
      BY <1>2, <1>4, <1>5, <2>1 DEF InTime, IsLoad, Taken
  <1>7. v > k
    <2>1. k \in Nat /\ v \in Nat /\ i \in Nat /\ Old(i, v) > Old(i, k)
      BY <1>1, <1>4, <1>5 DEF o, Taken
    <2>. QED
      BY <2>1 DEF Old
  <1>8. v \in DOMAIN q
    BY <1>5 DEF Taken
  <1>. QED
    BY <1>6, <1>7, <1>8

(* Nothing on show changes, and no load in time is taken away.             *)
LEMMA ScreenKept ==
  ASSUME ScreenSound, UNCHANGED <<name, chosen, shown, outdated>>, astray \subseteq astray',
         Sound(pending'), Awaited(pending) \subseteq Awaited(pending') \cup astray',
         Chosen(pending, chosen) => Chosen(pending', chosen)
  PROVE  ScreenSound' /\ (ScreenInv => ScreenInv')
  <1>1. ScreenSound'
    BY SamePage DEF ScreenSound
  <1>2. ASSUME ScreenInv, NEW l \in Screens!Lists \ (astray' \cup Awaited(pending')) PROVE UpToDate(l)'
    <2>1. UpToDate(l)
      BY <1>2 DEF ScreenInv
    <2>. QED
      BY <2>1, SamePage DEF UpToDate, Screens!NotShown
  <1>3. ScreenInv => Chosen(pending, chosen)'
    BY SamePage DEF ScreenInv
  <1>. QED
    BY <1>1, <1>2, <1>3, SamePage DEF ScreenInv

LEMMA LoadAllIs ==
  ASSUME NEW p, NEW lists, NEW choice
  PROVE  Screens!LoadAll(lists, choice, p) =
           p \o Screens!SetToSeq({Screens!LoadRequest(l, choice, [m \in lists |-> FALSE][l]) : l \in lists})
  <1>1. \A l \in lists : [m \in lists |-> FALSE][l] = FALSE
    OBVIOUS
  <1>2. {Screens!LoadRequest(l, choice, [m \in lists |-> FALSE][l]) : l \in lists}
          = {Screens!LoadRequest(l, choice, FALSE) : l \in lists}
    BY <1>1
  <1>. QED
    BY <1>2 DEF Screens!LoadAll

(* The loads of an effect, or of a button, are for what is chosen then.    *)
LEMMA AllBehind ==
  ASSUME NEW p, Sound(p), NEW lists \in SUBSET Screens!Lists, IsFiniteSet(lists), NEW choice
  PROVE  LET q == Screens!LoadAll(lists, choice, p) IN
         /\ Sound(q) /\ Awaited(q) = Awaited(p) \cup lists
         /\ \A k \in DOMAIN p : k \in DOMAIN q /\ q[k] = p[k]
         /\ \A k \in DOMAIN q \ DOMAIN p : IsLoad(q[k]) /\ Matches(q[k], choice)
         /\ \A l \in lists : \E k \in DOMAIN q \ DOMAIN p : InTime(q[k]) /\ q[k].of = l
         /\ \A j \in DOMAIN p, k \in DOMAIN q \ DOMAIN p : j < k
  <1>. DEFINE past == [m \in lists |-> FALSE]
              S == {Screens!LoadRequest(l, choice, past[l]) : l \in lists}
              q == Screens!LoadAll(lists, choice, p)
  <1>1. q = p \o Screens!SetToSeq(S)
    BY LoadAllIs
  <1>. HIDE DEF past, q
  <1>2. ASSUME NEW l \in lists PROVE Matches(Screens!LoadRequest(l, choice, past[l]), choice)
    <2>. DEFINE x == Screens!LoadRequest(l, choice, past[l])
    <2>1. l \in Screens!Lists
      OBVIOUS
    <2>2. x.of = l /\ x.choice = Screens!Only(choice, Screens!LoadOf(l).sends)
      BY <2>1, LoadRequestIs
    <2>. HIDE DEF x
    <2>3. \A c \in Screens!LoadOf(x.of).sends : x.choice[c] = choice[c]
      BY <2>2 DEF Screens!Only
    <2>. QED
      BY <2>3 DEF Matches, x
  <1>5. \A x \in S : Matches(x, choice)
    BY <1>2
  <1>6. S = NewLoads(lists, choice, past)
    BY DEF NewLoads
  <1>. HIDE DEF S
  <1>3. /\ Sound(q) /\ Awaited(q) = Awaited(p) \cup lists
        /\ \A k \in DOMAIN p : k \in DOMAIN q /\ q[k] = p[k]
        /\ \A k \in DOMAIN q \ DOMAIN p : q[k] \in S /\ IsLoad(q[k])
        /\ \A l \in lists : \E k \in DOMAIN q \ DOMAIN p : InTime(q[k]) /\ q[k].of = l
        /\ \A j \in DOMAIN p, k \in DOMAIN q \ DOMAIN p : j < k
    <2>1. Behind(p, q, lists, S)
      BY <1>1, <1>6, LoadsBehind, Zenon
    <2>. QED
      BY <2>1 DEF Behind
  <1>4. \A k \in DOMAIN q \ DOMAIN p : Matches(q[k], choice)
    BY <1>3, <1>5
  <1>. QED
    BY <1>3, <1>4 DEF q

(* Those of a handler too, unless they are past.                           *)
LEMMA AgainBehind ==
  ASSUME NEW p, Sound(p), NEW lists \in SUBSET Screens!Lists, IsFiniteSet(lists), NEW choice
  PROVE  LET q == Screens!ReloadAll(lists, choice, p) IN
         /\ Sound(q) /\ Awaited(q) = Awaited(p) \cup lists
         /\ \A k \in DOMAIN p : k \in DOMAIN q /\ q[k] = p[k]
         /\ \A k \in DOMAIN q \ DOMAIN p : IsLoad(q[k]) /\ (~q[k].past => Matches(q[k], chosen))
  <1>. DEFINE past == [m \in lists |-> \E c \in Screens!LoadOf(m).sends : choice[c] # chosen[c]]
              S == {Screens!LoadRequest(l, choice, past[l]) : l \in lists}
              q == Screens!ReloadAll(lists, choice, p)
  <1>1. q = p \o Screens!SetToSeq(S)
    <2>1. \A l \in lists : past[l] = \E c \in Screens!LoadOf(l).sends : choice[c] # chosen[c]
      OBVIOUS
    <2>2. S = {Screens!LoadRequest(l, choice,
                 \E c \in Screens!LoadOf(l).sends : choice[c] # chosen[c]) : l \in lists}
      BY <2>1
    <2>. QED
      BY <2>2 DEF Screens!ReloadAll
  <1>. HIDE DEF q
  <1>2. ASSUME NEW l \in lists, ~Screens!LoadRequest(l, choice, past[l]).past
        PROVE  Matches(Screens!LoadRequest(l, choice, past[l]), chosen)
    <2>. DEFINE x == Screens!LoadRequest(l, choice, past[l])
    <2>1. ~past[l] => \A c \in Screens!LoadOf(l).sends : choice[c] = chosen[c]
      OBVIOUS
    <2>. HIDE DEF past
    <2>2. l \in Screens!Lists
      OBVIOUS
    <2>3. x.of = l /\ x.choice = Screens!Only(choice, Screens!LoadOf(l).sends) /\ x.past = past[l]
      BY <2>2, LoadRequestIs
    <2>4. ~past[l]
      BY <1>2, <2>3
    <2>. HIDE DEF x
    <2>5. \A c \in Screens!LoadOf(x.of).sends : x.choice[c] = chosen[c]
      BY <2>1, <2>3, <2>4 DEF Screens!Only
    <2>. QED
      BY <2>5 DEF Matches, x
  <1>. HIDE DEF past
  <1>5. \A x \in S : ~x.past => Matches(x, chosen)
    BY <1>2
  <1>6. S = NewLoads(lists, choice, past)
    BY DEF NewLoads
  <1>. HIDE DEF S
  <1>3. /\ Sound(q) /\ Awaited(q) = Awaited(p) \cup lists
        /\ \A k \in DOMAIN p : k \in DOMAIN q /\ q[k] = p[k]
        /\ \A k \in DOMAIN q \ DOMAIN p : q[k] \in S /\ IsLoad(q[k])
    <2>1. Behind(p, q, lists, S)
      BY <1>1, <1>6, LoadsBehind, Zenon
    <2>. QED
      BY <2>1 DEF Behind
  <1>4. \A k \in DOMAIN q \ DOMAIN p : ~q[k].past => Matches(q[k], chosen)
    BY <1>3, <1>5
  <1>. QED
    BY <1>3, <1>4 DEF q

LEMMA ChooseShows ==
  ASSUME ScreenSound, NEW c \in DOMAIN chosen, NEW v, Screens!Choose(c, v)
  PROVE  ScreenSound' /\ (PagesComplete /\ ScreenInv => ScreenInv')
  <1>. DEFINE lists == {l \in Screens!Lists : c \in Screens!LoadOf(l).on}
  <1>1. /\ name' = name /\ shown' = shown /\ outdated' = outdated /\ astray' = astray
        /\ pending' = Screens!LoadAll(lists, chosen', pending)
        /\ chosen' = [chosen EXCEPT ![c] = v]
    BY DEF Screens!Choose
  <1>2. IsFiniteSet(lists)
    BY PageFacts, FS_Subset DEF ScreenSound
  <1>3. Sound(pending) /\ lists \in SUBSET Screens!Lists
    BY DEF ScreenSound
  <1>. HIDE DEF lists
  <1>4. /\ Sound(pending') /\ Awaited(pending') = Awaited(pending) \cup lists
        /\ \A k \in DOMAIN pending : k \in DOMAIN pending' /\ pending'[k] = pending[k]
        /\ \A k \in DOMAIN pending' \ DOMAIN pending : Matches(pending'[k], chosen')
        /\ \A l \in lists : \E k \in DOMAIN pending' \ DOMAIN pending :
             InTime(pending'[k]) /\ pending'[k].of = l
        /\ \A j \in DOMAIN pending, k \in DOMAIN pending' \ DOMAIN pending : j < k
    BY <1>1, <1>2, <1>3, AllBehind
  <1>5. /\ chosen' = [d \in Screens!ChoicesMade |-> chosen'[d]]
        /\ \A d \in Screens!ChoicesMade : d # c => chosen'[d] = chosen[d]
    BY <1>1 DEF ScreenSound
  <1>6. ScreenSound'
    BY <1>1, <1>4, <1>5, SamePage DEF ScreenSound
  <1>9. ASSUME PagesComplete, NEW l \in Screens!Lists, l \notin lists
        PROVE  Screens!LoadOf(l).asked \/ \A d \in Screens!LoadOf(l).sends : chosen'[d] = chosen[d]
    <2>1. Screens!LoadOf(l).sends \subseteq Screens!ChoicesMade
      BY <1>9 DEF Screens!ChoicesMade
    <2>2. Screens!LoadOf(l).asked \/ Screens!LoadOf(l).sends \subseteq Screens!LoadOf(l).on
      BY <1>9, CompleteFacts DEF ScreenSound
    <2>3. c \notin Screens!LoadOf(l).on
      BY <1>9 DEF lists
    <2>. QED
      BY <1>5, <2>1, <2>2, <2>3
  <1>7. ASSUME PagesComplete, ScreenInv, NEW l \in Screens!Lists \ (astray' \cup Awaited(pending'))
        PROVE UpToDate(l)'
    <2>1. UpToDate(l) /\ l \notin lists
      BY <1>1, <1>4, <1>7 DEF ScreenInv
    <2>3. Screens!LoadOf(l).asked \/ \A d \in Screens!LoadOf(l).sends : chosen'[d] = chosen[d]
      BY <1>7, <1>9, <2>1
    <2>. QED
      BY <1>1, <2>1, <2>3, SamePage DEF UpToDate, Screens!NotShown
  <1>8. ASSUME PagesComplete, ScreenInv PROVE Chosen(pending', chosen')
    <2>. SUFFICES ASSUME NEW k \in DOMAIN pending', InTime(pending'[k]), ~pending'[k].past,
                         ~Matches(pending'[k], chosen')
                  PROVE  \E j \in DOMAIN pending' :
                           j > k /\ InTime(pending'[j]) /\ pending'[j].of = pending'[k].of
      BY DEF Chosen
    <2>1. /\ k \in DOMAIN pending /\ pending'[k] = pending[k] /\ pending[k].of \in Screens!Lists
          /\ DOMAIN pending \subseteq Int /\ DOMAIN pending' \subseteq Int
      BY <1>3, <1>4, SoundDomain DEF Sound, IsRequest, InTime, IsLoad
    <2>2. CASE pending[k].of \in lists
      <3>1. PICK j \in DOMAIN pending' \ DOMAIN pending :
              InTime(pending'[j]) /\ pending'[j].of = pending[k].of
        BY <1>4, <2>2
      <3>2. j > k
        BY <1>4, <2>1
      <3>. QED
        BY <2>1, <3>1, <3>2
    <2>3. CASE pending[k].of \notin lists
      <3>1. ~Matches(pending[k], chosen)
        BY <1>8, <1>9, <2>1, <2>3 DEF Matches
      <3>2. PICK j \in DOMAIN pending : j > k /\ InTime(pending[j]) /\ pending[j].of = pending[k].of
        BY <1>8, <2>1, <3>1 DEF ScreenInv, Chosen
      <3>. QED
        BY <1>4, <2>1, <3>2
    <2>. QED
      BY <2>2, <2>3
  <1>. QED
    BY <1>1, <1>6, <1>7, <1>8, SamePage DEF ScreenInv

LEMMA LoadAgainShows ==
  ASSUME ScreenSound, NEW l \in Screens!Lists, Screens!LoadAgain(l)
  PROVE  ScreenSound' /\ (ScreenInv => ScreenInv')
  <1>1. IsFiniteSet({l}) /\ {l} \in SUBSET Screens!Lists
    BY FS_Singleton
  <1>2. /\ Sound(pending') /\ Awaited(pending') = Awaited(pending) \cup {l}
        /\ \A k \in DOMAIN pending : k \in DOMAIN pending' /\ pending'[k] = pending[k]
        /\ \A k \in DOMAIN pending' \ DOMAIN pending : Matches(pending'[k], chosen)
    BY <1>1, AllBehind DEF Screens!LoadAgain, ScreenSound
  <1>3. Chosen(pending, chosen) => Chosen(pending', chosen)
    BY <1>2, ChosenBehind
  <1>. QED
    BY <1>2, <1>3, ScreenKept DEF Screens!LoadAgain

LEMMA PressShows ==
  ASSUME ScreenSound, NEW n \in DOMAIN Screens!Page.does, Screens!Press(n)
  PROVE  ScreenSound' /\ (ScreenInv => ScreenInv')
  <1>. DEFINE new == Screens!DoRequest(n)
  <1>1. IsRequest(new) /\ ~IsLoad(new)
    BY DEF Screens!DoRequest, IsRequest, IsLoad
  <1>5. pending' = Append(pending, new)
    BY DEF Screens!Press
  <1>. HIDE DEF new
  <1>2. /\ Sound(pending') /\ Awaited(pending') = Awaited(pending)
        /\ DOMAIN pending' = 1..(Len(pending) + 1) /\ pending'[Len(pending) + 1] = new
        /\ \A k \in DOMAIN pending : k \in DOMAIN pending' /\ pending'[k] = pending[k]
    BY <1>1, <1>5, DoBehind DEF ScreenSound
  <1>3. \A k \in DOMAIN pending' \ DOMAIN pending : ~InTime(pending'[k])
    <2>1. Len(pending) \in Nat /\ DOMAIN pending = 1..Len(pending)
      BY SoundDomain DEF ScreenSound
    <2>2. \A k \in DOMAIN pending' \ DOMAIN pending : k = Len(pending) + 1
      BY <1>2, <2>1
    <2>. QED
      BY <1>1, <1>2, <2>2 DEF InTime
  <1>4. Chosen(pending, chosen) => Chosen(pending', chosen)
    BY <1>2, <1>3, ChosenBehind
  <1>. QED
    BY <1>2, <1>4, ScreenKept DEF Screens!Press

(* If a load that is in time is not the newest, a later one is in time.    *)
LEMMA LaterInTime ==
  ASSUME Sound(pending), NEW i \in DOMAIN pending, InTime(pending[i]), ~Screens!Newest(i)
  PROVE  LaterOne(pending, i)
  <1>1. Len(pending) \in Nat /\ DOMAIN pending = 1..Len(pending)
    BY SoundDomain
  <1>2. PICK j \in Screens!LoadsOf(pending[i].of) : ~(j <= i)
    BY DEF Screens!Newest, InTime
  <1>3. j \in DOMAIN pending /\ IsLoad(pending[j]) /\ pending[j].of = pending[i].of
    BY <1>2 DEF Screens!LoadsOf, IsLoad
  <1>4. i < j /\ j > i /\ j # i
    BY <1>1, <1>2, <1>3
  <1>5. ~pending[j].late
    BY <1>3, <1>4 DEF Sound, LateFirst, InTime
  <1>. QED
    BY <1>3, <1>4, <1>5 DEF InTime, LaterOne

LEMMA DropShows ==
  ASSUME ScreenSound, NEW i \in DOMAIN pending, Screens!Drop(i)
  PROVE  ScreenSound' /\ (ScreenInv => ScreenInv')
  <1>1. /\ Sound(pending) /\ IsLoad(pending[i]) /\ ~Screens!Newest(i)
        /\ pending' = Screens!RemoveAt(pending, i)
        /\ UNCHANGED <<name, chosen, shown, outdated, astray>>
    BY DEF Screens!Drop, Screens!Dropped, ScreenSound, IsLoad
  <1>2. /\ Sound(pending') /\ DOMAIN pending' = 1..(Len(pending) - 1)
        /\ \A k \in DOMAIN pending' :
             Old(i, k) \in DOMAIN pending /\ pending'[k] = pending[Old(i, k)]
        /\ \A j \in DOMAIN pending \ {i} : InTime(pending[j]) => pending[j].of \in Awaited(pending')
    BY <1>1, OneTaken
  <1>3. ~InTime(pending[i]) \/ LaterOne(pending, i)
    BY <1>1, LaterInTime
  <1>4. Awaited(pending) \subseteq Awaited(pending')
    BY <1>2, <1>3 DEF Awaited, LaterOne
  <1>5. Taken(pending, pending', i, FALSE)
    BY <1>2 DEF Taken
  <1>6. Chosen(pending, chosen) => Chosen(pending', chosen)
    BY <1>1, <1>3, <1>5, ChosenTaken
  <1>. QED
    BY <1>1, <1>2, <1>4, <1>6, ScreenKept

LEMMA AnsweredTaken ==
  ASSUME Sound(pending), NEW i \in DOMAIN pending, pending' = Screens!Overtaken(i)
  PROVE  Chosen(pending, chosen) => Chosen(pending', chosen)
  <1>1. /\ DOMAIN pending' = 1..(Len(pending) - 1)
        /\ \A k \in DOMAIN pending' :
             /\ Old(i, k) \in DOMAIN pending
             /\ pending'[k].kind = pending[Old(i, k)].kind
             /\ pending'[k].of = pending[Old(i, k)].of
             /\ pending'[k].choice = pending[Old(i, k)].choice
             /\ pending'[k].past = pending[Old(i, k)].past
             /\ pending'[k].late <=> pending[Old(i, k)].late \/ Passed(Old(i, k), i)
    BY OneAnswered
  <1>2. Taken(pending, pending', i, TRUE)
    BY <1>1, Zenon DEF Taken, Passed
  <1>. QED
    BY <1>2, ChosenTaken

LEMMA FailedShows ==
  ASSUME ScreenSound, NEW i \in DOMAIN pending, Screens!Failed(i)
  PROVE  ScreenSound' /\ (ScreenInv => ScreenInv')
  <1>1. /\ Sound(pending) /\ pending' = Screens!Overtaken(i)
        /\ UNCHANGED <<name, chosen, shown, outdated>>
        /\ astray' = IF InTime(pending[i]) THEN astray \cup {pending[i].of} ELSE astray
    BY DEF Screens!Failed, ScreenSound, IsLoad, InTime
  <1>2. /\ Sound(pending')
        /\ \A j \in DOMAIN pending \ {i} :
              /\ InTime(pending[j])
              /\ IsLoad(pending[i]) /\ j < i => pending[j].of # pending[i].of
              => pending[j].of \in Awaited(pending')
    BY <1>1, OneAnswered
  <1>3. ASSUME NEW j \in DOMAIN pending, InTime(pending[j])
        PROVE  pending[j].of \in Awaited(pending') \cup astray'
    <2>1. CASE j # i /\ (IsLoad(pending[i]) /\ j < i => pending[j].of # pending[i].of)
      BY <1>2, <1>3, <2>1
    <2>2. CASE j = i
      BY <1>1, <1>3, <2>2
    <2>3. CASE IsLoad(pending[i]) /\ j < i /\ pending[j].of = pending[i].of
      <3>1. ~pending[i].late
        BY <1>1, <1>3, <2>3 DEF Sound, LateFirst, InTime
      <3>. QED
        BY <1>1, <2>3, <3>1 DEF InTime
    <2>. QED
      BY <2>1, <2>2, <2>3
  <1>4. Awaited(pending) \subseteq Awaited(pending') \cup astray'
    BY <1>3 DEF Awaited
  <1>5. Chosen(pending, chosen) => Chosen(pending', chosen)
    BY <1>1, AnsweredTaken
  <1>6. astray \subseteq astray'
    BY <1>1
  <1>. QED
    BY <1>1, <1>2, <1>4, <1>5, <1>6, ScreenKept

(* The answer that settles a list is the one in time with none in time     *)
(* after it, which was sent for what is chosen. *)
LEMMA AnsweredShows ==
  ASSUME ScreenSound, NEW i \in DOMAIN pending, Screens!Answered(i)
  PROVE  ScreenSound' /\ (ScreenInv => ScreenInv')
  <1>. DEFINE r == pending[i]
              shows == Screens!Shown(r.of, r.choice)
              stray == \/ r.late /\ ~Screens!LoadOf(r.of).guarded
                       \/ Screens!Newest(i) /\ (r.outdated \/ r.past)
  <1>1. /\ Sound(pending) /\ IsLoad(r) /\ r.of \in Screens!Lists /\ ~Screens!Dropped(i)
        /\ name' = name /\ chosen' = chosen /\ pending' = Screens!Overtaken(i)
        /\ shown' = [shown EXCEPT ![r.of] = shows]
        /\ outdated' = IF r.outdated THEN outdated \cup {r.of} ELSE outdated \ {r.of}
        /\ astray' = IF stray THEN astray \cup {r.of} ELSE astray \ {r.of}
    BY DEF Screens!Answered, ScreenSound, Sound, IsRequest, IsLoad
  <1>2. /\ Sound(pending')
        /\ \A j \in DOMAIN pending \ {i} :
              InTime(pending[j]) /\ (j < i => pending[j].of # r.of)
              => pending[j].of \in Awaited(pending')
    BY <1>1, OneAnswered
  <1>3. shown' = [l \in Screens!Lists |-> IF l = r.of THEN shows ELSE shown[l]]
    BY <1>1 DEF ScreenSound
  <1>4. ScreenSound'
    BY <1>1, <1>2, <1>3, SamePage DEF ScreenSound
  <1>5. ASSUME ScreenInv, NEW l \in Screens!Lists \ (astray' \cup Awaited(pending')), l = r.of
        PROVE  UpToDate(l)'
    <2>1. ~stray
      BY <1>1, <1>5
    <2>2. InTime(r)
      <3>1. Screens!LoadOf(r.of).guarded => Screens!Newest(i)
        BY <1>1 DEF Screens!Dropped, IsLoad
      <3>2. ~r.late
        BY <2>1, <3>1 DEF Screens!Newest
      <3>. QED
        BY <1>1, <3>2 DEF InTime
    <2>3. ~LaterOne(pending, i)
      <3>1. SUFFICES ASSUME LaterOne(pending, i) PROVE FALSE
        OBVIOUS
      <3>2. PICK j \in DOMAIN pending \ {i} :
              j > i /\ InTime(pending[j]) /\ pending[j].of = r.of
        BY <3>1 DEF LaterOne
      <3>3. ~(j < i)
        BY <1>1, <3>2, SoundDomain
      <3>. QED
        BY <1>2, <1>5, <3>2, <3>3
    <2>4. Screens!Newest(i)
      BY <1>1, <2>2, <2>3, LaterInTime
    <2>5. ~r.outdated /\ ~r.past
      BY <2>1, <2>4
    <2>6. Matches(r, chosen)
      <3>1. \A j \in DOMAIN pending : j > i => j # i
        BY <1>1, SoundDomain
      <3>. QED
        BY <1>5, <2>2, <2>3, <2>5, <3>1 DEF ScreenInv, Chosen, LaterOne
    <2>7. \A c \in Screens!LoadOf(l).sends : shows.choice[c] = r.choice[c]
      BY <1>5 DEF Screens!Shown, Screens!Only
    <2>8. shown'[l] = shows /\ l \notin outdated'
      BY <1>1, <1>3, <1>5, <2>5
    <2>. HIDE DEF shows, r, stray
    <2>9. Screens!LoadOf(l).asked \/ \A c \in Screens!LoadOf(l).sends : shown'[l].choice[c] = chosen'[c]
      BY <1>1, <1>5, <2>6, <2>7, <2>8 DEF Matches
    <2>. QED
      BY <1>1, <2>8, <2>9, SamePage DEF UpToDate
  <1>6. ASSUME ScreenInv, NEW l \in Screens!Lists \ (astray' \cup Awaited(pending')), l # r.of
        PROVE  UpToDate(l)'
    <2>1. l \notin astray
      BY <1>1, <1>6
    <2>2. l \notin Awaited(pending)
      BY <1>1, <1>2, <1>6 DEF Awaited
    <2>3. UpToDate(l)
      BY <1>6, <2>1, <2>2 DEF ScreenInv
    <2>4. shown'[l] = shown[l] /\ (l \in outdated' <=> l \in outdated)
      BY <1>1, <1>3, <1>6
    <2>. QED
      BY <1>1, <2>3, <2>4, SamePage DEF UpToDate, Screens!NotShown
  <1>7. ScreenInv => Chosen(pending', chosen')
    BY <1>1, AnsweredTaken DEF ScreenInv
  <1>. HIDE DEF r, shows, stray
  <1>. QED
    BY <1>1, <1>4, <1>5, <1>6, <1>7, SamePage DEF ScreenInv

(* What a handler that is done leaves of the requests, before its loads.   *)
LEMMA DoneLeaves ==
  ASSUME ScreenSound, NEW i \in DOMAIN pending, Screens!Done(i)
  PROVE  \E rest :
           /\ pending' = Screens!ReloadAll(Screens!Does(pending[i].of).reloads, pending[i].choice, rest)
           /\ Sound(rest) /\ Awaited(pending) \subseteq Awaited(rest)
           /\ Taken(pending, rest, i, FALSE)
  <1>. DEFINE r == pending[i]
              do == Screens!Does(r.of)
              ages(q) == (IF q.kind = "load" THEN {q.of} ELSE Screens!Does(q.of).shows)
                         \cap do.changes # {}
              aged == [j \in DOMAIN pending |->
                         IF ages(pending[j]) THEN [pending[j] EXCEPT !.outdated = TRUE]
                         ELSE pending[j]]
              rest == Screens!RemoveAt(aged, i)
  <1>1. /\ Sound(pending) /\ ~IsLoad(r)
        /\ pending' = Screens!ReloadAll(do.reloads, r.choice, rest)
    BY DEF Screens!Done, ScreenSound, IsLoad
  <1>2. DOMAIN aged = DOMAIN pending /\ aged = [j \in DOMAIN pending |-> aged[j]]
    OBVIOUS
  <1>3. ASSUME NEW j \in DOMAIN pending
        PROVE  /\ IsRequest(aged[j]) /\ aged[j].kind = pending[j].kind
               /\ aged[j].of = pending[j].of /\ aged[j].late = pending[j].late
               /\ aged[j].choice = pending[j].choice /\ aged[j].past = pending[j].past
    <2>. DEFINE marked == [pending[j] EXCEPT !.outdated = TRUE]
    <2>1. IsRequest(pending[j])
      BY <1>1 DEF Sound
    <2>2. /\ IsRequest(marked) /\ marked.kind = pending[j].kind /\ marked.of = pending[j].of
          /\ marked.late = pending[j].late
          /\ marked.choice = pending[j].choice /\ marked.past = pending[j].past
      BY <2>1, MarkedRequest
    <2>3. aged[j] \in {marked, pending[j]}
      OBVIOUS
    <2>. HIDE DEF marked, aged
    <2>. QED
      BY <2>1, <2>2, <2>3
  <1>. HIDE DEF aged
  <1>4. LateFirst(aged)
    BY <1>1, <1>2, <1>3 DEF LateFirst, Sound, IsLoad
  <1>5. Sound(aged)
    BY <1>1, <1>2, <1>3, <1>4, Marked
  <1>6. /\ Sound(rest) /\ DOMAIN rest = 1..(Len(aged) - 1)
        /\ \A k \in DOMAIN rest : Old(i, k) \in DOMAIN aged /\ rest[k] = aged[Old(i, k)]
        /\ \A j \in DOMAIN aged \ {i} : InTime(aged[j]) => aged[j].of \in Awaited(rest)
    <2>1. i \in DOMAIN aged
      BY <1>2
    <2>. QED
      BY <1>5, <2>1, OneTaken
  <1>7. ASSUME NEW j \in DOMAIN pending, InTime(pending[j]) PROVE pending[j].of \in Awaited(rest)
    <2>1. j # i /\ InTime(aged[j]) /\ aged[j].of = pending[j].of
      BY <1>1, <1>3, <1>7 DEF InTime, IsLoad
    <2>. QED
      BY <1>2, <1>6, <2>1
  <1>8. Awaited(pending) \subseteq Awaited(rest)
    BY <1>7 DEF Awaited
  <1>9. Len(aged) = Len(pending)
    BY <1>1, <1>2, <1>5, SoundDomain
  <1>. HIDE DEF rest
  <1>10. \A k \in DOMAIN rest :
           /\ Old(i, k) \in DOMAIN pending
           /\ rest[k].kind = pending[Old(i, k)].kind /\ rest[k].of = pending[Old(i, k)].of
           /\ rest[k].choice = pending[Old(i, k)].choice /\ rest[k].past = pending[Old(i, k)].past
           /\ rest[k].late = pending[Old(i, k)].late
    BY <1>2, <1>3, <1>6
  <1>11. Taken(pending, rest, i, FALSE)
    BY <1>6, <1>9, <1>10 DEF Taken
  <1>. QED
    BY <1>1, <1>6, <1>8, <1>11

LEMMA DoneShows ==
  ASSUME ScreenSound, NEW i \in DOMAIN pending, Screens!Done(i)
  PROVE  ScreenSound' /\ (PagesComplete /\ ScreenInv => ScreenInv')
  <1>. DEFINE r == pending[i]
              do == Screens!Does(r.of)
              left == do.changes \ (do.patches \cup do.shows)
  <1>1. /\ Sound(pending) /\ ~InTime(r) /\ r.of \in DOMAIN Screens!Page.does
        /\ name' = name /\ chosen' = chosen
        /\ outdated' = (outdated \ do.shows) \cup {l \in left : shown[l] # Screens!NotShown}
        /\ astray' = (IF r.outdated THEN astray \cup do.shows ELSE astray \ do.shows)
                     \cup do.leaves
        /\ shown' = [l \in Screens!Lists |->
                       IF l \in do.shows THEN Screens!Shown(l, r.choice) ELSE shown[l]]
    BY DEF Screens!Done, ScreenSound, Sound, IsRequest, InTime, IsLoad
  <1>2. do.reloads \in SUBSET Screens!Lists /\ IsFiniteSet(do.reloads) /\ do.shows \subseteq Screens!Lists
    BY <1>1, PageFacts, FS_Subset DEF ScreenSound
  <1>3. PICK rest : /\ pending' = Screens!ReloadAll(do.reloads, r.choice, rest)
                    /\ Sound(rest) /\ Awaited(pending) \subseteq Awaited(rest)
                    /\ Taken(pending, rest, i, FALSE)
    BY DoneLeaves
  <1>4. PagesComplete => /\ do.changes \subseteq do.reloads \cup do.patches \cup do.shows \cup do.leaves
                         /\ \A l \in do.shows : Screens!LoadOf(l).sends = {}
    BY <1>1, CompleteFacts DEF ScreenSound
  <1>. HIDE DEF do
  <1>5. /\ Sound(pending') /\ Awaited(pending') = Awaited(rest) \cup do.reloads
        /\ \A k \in DOMAIN rest : k \in DOMAIN pending' /\ pending'[k] = rest[k]
        /\ \A k \in DOMAIN pending' \ DOMAIN rest :
             IsLoad(pending'[k]) /\ (~pending'[k].past => Matches(pending'[k], chosen))
    BY <1>2, <1>3, AgainBehind
  <1>6. ScreenSound'
    BY <1>1, <1>5, SamePage DEF ScreenSound
  <1>7. ASSUME ScreenInv PROVE Chosen(pending', chosen')
    <2>1. Chosen(rest, chosen)
      BY <1>1, <1>3, <1>7, ChosenTaken DEF ScreenInv
    <2>2. Chosen(pending', chosen)
      BY <1>5, <2>1, ChosenBehind
    <2>. QED
      BY <1>1, <2>2
  <1>8. ASSUME PagesComplete, ScreenInv, NEW l \in Screens!Lists \ (astray' \cup Awaited(pending'))
        PROVE  UpToDate(l)'
    <2>1. l \notin Awaited(pending) /\ l \notin do.reloads /\ l \notin do.leaves
      BY <1>1, <1>3, <1>5, <1>8
    <2>2. CASE l \in do.shows
      <3>1. l \notin outdated' /\ Screens!LoadOf(l).sends = {}
        BY <1>1, <1>4, <1>8, <2>2
      <3>. QED
        BY <1>1, <3>1, SamePage DEF UpToDate
    <2>3. CASE l \notin do.shows
      <3>1. l \notin astray /\ l \notin left
        BY <1>1, <1>4, <1>8, <2>1, <2>3
      <3>2. UpToDate(l)
        BY <1>8, <2>1, <3>1 DEF ScreenInv
      <3>3. shown'[l] = shown[l] /\ (l \in outdated' <=> l \in outdated)
        BY <1>1, <1>8, <2>3, <3>1
      <3>. QED
        BY <1>1, <3>2, <3>3, SamePage DEF UpToDate, Screens!NotShown
    <2>. QED
      BY <2>2, <2>3
  <1>. QED
    BY <1>1, <1>6, <1>7, <1>8, SamePage DEF ScreenInv

LEMMA ScreenInit == Screens!Init => ScreenSound /\ ScreenInv
  <1>. SUFFICES ASSUME Screens!Init PROVE ScreenSound /\ ScreenInv
    OBVIOUS
  <1>1. Screens!Opens(Screens!Page) \in SUBSET Screens!Lists /\ name \in DOMAIN Pages
    BY DEF Screens!Init, Screens!Opens, Screens!Lists
  <1>2. IsFiniteSet(Screens!Opens(Screens!Page))
    BY <1>1, PageFacts, FS_Subset
  <1>3. pending = Screens!LoadAll(Screens!Opens(Screens!Page), chosen, <<>>)
    BY DEF Screens!Init
  <1>4. Sound(pending) /\ \A k \in DOMAIN pending \ DOMAIN <<>> : Matches(pending[k], chosen)
    BY <1>1, <1>2, <1>3, NothingSound, AllBehind
  <1>5. Chosen(pending, chosen)
    BY <1>4 DEF Chosen
  <1>6. ScreenSound
    BY <1>1, <1>4 DEF ScreenSound, Screens!Init
  <1>7. \A l \in Screens!Lists : shown[l] = Screens!NotShown
    BY DEF Screens!Init
  <1>. QED
    BY <1>5, <1>6, <1>7 DEF ScreenInv, UpToDate

LEMMA ScreenNext ==
  ASSUME ScreenSound, [Screens!Next]_(Screens!vars)
  PROVE  ScreenSound' /\ (PagesComplete /\ ScreenInv => ScreenInv')
  <1>1. CASE UNCHANGED Screens!vars
    <2>1. /\ UNCHANGED <<name, chosen, shown, outdated>> /\ astray \subseteq astray'
          /\ pending' = pending
      BY <1>1 DEF Screens!vars
    <2>. QED
      BY <2>1, ScreenKept DEF ScreenSound
  <1>2. CASE Screens!User
    BY <1>2, ChooseShows, LoadAgainShows, PressShows
       DEF Screens!User, Screens!Refresh, Screens!Poll
  <1>3. ASSUME NEW i \in DOMAIN pending,
               Screens!Answered(i) \/ Screens!Done(i) \/ Screens!Failed(i) \/ Screens!Drop(i)
        PROVE  ScreenSound' /\ (PagesComplete /\ ScreenInv => ScreenInv')
    BY <1>3, AnsweredShows, DoneShows, FailedShows, DropShows
  <1>. QED
    BY <1>1, <1>2, <1>3 DEF Screens!Next

(* A page whose effects depend on every choice their loads send, and whose *)
(* handlers load again, change on show or replace what they change, keeps  *)
(* its lists up to date: whatever is chosen, pressed and polled while      *)
(* answers are on their way, a list shows what is chosen and what was      *)
(* changed as soon as none of its loads is on its way, unless it is astray.*)
(* A guard does its part of this: what comes late to a guarded list is     *)
(* dropped (GenerateTab.tsx:62-85). *)
THEOREM ClientsShowsWhatIsChosen == PagesComplete => (ClientsSpec => []ShowsWhatIsChosen)
  <1>. SUFFICES ASSUME PagesComplete PROVE ClientsSpec => []ShowsWhatIsChosen
    OBVIOUS
  <1>1. ClientsInit => ScreenSound /\ ScreenInv
    BY ScreenInit DEF ClientsInit
  <1>2. ScreenSound /\ ScreenInv /\ [ClientsNext]_<<part, vars, screenVars, formVars>>
          => ScreenSound' /\ ScreenInv'
    <2>1. [ClientsNext]_<<part, vars, screenVars, formVars>> => [Screens!Next]_(Screens!vars)
      BY DEF ClientsNext, screenVars, Screens!vars
    <2>. QED
      BY <2>1, ScreenNext
  <1>3. ScreenInv => ShowsWhatIsChosen
    <2>. SUFFICES ASSUME ScreenInv, NEW l \in Screens!Lists \ astray, Screens!LoadsOf(l) = {}
         PROVE  UpToDate(l)
      BY DEF ShowsWhatIsChosen, Screens!ShowsWhatIsChosen, UpToDate
    <2>1. l \notin Awaited(pending)
      BY DEF Awaited, InTime, IsLoad, Screens!LoadsOf
    <2>. QED
      BY <2>1 DEF ScreenInv
  <1>. QED
    BY <1>1, <1>2, <1>3, PTL DEF ClientsSpec

-----------------------------------------------------------------------------
(* Flags. A handler on its way has its flag up, unless an answer to        *)
(* something else put it down (history: early), which is remembered as     *)
(* long as the flag is waited for.                                         *)
Asked(r) == r.kind = "do" /\ r.of \notin Screens!Page.unguarded
FlagsUp ==
  \A k \in DOMAIN pending : Asked(pending[k]) =>
    Screens!FlagOf(pending[k]) \in flags \cup early \cup {Screens!NoFlag}
OneAsked ==
  \A j, k \in DOMAIN pending :
    /\ Asked(pending[j]) /\ Asked(pending[k])
    /\ Screens!FlagOf(pending[j]) = Screens!FlagOf(pending[k])
    => j = k \/ Screens!FlagOf(pending[j]) \in early \cup {Screens!NoFlag}
FlagInv == OneAsked /\ FlagsUp

LEMMA OneAskedAtATime == OneAsked => Screens!OneAtATime
  BY DEF Screens!OneAtATime, OneAsked, Asked

LEMMA SameFlags ==
  ASSUME name' = name
  PROVE  \A r : Screens!FlagOf(r)' = Screens!FlagOf(r) /\ (Asked(r)' <=> Asked(r))
  BY DEF Screens!FlagOf, Asked, Screens!LoadOf, Screens!Does, Screens!Page

LEMMA FlagsRemembered ==
  ASSUME Screens!RememberEarly, name' = name
  PROVE  \A k \in DOMAIN pending' : Screens!FlagOf(pending'[k]) # Screens!NoFlag =>
           /\ Screens!FlagOf(pending'[k]) \in flags' \cup early'
           /\ Screens!FlagOf(pending'[k]) \in early => Screens!FlagOf(pending'[k]) \in early'
  <1>. SUFFICES ASSUME NEW k \in DOMAIN pending', Screens!FlagOf(pending'[k]) # Screens!NoFlag
       PROVE  LET f == Screens!FlagOf(pending'[k]) IN
              f \in flags' \cup early' /\ (f \in early => f \in early')
    OBVIOUS
  <1>. DEFINE f == Screens!FlagOf(pending'[k])
  <1>1. f \in Screens!WaitedFor(pending')
    BY DEF Screens!WaitedFor
  <1>2. early' = {g \in Screens!WaitedFor(pending') : g \in early \/ g \notin flags'}
    BY DEF Screens!RememberEarly
  <1>. HIDE DEF f
  <1>. QED
    BY <1>1, <1>2 DEF f

(* No handler's request is new.                                            *)
LEMMA FlagsKept ==
  ASSUME FlagInv, Screens!RememberEarly, name' = name, NEW i \in Nat,
         \A k \in DOMAIN pending' : k \in Nat /\
           (pending'[k].kind = "do" =>
              /\ Old(i, k) \in DOMAIN pending
              /\ pending[Old(i, k)].kind = "do" /\ pending[Old(i, k)].of = pending'[k].of)
  PROVE  FlagInv'
  <1>1. FlagsUp'
    BY SameFlags, FlagsRemembered DEF FlagsUp, Screens!NoFlag
  <1>2. ASSUME NEW j \in DOMAIN pending', NEW k \in DOMAIN pending',
               Asked(pending'[j]), Asked(pending'[k]), j # k,
               Screens!FlagOf(pending'[j]) = Screens!FlagOf(pending'[k]),
               Screens!FlagOf(pending'[j]) # Screens!NoFlag
        PROVE  Screens!FlagOf(pending'[j]) \in early'
    <2>1. Old(i, j) # Old(i, k)
      BY <1>2 DEF Old
    <2>2. /\ Asked(pending[Old(i, j)]) /\ Asked(pending[Old(i, k)])
          /\ Screens!FlagOf(pending[Old(i, j)]) = Screens!FlagOf(pending'[j])
          /\ Screens!FlagOf(pending[Old(i, k)]) = Screens!FlagOf(pending'[k])
      BY <1>2 DEF Asked, Screens!FlagOf
    <2>3. Old(i, j) \in DOMAIN pending /\ Old(i, k) \in DOMAIN pending
      BY <1>2 DEF Asked
    <2>4. Screens!FlagOf(pending'[j]) \in early
      BY <1>2, <2>1, <2>2, <2>3 DEF FlagInv, OneAsked
    <2>. QED
      BY <1>2, <2>4, FlagsRemembered
  <1>3. OneAsked'
    BY <1>2, SameFlags DEF OneAsked, Screens!NoFlag
  <1>. QED
    BY <1>1, <1>3 DEF FlagInv

LEMMA LoadsKeepFlags ==
  ASSUME FlagInv, Sound(pending), Screens!RememberEarly, name' = name,
         NEW lists \in SUBSET Screens!Lists, IsFiniteSet(lists), NEW choice,
         pending' = Screens!LoadAll(lists, choice, pending)
  PROVE  FlagInv'
  <1>1. /\ Sound(pending')
        /\ \A k \in DOMAIN pending : pending'[k] = pending[k]
        /\ \A k \in DOMAIN pending' \ DOMAIN pending : IsLoad(pending'[k])
    BY AllBehind
  <1>2. /\ Len(pending) \in Nat /\ DOMAIN pending = 1..Len(pending)
        /\ Len(pending') \in Nat /\ DOMAIN pending' = 1..Len(pending')
    BY <1>1, SoundDomain
  <1>3. Len(pending) + 1 \in Nat /\ \A k \in DOMAIN pending : Old(Len(pending) + 1, k) = k
    BY <1>2 DEF Old
  <1>. DEFINE i == Len(pending) + 1
  <1>4. i \in Nat /\ \A k \in DOMAIN pending' : k \in Nat /\
          (pending'[k].kind = "do" =>
             /\ Old(i, k) \in DOMAIN pending
             /\ pending[Old(i, k)].kind = "do" /\ pending[Old(i, k)].of = pending'[k].of)
    BY <1>1, <1>2, <1>3 DEF IsLoad
  <1>. HIDE DEF i
  <1>. QED
    BY <1>4, FlagsKept

(* The button of a handler whose flag is up is off, unless the handler is  *)
(* unguarded: so whoever waits for this flag already lost it early.        *)
LEMMA PressKeepsFlags ==
  ASSUME ScreenSound, FlagInv, Screens!RememberEarly,
         NEW n \in DOMAIN Screens!Page.does, Screens!Press(n)
  PROVE  FlagInv'
  <1>. DEFINE new == Screens!DoRequest(n)
  <1>1. IsRequest(new) /\ ~IsLoad(new) /\ new.of = n /\ new.kind = "do"
    BY DEF Screens!DoRequest, IsRequest, IsLoad
  <1>2. /\ name' = name /\ pending' = Append(pending, new)
        /\ \E button \in Screens!ButtonsOf(n) : button.off \cap flags = {}
    BY DEF Screens!Press, Screens!Enabled
  <1>3. n \notin Screens!Page.unguarded /\ Screens!Does(n).flag # Screens!NoFlag
          => Screens!Does(n).flag \notin flags
    BY <1>2, PagesAssumption
       DEF ScreenSound, Screens!ButtonsOf, Screens!Does, Screens!Page
  <1>4. Sound(pending)
    BY DEF ScreenSound
  <1>. HIDE DEF new
  <1>5. /\ DOMAIN pending' = 1..(Len(pending) + 1) /\ pending'[Len(pending) + 1] = new
        /\ \A k \in DOMAIN pending : k \in DOMAIN pending' /\ pending'[k] = pending[k]
    BY <1>1, <1>2, <1>4, DoBehind
  <1>6. Len(pending) \in Nat /\ DOMAIN pending = 1..Len(pending)
    BY <1>4, SoundDomain
  <1>7. \A k \in DOMAIN pending' : k \in DOMAIN pending \/ k = Len(pending) + 1
    BY <1>5, <1>6
  <1>8. Screens!FlagOf(new) = Screens!Does(n).flag
    BY <1>1 DEF Screens!FlagOf
  <1>9. FlagsUp'
    BY <1>2, SameFlags, FlagsRemembered DEF FlagsUp, Screens!NoFlag
  <1>10. ASSUME NEW k \in DOMAIN pending, Asked(pending[k]), Asked(new),
                Screens!FlagOf(pending[k]) = Screens!FlagOf(new),
                Screens!FlagOf(new) # Screens!NoFlag
         PROVE  Screens!FlagOf(new) \in early'
    <2>1. Screens!FlagOf(new) \notin flags
      BY <1>1, <1>3, <1>8, <1>10 DEF Asked
    <2>2. Screens!FlagOf(new) \in early
      BY <1>10, <2>1 DEF FlagInv, FlagsUp
    <2>3. Screens!FlagOf(pending'[k]) = Screens!FlagOf(new) /\ k \in DOMAIN pending'
      BY <1>5, <1>10
    <2>. QED
      BY <1>2, <1>10, <2>2, <2>3, FlagsRemembered
  <1>11. ASSUME NEW j \in DOMAIN pending, NEW k \in DOMAIN pending, j # k,
                Asked(pending[j]), Asked(pending[k]),
                Screens!FlagOf(pending[j]) = Screens!FlagOf(pending[k]),
                Screens!FlagOf(pending[j]) # Screens!NoFlag
         PROVE  Screens!FlagOf(pending[j]) \in early'
    <2>1. Screens!FlagOf(pending[j]) \in early
      BY <1>11 DEF FlagInv, OneAsked
    <2>2. Screens!FlagOf(pending'[j]) = Screens!FlagOf(pending[j]) /\ j \in DOMAIN pending'
      BY <1>5, <1>11
    <2>. QED
      BY <1>2, <1>11, <2>1, <2>2, FlagsRemembered
  <1>12. OneAsked'
    <2>1. ASSUME NEW j \in DOMAIN pending', NEW k \in DOMAIN pending', j # k,
                 Asked(pending'[j]), Asked(pending'[k]),
                 Screens!FlagOf(pending'[j]) = Screens!FlagOf(pending'[k]),
                 Screens!FlagOf(pending'[j]) # Screens!NoFlag
          PROVE  Screens!FlagOf(pending'[j]) \in early'
      <3>1. CASE j \in DOMAIN pending /\ k \in DOMAIN pending
        BY <1>5, <1>11, <2>1, <3>1
      <3>2. CASE j \in DOMAIN pending /\ k \notin DOMAIN pending
        BY <1>5, <1>7, <1>10, <2>1, <3>2
      <3>3. CASE j \notin DOMAIN pending /\ k \in DOMAIN pending
        BY <1>5, <1>7, <1>10, <2>1, <3>3
      <3>. QED
        BY <1>7, <2>1, <3>1, <3>2, <3>3
    <2>. QED
      BY <1>2, <2>1, SameFlags DEF OneAsked, Screens!NoFlag
  <1>. QED
    BY <1>9, <1>12 DEF FlagInv

LEMMA DoneKeepsFlags ==
  ASSUME ScreenSound, FlagInv, Screens!RememberEarly,
         NEW i \in DOMAIN pending, Screens!Done(i)
  PROVE  FlagInv'
  <1>. DEFINE lists == Screens!Does(pending[i].of).reloads
  <1>1. Sound(pending) /\ name' = name /\ pending[i].of \in DOMAIN Screens!Page.does
    BY DEF Screens!Done, ScreenSound, Sound, IsRequest
  <1>2. i \in Nat /\ lists \in SUBSET Screens!Lists /\ IsFiniteSet(lists)
    BY <1>1, PageFacts, FS_Subset, SoundDomain DEF ScreenSound
  <1>3. PICK rest : /\ pending' = Screens!ReloadAll(lists, pending[i].choice, rest)
                    /\ Sound(rest) /\ Taken(pending, rest, i, FALSE)
    BY DoneLeaves
  <1>. HIDE DEF lists
  <1>4. /\ Sound(pending')
        /\ \A k \in DOMAIN rest : pending'[k] = rest[k]
        /\ \A k \in DOMAIN pending' \ DOMAIN rest : IsLoad(pending'[k])
    BY <1>2, <1>3, AgainBehind
  <1>5. \A k \in DOMAIN pending' : k \in Nat
    BY <1>4, SoundDomain
  <1>6. \A k \in DOMAIN pending' : pending'[k].kind = "do" =>
          /\ Old(i, k) \in DOMAIN pending
          /\ pending[Old(i, k)].kind = "do" /\ pending[Old(i, k)].of = pending'[k].of
    BY <1>3, <1>4 DEF IsLoad, Taken
  <1>. QED
    BY <1>1, <1>2, <1>5, <1>6, FlagsKept

LEMMA AnswersKeepFlags ==
  ASSUME ScreenSound, FlagInv, Screens!RememberEarly, NEW i \in DOMAIN pending,
         Screens!Answered(i) \/ Screens!Failed(i) \/ Screens!Drop(i)
  PROVE  FlagInv'
  <1>1. name' = name /\ Sound(pending) /\ i \in Nat
    BY SoundDomain DEF Screens!Answered, Screens!Failed, Screens!Drop, ScreenSound
  <1>2. CASE pending' = Screens!Overtaken(i)
    <2>1. /\ Sound(pending')
          /\ \A k \in DOMAIN pending' : /\ Old(i, k) \in DOMAIN pending
                                        /\ pending'[k].kind = pending[Old(i, k)].kind
                                        /\ pending'[k].of = pending[Old(i, k)].of
      BY <1>1, <1>2, OneAnswered
    <2>2. \A k \in DOMAIN pending' : k \in Nat
      BY <2>1, SoundDomain
    <2>. QED
      BY <1>1, <2>1, <2>2, FlagsKept
  <1>3. CASE pending' = Screens!RemoveAt(pending, i)
    <2>1. /\ Sound(pending')
          /\ \A k \in DOMAIN pending' :
               Old(i, k) \in DOMAIN pending /\ pending'[k] = pending[Old(i, k)]
      BY <1>1, <1>3, OneTaken
    <2>2. \A k \in DOMAIN pending' : k \in Nat
      BY <2>1, SoundDomain
    <2>. QED
      BY <1>1, <2>1, <2>2, FlagsKept
  <1>. QED
    BY <1>2, <1>3 DEF Screens!Answered, Screens!Failed, Screens!Drop

LEMMA UserKeepsFlags ==
  ASSUME ScreenSound, FlagInv, Screens!RememberEarly, Screens!User
  PROVE  FlagInv'
  <1>1. ASSUME NEW c \in DOMAIN chosen, NEW v, Screens!Choose(c, v) PROVE FlagInv'
    <2>. DEFINE lists == {l \in Screens!Lists : c \in Screens!LoadOf(l).on}
    <2>1. IsFiniteSet(lists) /\ lists \in SUBSET Screens!Lists
      BY PageFacts, FS_Subset DEF ScreenSound
    <2>2. name' = name /\ pending' = Screens!LoadAll(lists, chosen', pending)
      BY <1>1 DEF Screens!Choose
    <2>. HIDE DEF lists
    <2>. QED
      BY <2>1, <2>2, LoadsKeepFlags DEF ScreenSound
  <1>2. ASSUME NEW l \in Screens!Lists, Screens!LoadAgain(l) PROVE FlagInv'
    <2>1. IsFiniteSet({l}) /\ {l} \in SUBSET Screens!Lists
      BY FS_Singleton
    <2>. QED
      BY <1>2, <2>1, LoadsKeepFlags DEF Screens!LoadAgain, ScreenSound
  <1>. QED
    BY <1>1, <1>2, PressKeepsFlags DEF Screens!User, Screens!Refresh, Screens!Poll

LEMMA FlagInit == Screens!Init => FlagInv
  <1>. SUFFICES ASSUME Screens!Init PROVE FlagInv
    OBVIOUS
  <1>1. Screens!Opens(Screens!Page) \in SUBSET Screens!Lists /\ name \in DOMAIN Pages
    BY DEF Screens!Init, Screens!Opens, Screens!Lists
  <1>2. IsFiniteSet(Screens!Opens(Screens!Page))
    BY <1>1, PageFacts, FS_Subset
  <1>3. \A k \in DOMAIN pending : IsLoad(pending[k])
    BY <1>1, <1>2, NothingSound, AllBehind DEF Screens!Init
  <1>. QED
    BY <1>3 DEF FlagInv, OneAsked, FlagsUp, Asked, IsLoad

LEMMA FlagNext ==
  ScreenSound /\ FlagInv /\ [Screens!Next]_(Screens!vars) => FlagInv'
  <1>. SUFFICES ASSUME ScreenSound, FlagInv, [Screens!Next]_(Screens!vars) PROVE FlagInv'
    OBVIOUS
  <1>1. CASE UNCHANGED Screens!vars
    BY <1>1, SameFlags
       DEF Screens!vars, FlagInv, OneAsked, FlagsUp, Screens!NoFlag
  <1>. QED
    BY <1>1, UserKeepsFlags, DoneKeepsFlags, AnswersKeepFlags DEF Screens!Next

-----------------------------------------------------------------------------
(* The forms. What keeps the second clocking away is the step of the form, *)
(* and for the scan page and the camera also `busy`, which outlasts the    *)
(* step: until the timer that opens the form again has gone off. So one    *)
(* such timer is set at a time, and none while a clocking is awaited.      *)
Clocking == [sent : BOOLEAN, awaited : BOOLEAN]
Awaiting == {k \in DOMAIN clockings : clockings[k].awaited}

FormTypes ==
  /\ form \in {"scan", "checkin", "camera", "gps"} /\ reopened \in BOOLEAN
  /\ clockings \in Seq(Clocking)
  /\ timers \in [{"open", "leave"} -> Nat] /\ locating \in Nat

OneAwaited == ~reopened =>
  /\ Awaiting = DOMAIN clockings /\ Len(clockings) <= 1
  /\ clockings # <<>> => step \in {"locating", "sending"}

ScanBusy ==
  /\ ~reopened
  /\ clockings # <<>> => busy /\ timers["open"] = 0
  /\ timers["open"] > 0 => busy /\ step = "success" /\ timers["open"] = 1

CameraBusy ==
  /\ Awaiting # {} => busy /\ step = "locating" /\ timers["open"] = 0
  /\ \A j, k \in Awaiting : j = k
  /\ timers["open"] > 0 => busy /\ step = "error" /\ timers["open"] = 1

FormsBusy ==
  /\ form = "scan" => ScanBusy
  /\ form = "camera" => CameraBusy
  /\ form = "gps" => timers["open"] = 0
  /\ form # "gps" => locating = 0

FormsInv == FormTypes /\ OneAwaited /\ FormsBusy

LEMMA FormsInit == ClockingForms!Init => FormsInv
  <1>. SUFFICES ASSUME ClockingForms!Init PROVE FormsInv
    OBVIOUS
  <1>1. clockings = <<>> /\ DOMAIN clockings = {} /\ Len(clockings) = 0
    BY DEF ClockingForms!Init
  <1>2. form \in {"scan", "checkin", "camera", "gps"} /\ ~reopened /\ reopened \in BOOLEAN
        /\ timers = [t \in {"open", "leave"} |-> 0] /\ locating \in Nat
        /\ (form # "gps" => locating = 0)
    BY DEF ClockingForms!Init, ClockingForms!AtFirst, ClockingForms!Web, ClockingForms!App
  <1>. QED
    BY <1>1, <1>2 DEF FormsInv, FormTypes, OneAwaited, FormsBusy, ScanBusy, CameraBusy, Awaiting

LEMMA ClockingSeq ==
  ASSUME FormTypes
  PROVE  /\ Len(clockings) \in Nat /\ DOMAIN clockings = 1..Len(clockings)
         /\ \A k \in DOMAIN clockings : clockings[k] \in Clocking
         /\ clockings # <<>> <=> DOMAIN clockings # {}
         /\ clockings # <<>> <=> Len(clockings) >= 1
         /\ clockings = [k \in DOMAIN clockings |-> clockings[k]]
  BY SeqOf DEF FormTypes

(* The answer to the only clocking leaves none.                            *)
LEMMA ClockingTaken ==
  ASSUME FormsInv, NEW i \in DOMAIN clockings,
         clockings' = ClockingForms!RemoveAt(clockings, i), ClockingForms!Remember(FALSE)
  PROVE  /\ clockings' \in Seq(Clocking) /\ reopened' \in BOOLEAN
         /\ reopened' => reopened
         /\ \A k \in DOMAIN clockings' :
              k \in Nat /\ Old(i, k) \in DOMAIN clockings \ {i} /\ clockings'[k] = clockings[Old(i, k)]
         /\ ~reopened' => clockings' = <<>> /\ DOMAIN clockings' = {} /\ Len(clockings') = 0
  <1>1. Len(clockings) \in Nat /\ DOMAIN clockings = 1..Len(clockings)
        /\ clockings \in Seq(Clocking) /\ i \in 1..Len(clockings)
    BY ClockingSeq DEF FormsInv, FormTypes
  <1>2. clockings' = Without(clockings, i)
    BY DEF Without, ClockingForms!RemoveAt
  <1>3. /\ clockings' \in Seq(Clocking) /\ Len(clockings') = Len(clockings) - 1
        /\ \A k \in 1..Len(clockings') :
             Old(i, k) \in 1..Len(clockings) /\ clockings'[k] = clockings[Old(i, k)]
    BY <1>1, <1>2, WithoutOne
  <1>4. DOMAIN clockings' = 1..Len(clockings') /\ Len(clockings') \in Nat
    BY <1>3, SeqOf
  <1>5. \A k \in DOMAIN clockings' : k \in Nat /\ Old(i, k) # i
    BY <1>1, <1>4 DEF Old
  <1>6. reopened' = (clockings' # <<>> /\ reopened)
    BY DEF ClockingForms!Remember
  <1>7. ASSUME ~reopened' PROVE Len(clockings') = 0
    <2>1. CASE reopened
      <3>1. clockings' = <<>>
        BY <1>6, <1>7, <2>1
      <3>. QED
        BY <3>1
    <2>2. CASE ~reopened
      BY <1>1, <1>3, <2>2 DEF FormsInv, OneAwaited
    <2>. QED
      BY <2>1, <2>2
  <1>8. Len(clockings') = 0 => clockings' = <<>> /\ DOMAIN clockings' = {}
    BY <1>3, <1>4
  <1>9. reopened \in BOOLEAN
    BY DEF FormsInv, FormTypes
  <1>10. \A k \in DOMAIN clockings' :
           k \in Nat /\ Old(i, k) \in DOMAIN clockings \ {i} /\ clockings'[k] = clockings[Old(i, k)]
    BY <1>1, <1>3, <1>4, <1>5
  <1>. QED
    BY <1>3, <1>6, <1>7, <1>8, <1>9, <1>10

(* What is left then.                                                      *)
LEMMA TakenIsOver ==
  ASSUME FormsInv, NEW i \in DOMAIN clockings,
         clockings' = ClockingForms!RemoveAt(clockings, i), ClockingForms!Remember(FALSE),
         timers' \in [{"open", "leave"} -> Nat], UNCHANGED <<form, locating>>,
         FormsBusy'
  PROVE  FormsInv'
  <1>1. /\ clockings' \in Seq(Clocking) /\ reopened' \in BOOLEAN
        /\ ~reopened' => clockings' = <<>> /\ DOMAIN clockings' = {} /\ Len(clockings') = 0
    BY ClockingTaken
  <1>2. FormTypes
    BY DEF FormsInv
  <1>3. FormTypes'
    BY <1>1, <1>2 DEF FormTypes
  <1>4. OneAwaited'
    BY <1>1 DEF OneAwaited, Awaiting
  <1>. QED
    BY <1>3, <1>4 DEF FormsInv

LEMMA AwaitedTaken ==
  ASSUME FormsInv, NEW i \in DOMAIN clockings,
         clockings' = ClockingForms!RemoveAt(clockings, i), ClockingForms!Remember(FALSE)
  PROVE  /\ form = "scan" => clockings' = <<>> /\ ~reopened' /\ timers["open"] = 0 /\ busy
         /\ form = "camera" =>
              /\ Awaiting' # {} => Awaiting # {}
              /\ clockings[i].awaited => Awaiting' = {} /\ timers["open"] = 0 /\ busy
              /\ \A j, k \in Awaiting' : j = k
  <1>1. clockings # <<>>
    BY ClockingSeq DEF FormsInv
  <1>2. CASE form = "scan"
    BY <1>1, <1>2, ClockingTaken DEF FormsInv, FormsBusy, ScanBusy, FormTypes
  <1>3. CASE form = "camera"
    <2>1. ASSUME NEW k \in Awaiting' PROVE Old(i, k) \in Awaiting \ {i} /\ k \in Nat
      BY <2>1, ClockingTaken DEF Awaiting
    <2>2. \A j, k \in Awaiting : j = k
      BY <1>3 DEF FormsInv, FormsBusy, CameraBusy
    <2>3. ASSUME NEW j \in Awaiting', NEW k \in Awaiting' PROVE j = k
      <3>1. Old(i, j) = Old(i, k) /\ j \in Nat /\ k \in Nat
        BY <2>1, <2>2
      <3>2. i \in Nat
        BY ClockingSeq DEF FormsInv
      <3>. QED
        BY <3>1, <3>2 DEF Old
    <2>4. ASSUME clockings[i].awaited PROVE Awaiting' = {} /\ timers["open"] = 0 /\ busy
      <3>1. i \in Awaiting
        BY <2>4 DEF Awaiting
      <3>. QED
        BY <1>3, <2>1, <2>2, <3>1 DEF FormsInv, FormsBusy, CameraBusy
    <2>. QED
      BY <1>3, <2>1, <2>3, <2>4
  <1>. QED
    BY <1>2, <1>3

LEMMA TimerSet ==
  ASSUME FormTypes, NEW t \in {"open", "leave"}, ClockingForms!Set(t)
  PROVE  /\ timers' \in [{"open", "leave"} -> Nat]
         /\ timers'["open"] = IF t = "open" THEN timers["open"] + 1 ELSE timers["open"]
  BY DEF FormTypes, ClockingForms!Set

LEMMA AnswersBusy ==
  ASSUME FormsInv, NEW i \in DOMAIN clockings,
         \/ ClockingForms!NotLocated(i) \/ ClockingForms!Succeed(i) \/ ClockingForms!Fail(i)
         \/ ClockingForms!AnsweredUnseen(i)
  PROVE  FormsInv'
  <1>1. /\ clockings' = ClockingForms!RemoveAt(clockings, i) /\ ClockingForms!Remember(FALSE)
        /\ UNCHANGED <<form, locating>>
    BY DEF ClockingForms!NotLocated, ClockingForms!Succeed, ClockingForms!Fail,
           ClockingForms!AnsweredUnseen, ClockingForms!Answered
  <1>2. FormTypes /\ FormsBusy /\ OneAwaited
    BY DEF FormsInv
  <1>3. \/ timers' = timers
        \/ ClockingForms!Set("open") \/ ClockingForms!Set("leave")
    BY DEF ClockingForms!NotLocated, ClockingForms!Succeed, ClockingForms!Fail,
           ClockingForms!AnsweredUnseen
  <1>4. timers' \in [{"open", "leave"} -> Nat]
    BY <1>2, <1>3, TimerSet DEF FormTypes
  <1>5. /\ form = "scan" => clockings' = <<>> /\ ~reopened' /\ timers["open"] = 0 /\ busy
        /\ form = "camera" =>
             /\ Awaiting' # {} => Awaiting # {}
             /\ clockings[i].awaited => Awaiting' = {} /\ timers["open"] = 0 /\ busy
             /\ \A j, k \in Awaiting' : j = k
    BY <1>1, AwaitedTaken
  <1>6. form = "scan" => ScanBusy'
    <2>. SUFFICES ASSUME form = "scan" PROVE ScanBusy'
      OBVIOUS
    <2>1. CASE ClockingForms!NotLocated(i)
      BY <1>5, <2>1 DEF ScanBusy, ClockingForms!NotLocated
    <2>2. CASE ClockingForms!Succeed(i)
      <3>1. ClockingForms!Set("open") /\ step' = "success" /\ busy' = busy
        BY <2>2 DEF ClockingForms!Succeed, ClockingForms!App
      <3>. QED
        BY <1>2, <1>5, <3>1, TimerSet DEF ScanBusy
    <2>3. CASE ClockingForms!Fail(i)
      BY <1>5, <2>3 DEF ScanBusy, ClockingForms!Fail
    <2>4. CASE ClockingForms!AnsweredUnseen(i)
      <3>1. timers'["open"] = timers["open"]
        BY <1>2, <2>4, TimerSet DEF ClockingForms!AnsweredUnseen
      <3>. QED
        BY <1>5, <3>1 DEF ScanBusy
    <2>. QED
      BY <2>1, <2>2, <2>3, <2>4
  <1>7. form = "camera" => CameraBusy'
    <2>. SUFFICES ASSUME form = "camera" PROVE CameraBusy'
      OBVIOUS
    <2>1. CASE ClockingForms!NotLocated(i)
      BY <2>1 DEF ClockingForms!NotLocated, ClockingForms!Web
    <2>2. CASE ClockingForms!Succeed(i)
      <3>1. ClockingForms!Set("leave") /\ clockings[i].awaited
        BY <2>2 DEF ClockingForms!Succeed, ClockingForms!App
      <3>. QED
        BY <1>2, <1>5, <3>1, TimerSet DEF CameraBusy
    <2>3. CASE ClockingForms!Fail(i)
      <3>1. /\ ClockingForms!Set("open") /\ clockings[i].awaited
            /\ busy' /\ step' = "error"
        BY <2>3 DEF ClockingForms!Fail
      <3>. QED
        BY <1>2, <1>5, <3>1, TimerSet DEF CameraBusy
    <2>4. CASE ClockingForms!AnsweredUnseen(i)
      <3>1. timers'["open"] = timers["open"] /\ step' = step /\ busy' = busy
        BY <1>2, <2>4, TimerSet DEF ClockingForms!AnsweredUnseen
      <3>. QED
        BY <1>2, <1>5, <3>1 DEF CameraBusy, FormsBusy
    <2>. QED
      BY <2>1, <2>2, <2>3, <2>4
  <1>8. form = "gps" => timers'["open"] = 0
    <2>. SUFFICES ASSUME form = "gps" PROVE timers'["open"] = 0
      OBVIOUS
    <2>1. timers' = timers \/ ClockingForms!Set("leave")
      BY DEF ClockingForms!NotLocated, ClockingForms!Succeed, ClockingForms!Fail,
             ClockingForms!AnsweredUnseen, ClockingForms!App
    <2>. QED
      BY <1>2, <2>1, TimerSet DEF FormsBusy
  <1>9. FormsBusy'
    BY <1>1, <1>2, <1>6, <1>7, <1>8 DEF FormsBusy
  <1>. QED
    BY <1>1, <1>4, <1>9, TakenIsOver

LEMMA SubmitBusy ==
  ASSUME FormsInv, ClockingForms!Submit
  PROVE  FormsInv'
  <1>. DEFINE new == [sent |-> form = "gps", awaited |-> TRUE]
  <1>1. /\ UNCHANGED <<form, locating, timers>> /\ busy'
        /\ step' = IF form = "gps" THEN "sending" ELSE "locating"
        /\ clockings' = Append(clockings, new) /\ reopened' = (clockings' # <<>> /\ reopened)
        /\ step = "input" \/ (form = "gps" /\ step = "error")
        /\ form \in {"scan", "camera"} => ~busy
    BY DEF ClockingForms!Submit, ClockingForms!Remember, ClockingForms!Free
  <1>2. FormTypes /\ FormsBusy /\ OneAwaited
    BY DEF FormsInv
  <1>3. new \in Clocking /\ new.awaited
    BY DEF Clocking
  <1>. HIDE DEF new
  <1>4. /\ clockings' \in Seq(Clocking) /\ clockings' # <<>>
        /\ Len(clockings') = Len(clockings) + 1 /\ clockings'[Len(clockings) + 1] = new
        /\ \A k \in DOMAIN clockings : clockings'[k] = clockings[k]
    BY <1>1, <1>2, <1>3, AppendProperties, ClockingSeq DEF FormTypes
  <1>5. /\ Len(clockings) \in Nat /\ DOMAIN clockings = 1..Len(clockings)
        /\ DOMAIN clockings' = 1..(Len(clockings) + 1)
        /\ clockings # <<>> <=> DOMAIN clockings # {}
        /\ clockings # <<>> <=> Len(clockings) >= 1
    BY <1>2, <1>4, ClockingSeq, SeqOf
  <1>6. Awaiting' = Awaiting \cup {Len(clockings) + 1}
    BY <1>3, <1>4, <1>5 DEF Awaiting
  <1>7. ASSUME ~reopened' PROVE clockings = <<>> /\ Len(clockings) = 0
    <2>1. ~reopened
      BY <1>1, <1>4, <1>7
    <2>2. step \notin {"locating", "sending"}
      BY <1>1
    <2>3. clockings = <<>>
      BY <1>2, <2>1, <2>2 DEF OneAwaited
    <2>. QED
      BY <2>3
  <1>8. FormTypes'
    BY <1>1, <1>2, <1>4 DEF FormTypes
  <1>9. OneAwaited'
    BY <1>1, <1>4, <1>5, <1>6, <1>7 DEF OneAwaited, Awaiting
  <1>10. ASSUME form = "camera" PROVE Awaiting = {} /\ timers["open"] = 0
    BY <1>1, <1>2, <1>10 DEF FormsBusy, CameraBusy, FormTypes
  <1>11. ASSUME form = "scan" PROVE timers["open"] = 0 /\ ~reopened
    BY <1>1, <1>2, <1>11 DEF FormsBusy, ScanBusy, FormTypes
  <1>12. FormsBusy'
    BY <1>1, <1>2, <1>4, <1>6, <1>10, <1>11 DEF FormsBusy, ScanBusy, CameraBusy
  <1>. QED
    BY <1>8, <1>9, <1>12 DEF FormsInv

LEMMA SendBusy ==
  ASSUME FormsInv, NEW i \in DOMAIN clockings, ClockingForms!Send(i)
  PROVE  FormsInv'
  <1>. DEFINE sent == [clockings[i] EXCEPT !.sent = TRUE]
  <1>1. /\ UNCHANGED <<form, locating, timers, busy>>
        /\ clockings' = [clockings EXCEPT ![i] = sent]
        /\ step' = IF form \in {"scan", "checkin"} THEN "sending" ELSE step
        /\ reopened' = (clockings' # <<>> /\ reopened)
    BY DEF ClockingForms!Send, ClockingForms!Remember, ClockingForms!Web
  <1>2. FormTypes /\ FormsBusy /\ OneAwaited
    BY DEF FormsInv
  <1>3. sent \in Clocking /\ sent.awaited = clockings[i].awaited
    <2>1. ASSUME NEW c \in Clocking, NEW v \in BOOLEAN
          PROVE  [c EXCEPT !.sent = v] \in Clocking /\ [c EXCEPT !.sent = v].awaited = c.awaited
      BY DEF Clocking
    <2>2. clockings[i] \in Clocking
      BY <1>2, ClockingSeq
    <2>. QED
      BY <2>1, <2>2
  <1>. HIDE DEF sent
  <1>4. /\ clockings' \in Seq(Clocking) /\ Len(clockings') = Len(clockings)
        /\ DOMAIN clockings' = DOMAIN clockings /\ clockings # <<>> /\ clockings' # <<>>
        /\ \A k \in DOMAIN clockings : clockings'[k].awaited = clockings[k].awaited
    BY <1>1, <1>2, <1>3, ClockingSeq DEF FormTypes
  <1>5. Awaiting' = Awaiting
    BY <1>4 DEF Awaiting
  <1>6. FormTypes' /\ reopened' = reopened
    BY <1>1, <1>2, <1>4 DEF FormTypes
  <1>7. OneAwaited'
    BY <1>1, <1>2, <1>4, <1>5, <1>6 DEF OneAwaited
  <1>8. FormsBusy'
    BY <1>1, <1>2, <1>4, <1>5, <1>6 DEF FormsBusy, ScanBusy, CameraBusy
  <1>. QED
    BY <1>6, <1>7, <1>8 DEF FormsInv

(* Whatever opens the form is remembered while a clocking is on its way.   *)
LEMMA ClockingsKept ==
  ASSUME FormsInv, clockings' = clockings, NEW opened \in BOOLEAN,
         reopened' = (clockings' # <<>> /\ (reopened \/ opened)),
         form' = form, timers' \in [{"open", "leave"} -> Nat], locating' \in Nat,
         ~reopened /\ ~opened /\ clockings # <<>> => step' \in {"locating", "sending"},
         FormsBusy'
  PROVE  FormsInv'
  <1>1. FormTypes /\ OneAwaited
    BY DEF FormsInv
  <1>2. FormTypes'
    BY <1>1 DEF FormTypes
  <1>3. Awaiting' = Awaiting
    BY DEF Awaiting
  <1>4. CASE clockings = <<>>
    <2>1. Len(clockings) = 0 /\ DOMAIN clockings = {} /\ Awaiting = {}
      BY <1>4 DEF Awaiting
    <2>. QED
      BY <1>2, <1>3, <1>4, <2>1 DEF FormsInv, OneAwaited
  <1>5. CASE clockings # <<>>
    <2>1. ~reopened' => ~reopened /\ ~opened
      BY <1>1, <1>5 DEF FormTypes
    <2>. QED
      BY <1>1, <1>2, <1>3, <1>5, <2>1 DEF FormsInv, OneAwaited
  <1>. QED
    BY <1>4, <1>5

(* With its step over, a form that was not opened again waits for nothing. *)
LEMMA NoneOnItsWay ==
  ASSUME FormsInv, ~reopened, step \notin {"locating", "sending"}
  PROVE  clockings = <<>>
  BY DEF FormsInv, OneAwaited

LEMMA NoneAwaited == clockings = <<>> => Awaiting = {}
  BY DEF Awaiting

LEMMA SameAwaiting == clockings' = clockings => Awaiting' = Awaiting
  BY DEF Awaiting

LEMMA ResetBusy ==
  ASSUME FormsInv, ClockingForms!Reset
  PROVE  FormsInv'
  <1>1. /\ form \in {"scan", "checkin"} /\ step \in {"success", "error"} /\ busy' = FALSE
        /\ UNCHANGED <<form, locating, clockings>>
        /\ timers' = IF form = "scan" THEN [timers EXCEPT !["open"] = 0] ELSE timers
        /\ reopened' = (clockings' # <<>> /\ (reopened \/ FALSE))
    BY DEF ClockingForms!Reset, ClockingForms!Remember, ClockingForms!ClearTimer,
           ClockingForms!Web
  <1>2. FormTypes /\ FormsBusy
    BY DEF FormsInv
  <1>3. timers' \in [{"open", "leave"} -> Nat] /\ (form = "scan" => timers'["open"] = 0)
    BY <1>1, <1>2 DEF FormTypes
  <1>4. ~reopened => clockings = <<>>
    BY <1>1, NoneOnItsWay
  <1>5. FormsBusy'
    <2>1. form = "scan" => clockings = <<>>
      BY <1>2, <1>4 DEF FormsBusy, ScanBusy
    <2>2. clockings = <<>> => ~reopened' /\ clockings' = <<>>
      BY <1>1
    <2>3. form = "scan" => ScanBusy'
      BY <1>3, <2>1, <2>2 DEF ScanBusy
    <2>4. form' # "camera" /\ form' # "gps" /\ locating' = 0
      BY <1>1, <1>2 DEF FormsBusy
    <2>. QED
      BY <1>1, <2>3, <2>4 DEF FormsBusy
  <1>6. locating' \in Nat
    BY <1>1, <1>2 DEF FormTypes
  <1>. QED
    BY <1>1, <1>3, <1>4, <1>5, <1>6, ClockingsKept

(* A timer that opens the scan page or the camera again finds no clocking  *)
(* that it waits for; the location screen sets none.                       *)
LEMMA ReopenBusy ==
  ASSUME FormsInv, ClockingForms!Reopen
  PROVE  FormsInv'
  <1>. DEFINE opened == form = "checkin"
  <1>1. /\ timers["open"] > 0 /\ timers' = [timers EXCEPT !["open"] = @ - 1] /\ busy' = FALSE
        /\ UNCHANGED <<form, locating, clockings>>
        /\ reopened' = (clockings' # <<>> /\ (reopened \/ opened))
    BY DEF ClockingForms!Reopen, ClockingForms!Remember
  <1>2. FormTypes /\ FormsBusy /\ OneAwaited
    BY DEF FormsInv
  <1>3. /\ timers["open"] \in Nat /\ timers' \in [{"open", "leave"} -> Nat]
        /\ timers'["open"] = timers["open"] - 1
    BY <1>1, <1>2 DEF FormTypes
  <1>4. form = "scan" => clockings = <<>> /\ timers'["open"] = 0
    BY <1>1, <1>2, <1>3 DEF FormsBusy, ScanBusy
  <1>5. form = "camera" => Awaiting = {} /\ timers'["open"] = 0
    BY <1>1, <1>2, <1>3 DEF FormsBusy, CameraBusy
  <1>6. form # "gps"
    BY <1>1, <1>2 DEF FormsBusy
  <1>7. form = "camera" /\ ~reopened => clockings = <<>>
    BY <1>2, <1>5, ClockingSeq DEF OneAwaited
  <1>8. FormsBusy'
    <2>0. clockings = <<>> => ~reopened' /\ clockings' = <<>>
      BY <1>1
    <2>1. form = "scan" => ScanBusy'
      BY <1>4, <2>0 DEF ScanBusy
    <2>2. form = "camera" => CameraBusy'
      BY <1>1, <1>3, <1>5, SameAwaiting DEF CameraBusy
    <2>. QED
      BY <1>1, <1>2, <1>6, <2>1, <2>2 DEF FormsBusy
  <1>9. ~reopened /\ ~opened => clockings = <<>>
    BY <1>2, <1>4, <1>6, <1>7 DEF FormTypes
  <1>10. locating' \in Nat /\ opened \in BOOLEAN
    BY <1>1, <1>2 DEF FormTypes
  <1>. HIDE DEF opened
  <1>. QED
    BY <1>1, <1>3, <1>8, <1>9, <1>10, ClockingsKept

LEMMA LocatingBusy ==
  ASSUME FormsInv,
         ClockingForms!Locate \/ ClockingForms!Located \/ ClockingForms!NoLocation
  PROVE  FormsInv'
  <1>1. FormTypes /\ FormsBusy
    BY DEF FormsInv
  <1>2. UNCHANGED <<form, clockings, timers>>
    BY DEF ClockingForms!Locate, ClockingForms!Located, ClockingForms!NoLocation
  <1>3. form = "gps" /\ locating' \in Nat
    <2>1. locating \in Nat /\ (form # "gps" => locating = 0)
      BY <1>1 DEF FormTypes, FormsBusy
    <2>2. CASE ClockingForms!Locate
      BY <2>1, <2>2 DEF ClockingForms!Locate
    <2>3. CASE ClockingForms!Located
      BY <2>1, <2>3 DEF ClockingForms!Located
    <2>4. CASE ClockingForms!NoLocation
      BY <2>1, <2>4 DEF ClockingForms!NoLocation
    <2>. QED
      BY <2>2, <2>3, <2>4
  <1>4. FormsBusy'
    BY <1>1, <1>2, <1>3 DEF FormsBusy
  <1>5. timers' \in [{"open", "leave"} -> Nat]
    BY <1>1, <1>2 DEF FormTypes
  <1>6. CASE ClockingForms!Locate
    <2>1. step' = "locating" /\ reopened' = (clockings' # <<>> /\ (reopened \/ FALSE))
      BY <1>6 DEF ClockingForms!Locate, ClockingForms!Remember
    <2>. QED
      BY <1>2, <1>3, <1>4, <1>5, <2>1, ClockingsKept
  <1>7. CASE ~ClockingForms!Locate
    <2>1. reopened' = (clockings' # <<>> /\ (reopened \/ TRUE))
      BY <1>7 DEF ClockingForms!Located, ClockingForms!NoLocation, ClockingForms!Remember
    <2>. QED
      BY <1>2, <1>3, <1>4, <1>5, <2>1, ClockingsKept
  <1>. QED
    BY <1>6, <1>7

LEMMA Unawaited ==
  ASSUME FormTypes, NEW v \in BOOLEAN,
         clockings' = [i \in DOMAIN clockings |-> [clockings[i] EXCEPT !.awaited = v]]
  PROVE  /\ clockings' \in Seq(Clocking)
         /\ \A i \in DOMAIN clockings' : clockings'[i].awaited = v
  <1>1. /\ Len(clockings) \in Nat /\ DOMAIN clockings = 1..Len(clockings)
        /\ \A k \in DOMAIN clockings : clockings[k] \in Clocking
    BY ClockingSeq
  <1>2. ASSUME NEW c \in Clocking
        PROVE  [c EXCEPT !.awaited = v] \in Clocking /\ [c EXCEPT !.awaited = v].awaited = v
    BY DEF Clocking
  <1>3. clockings' \in [1..Len(clockings) -> Clocking]
    BY <1>1, <1>2
  <1>4. clockings' \in Seq(Clocking)
    BY <1>1, <1>3, SeqDef
  <1>. QED
    BY <1>1, <1>2, <1>4

LEMMA LeaveBusy ==
  ASSUME FormsInv, ClockingForms!Leave
  PROVE  FormsInv'
  <1>1. /\ form \in {"camera", "gps"} /\ form' = form /\ locating' = 0
        /\ \/ timers' = [timers EXCEPT !["open"] = 0]
           \/ timers["leave"] > 0
              /\ timers' = [timers EXCEPT !["open"] = 0, !["leave"] = @ - 1]
        /\ clockings' = [i \in DOMAIN clockings |-> [clockings[i] EXCEPT !.awaited = FALSE]]
        /\ reopened' = (clockings' # <<>>)
    BY DEF ClockingForms!Leave, ClockingForms!Remember, ClockingForms!App
  <1>2. FormTypes
    BY DEF FormsInv
  <1>3. timers' \in [{"open", "leave"} -> Nat] /\ timers'["open"] = 0
    BY <1>1, <1>2 DEF FormTypes
  <1>4. \A v \in BOOLEAN :
          clockings' = [i \in DOMAIN clockings |-> [clockings[i] EXCEPT !.awaited = v]] =>
            /\ clockings' \in Seq(Clocking)
            /\ \A i \in DOMAIN clockings' : clockings'[i].awaited = v
    BY <1>2, Unawaited
  <1>5. clockings' \in Seq(Clocking) /\ \A i \in DOMAIN clockings' : clockings'[i].awaited = FALSE
    <2>1. FALSE \in BOOLEAN
      OBVIOUS
    <2>. HIDE DEF Clocking
    <2>. QED
      BY <1>1, <1>4, <2>1, Zenon
  <1>6. Awaiting' = {}
    BY <1>5 DEF Awaiting
  <1>7. FormTypes'
    BY <1>1, <1>2, <1>3, <1>5 DEF FormTypes
  <1>8. OneAwaited'
    <2>1. ~reopened' => clockings' = <<>>
      BY <1>1
    <2>2. clockings' = <<>> => Len(clockings') = 0 /\ DOMAIN clockings' = {}
      OBVIOUS
    <2>. QED
      BY <1>6, <2>1, <2>2 DEF OneAwaited
  <1>9. FormsBusy'
    BY <1>1, <1>3, <1>6 DEF FormsBusy, CameraBusy
  <1>. QED
    BY <1>7, <1>8, <1>9 DEF FormsInv

LEMMA GoHomeBusy ==
  ASSUME FormsInv, ClockingForms!GoHome
  PROVE  FormsInv'
  <1>1. /\ timers["leave"] > 0 /\ timers' = [timers EXCEPT !["leave"] = @ - 1]
        /\ UNCHANGED <<form, step, busy, locating, clockings, reopened>>
    BY DEF ClockingForms!GoHome
  <1>2. FormTypes /\ OneAwaited /\ FormsBusy
    BY DEF FormsInv
  <1>3. timers' \in [{"open", "leave"} -> Nat] /\ timers'["open"] = timers["open"]
    BY <1>1, <1>2 DEF FormTypes
  <1>4. FormTypes' /\ Awaiting' = Awaiting
    BY <1>1, <1>2, <1>3, SameAwaiting DEF FormTypes
  <1>5. OneAwaited'
    BY <1>1, <1>2, <1>4 DEF OneAwaited
  <1>6. FormsBusy'
    BY <1>1, <1>2, <1>3, <1>4 DEF FormsBusy, ScanBusy, CameraBusy
  <1>. QED
    BY <1>4, <1>5, <1>6 DEF FormsInv

LEMMA OpenBusy ==
  ASSUME FormsInv, ClockingForms!Open
  PROVE  FormsInv'
  <1>1. /\ step = "left" /\ busy' = FALSE
        /\ UNCHANGED <<form, clockings, timers>>
        /\ reopened' = (clockings' # <<>> /\ (reopened \/ FALSE))
    BY DEF ClockingForms!Open, ClockingForms!Remember
  <1>2. FormTypes /\ FormsBusy
    BY DEF FormsInv
  <1>3. locating' \in Nat /\ (form # "gps" => locating' = 0)
    BY DEF ClockingForms!Open, ClockingForms!AtFirst
  <1>4. ~reopened => clockings = <<>>
    BY <1>1, NoneOnItsWay
  <1>5. timers["open"] \in Nat /\ timers' \in [{"open", "leave"} -> Nat]
    BY <1>1, <1>2 DEF FormTypes
  <1>6. form = "scan" => ScanBusy'
    BY <1>1, <1>2, <1>4, <1>5 DEF FormsBusy, ScanBusy
  <1>7. form = "camera" => CameraBusy'
    BY <1>1, <1>2, <1>5, SameAwaiting DEF FormsBusy, CameraBusy
  <1>8. FormsBusy'
    BY <1>1, <1>2, <1>3, <1>6, <1>7 DEF FormsBusy
  <1>. QED
    BY <1>1, <1>3, <1>4, <1>5, <1>8, ClockingsKept

LEMMA FormsNext == FormsInv /\ [ClockingForms!Next]_(ClockingForms!vars) => FormsInv'
  <1>. SUFFICES ASSUME FormsInv, [ClockingForms!Next]_(ClockingForms!vars) PROVE FormsInv'
    OBVIOUS
  <1>1. CASE UNCHANGED ClockingForms!vars
    <2>1. UNCHANGED <<form, step, busy, locating, clockings, timers, reopened>>
      BY <1>1 DEF ClockingForms!vars
    <2>2. FormTypes /\ OneAwaited /\ FormsBusy
      BY DEF FormsInv
    <2>3. FormTypes' /\ Awaiting' = Awaiting
      BY <2>1, <2>2, SameAwaiting DEF FormTypes
    <2>4. OneAwaited' /\ FormsBusy'
      BY <2>1, <2>2, <2>3 DEF OneAwaited, FormsBusy, ScanBusy, CameraBusy
    <2>. QED
      BY <2>3, <2>4 DEF FormsInv
  <1>. QED
    BY <1>1, SubmitBusy, ResetBusy, ReopenBusy, LocatingBusy, LeaveBusy, GoHomeBusy,
       OpenBusy, SendBusy, AnswersBusy DEF ClockingForms!Next

(* A button sends one request at a time, a form one clocking, but for what *)
(* `early` and `reopened` record (the flags of the pages; scan/page.tsx:61,*)
(* scan.tsx:60-61).                                                        *)
THEOREM ClientsOneRequestAtATime == ClientsSpec => []OneRequestAtATime
  <1>. DEFINE Inv == ScreenSound /\ FlagInv /\ FormsInv
  <1>1. ClientsInit => Inv
    BY ScreenInit, FlagInit, FormsInit DEF ClientsInit
  <1>2. Inv /\ [ClientsNext]_<<part, vars, screenVars, formVars>> => Inv'
    <2>1. [ClientsNext]_<<part, vars, screenVars, formVars>> =>
            [Screens!Next]_(Screens!vars) /\ [ClockingForms!Next]_(ClockingForms!vars)
      BY DEF ClientsNext, screenVars, formVars, Screens!vars, ClockingForms!vars
    <2>. QED
      BY <2>1, ScreenNext, FlagNext, FormsNext
  <1>3. Inv => OneRequestAtATime
    <2>1. FlagInv => Screens!OneAtATime
      BY OneAskedAtATime DEF FlagInv
    <2>2. FormsInv => ClockingForms!OneClockingAtATime
      BY DEF FormsInv, FormTypes, OneAwaited, ClockingForms!OneClockingAtATime
    <2>. QED
      BY <2>1, <2>2 DEF OneRequestAtATime
  <1>. QED
    BY <1>1, <1>2, <1>3, PTL DEF ClientsSpec
==============================================================================
