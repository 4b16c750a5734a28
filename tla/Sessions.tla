------------------------------ MODULE Sessions ------------------------------
(***************************************************************************)
(* The sessions of one user: login, refresh with rotation and detection of *)
(* reuse, logout, the change and the reset of the password, and the hourly *)
(* cleanup. Every statement is its own step: a handler acts on what it has *)
(* read, whatever has happened since. A token is the row that stores its   *)
(* hash; a client may present any token it was ever given.                 *)
(*                                                                         *)
(* Lockout, roles and memberships, the initial password (the change of     *)
(* password without its check) and the PIN are left out; no code makes a   *)
(* user inactive.                                                          *)
(***************************************************************************)
EXTENDS Integers

CONSTANTS
  Requests,      \* the handlers that may be in progress at once
  Links,         \* the reset links that can be sent
  MaxSessions,   \* bound: the rows of user_sessions
  MaxPassword    \* bound: how often the password is set

ASSUME SessionsAssumption == MaxSessions \in Nat /\ MaxPassword \in Nat

Ids == 1..MaxSessions      \* in the order of creation
Passwords == 0..MaxPassword
NoLogin == 0

Idle == [op |-> "idle"]
RequestStates ==
  {Idle}
  \cup [op : {"login"}, seen : Passwords]
  \cup [op : {"rotate", "logout"}, session : Ids]
  \cup [op : {"change", "link"}]
  \cup [op : {"reset"}, link : Links]
  \cup [op : {"use"}, link : Links, floor : Passwords]
  \cup [op : {"wipe"}, floor : Passwords]
  \cup [op : {"delete"}, rows : SUBSET Ids, floor : Passwords]

VARIABLES
  session,    \* id -> "none", isValid "valid" or "rotated", "deleted"
  created,    \* the rows created so far
  expired,    \* the rows 1..expired are past expiresAt
  password,   \* how often the password has been set
  links,      \* link -> "none", "usable", "used", "expired", "deleted"
  request,    \* handler -> what it has read and does next
  login,      \* history: id -> the first session of its login
  proof,      \* history: login -> the password it verified
  late,       \* history: logins that verified a password replaced since
  forked,     \* history: logins one session of which was refreshed twice at once
  slipped,    \* history: logins refreshed while all sessions were deleted
  revoked,    \* history: logins ended by a logout or by deleting all sessions
  floor       \* history: the newest password whose reset has ended the sessions

rows == <<session, created, login, proof>>
marks == <<late, forked, slipped, revoked, floor>>
vars == <<rows, expired, password, links, request, marks>>

TypeOK ==
  /\ session \in [Ids -> {"none", "valid", "rotated", "deleted"}]
  /\ created \in 0..MaxSessions
  /\ expired \in 0..created
  /\ password \in Passwords
  /\ links \in [Links -> {"none", "usable", "used", "expired", "deleted"}]
  /\ request \in [Requests -> RequestStates]
  /\ login \in [Ids -> Ids \cup {NoLogin}]
  /\ proof \in [Ids -> Passwords]
  /\ late \subseteq Ids /\ forked \subseteq Ids
  /\ slipped \subseteq Ids /\ revoked \subseteq Ids
  /\ floor \in Passwords

Init ==
  /\ session = [s \in Ids |-> "none"]
  /\ created = 0 /\ expired = 0 /\ password = 0
  /\ links = [l \in Links |-> "none"]
  /\ request = [r \in Requests |-> Idle]
  /\ login = [s \in Ids |-> NoLogin]
  /\ proof = [s \in Ids |-> 0]
  /\ late = {} /\ forked = {} /\ slipped = {} /\ revoked = {}
  /\ floor = 0

-----------------------------------------------------------------------------
Kept(s) == session[s] \in {"valid", "rotated"}
Usable(s) == session[s] = "valid" /\ s > expired

Goes(r, state) == request' = [request EXCEPT ![r] = state]

(* A new row, of login f; updated is the table it is added to. *)
Create(updated, f) ==
  /\ created < MaxSessions
  /\ created' = created + 1
  /\ session' = [updated EXCEPT ![created + 1] = "valid"]
  /\ login' = [login EXCEPT ![created + 1] = f]

-----------------------------------------------------------------------------
(* Login and logout.                                                       *)

LoginCheck(r) ==
  /\ request[r] = Idle
  /\ Goes(r, [op |-> "login", seen |-> password])
  /\ UNCHANGED <<rows, expired, password, links, marks>>

LoginCreate(r) ==
  /\ request[r].op = "login"
  /\ Create(session, created + 1)
  /\ proof' = [proof EXCEPT ![created + 1] = request[r].seen]
  /\ late' = IF request[r].seen < password THEN late \cup {created + 1} ELSE late
  /\ Goes(r, Idle)
  /\ UNCHANGED <<expired, password, links, forked, slipped, revoked, floor>>

(* The middleware has found the session of the access token. *)
LogoutCheck(r, s) ==
  /\ request[r] = Idle /\ Usable(s)
  /\ Goes(r, [op |-> "logout", session |-> s])
  /\ UNCHANGED <<rows, expired, password, links, marks>>

(* A refresh that came in between has left a newer session of the login. *)
LogoutDelete(r) ==
  /\ request[r].op = "logout"
  /\ LET s == request[r].session IN
       /\ session' = [session EXCEPT ![s] = "deleted"]
       /\ revoked' = IF session[s] = "valid" /\ login[s] \notin forked
                     THEN revoked \cup {login[s]} ELSE revoked
  /\ Goes(r, Idle)
  /\ UNCHANGED <<created, login, proof, expired, password, links, late, forked, slipped, floor>>

-----------------------------------------------------------------------------
(* Refresh.                                                                *)

Refreshing(s) == \E q \in Requests : request[q] = [op |-> "rotate", session |-> s]

RefreshRead(r, s) ==
  /\ request[r] = Idle /\ Usable(s)
  /\ Goes(r, [op |-> "rotate", session |-> s])
  /\ forked' = IF Refreshing(s) THEN forked \cup {login[s]} ELSE forked
  /\ UNCHANGED <<rows, expired, password, links, late, slipped, revoked, floor>>

(* The token has been rotated before: every session of the user shall go. *)
RefreshReuse(r, s) ==
  /\ request[r] = Idle /\ session[s] = "rotated"
  /\ Goes(r, [op |-> "wipe", floor |-> 0])
  /\ UNCHANGED <<rows, expired, password, links, marks>>

Deleting(s) == \E q \in Requests : request[q].op = "delete" /\ s \in request[q].rows

(* The update by id throws when the row is gone, and the transaction with  *)
(* it: nothing is created. It does not look at isValid again.              *)
RotatableBlindly(s) == session[s] # "none"
Rotatable(s) == Kept(s)

RotatedAddingOnly(s) == session
Rotated(s) == [session EXCEPT ![s] = "rotated"]

Rotate(r) ==
  /\ request[r].op = "rotate"
  /\ LET s == request[r].session IN
       /\ Rotatable(s)
       /\ Create(Rotated(s), login[s])
       /\ slipped' = IF Deleting(s) THEN slipped \cup {login[s]} ELSE slipped
  /\ Goes(r, Idle)
  /\ UNCHANGED <<expired, password, links, proof, late, forked, revoked, floor>>

(* deleteMany: the statement sees the rows committed when it starts, and   *)
(* waits for those another transaction is updating.                        *)
WipedValid == {s \in Ids : session[s] = "valid"}
Wiped == {s \in Ids : Kept(s)}

WipeStart(r) ==
  /\ request[r].op = "wipe"
  /\ Goes(r, [op |-> "delete", rows |-> Wiped, floor |-> request[r].floor])
  /\ UNCHANGED <<rows, expired, password, links, marks>>

WipeDelete(r) ==
  /\ request[r].op = "delete"
  /\ session' = [s \in Ids |-> IF s \in request[r].rows THEN "deleted" ELSE session[s]]
  /\ revoked' = revoked \cup {login[s] : s \in request[r].rows}
  /\ floor' = IF request[r].floor > floor THEN request[r].floor ELSE floor
  /\ Goes(r, Idle)
  /\ UNCHANGED <<created, login, proof, expired, password, links, late, forked, slipped>>

-----------------------------------------------------------------------------
(* The password.                                                           *)

SetPassword ==
  /\ password < MaxPassword
  /\ password' = password + 1

(* A logged-in user gives the current password with the new one; the other *)
(* sessions stay.                                                          *)
ChangePasswordRead(r, s) ==
  /\ request[r] = Idle /\ Usable(s)
  /\ Goes(r, [op |-> "change"])
  /\ UNCHANGED <<rows, expired, password, links, marks>>

ChangePasswordWrite(r) ==
  /\ request[r].op = "change"
  /\ SetPassword
  /\ Goes(r, Idle)
  /\ UNCHANGED <<rows, expired, links, marks>>

(* Only the newest link shall be usable: the others go first. *)
ForgotPasswordDelete(r) ==
  /\ request[r] = Idle
  /\ links' = [l \in Links |-> IF links[l] = "none" THEN "none" ELSE "deleted"]
  /\ Goes(r, [op |-> "link"])
  /\ UNCHANGED <<rows, expired, password, marks>>

ForgotPasswordCreate(r, l) ==
  /\ request[r].op = "link" /\ links[l] = "none"
  /\ links' = [links EXCEPT ![l] = "usable"]
  /\ Goes(r, Idle)
  /\ UNCHANGED <<rows, expired, password, marks>>

ResetPasswordRead(r, l) ==
  /\ request[r] = Idle /\ links[l] = "usable"
  /\ Goes(r, [op |-> "reset", link |-> l])
  /\ UNCHANGED <<rows, expired, password, links, marks>>

ResetPasswordWrite(r) ==
  /\ request[r].op = "reset"
  /\ SetPassword
  /\ Goes(r, [op |-> "use", link |-> request[r].link, floor |-> password + 1])
  /\ UNCHANGED <<rows, expired, links, marks>>

(* The update by id throws when another request has deleted the link: the  *)
(* password is changed then and the sessions stay (Fail).                  *)
MarkedAsSpent(l) == [links EXCEPT ![l] = "spent"]
Marked(l) == [links EXCEPT ![l] = "used"]

ResetPasswordUse(r) ==
  /\ request[r].op = "use" /\ links[request[r].link] # "deleted"
  /\ links' = Marked(request[r].link)
  /\ Goes(r, [op |-> "wipe", floor |-> request[r].floor])
  /\ UNCHANGED <<rows, expired, password, marks>>

(* A statement throws, or the server stops: nobody goes on from there. *)
Fail(r) ==
  /\ request[r] # Idle
  /\ Goes(r, Idle)
  /\ UNCHANGED <<rows, expired, password, links, marks>>

-----------------------------------------------------------------------------
(* Time, and what the server cleans up every hour.                         *)

(* An access token and the row that stores it expire together, the older   *)
(* row first.                                                              *)
Expire ==
  /\ expired < created
  /\ expired' = expired + 1
  /\ UNCHANGED <<rows, password, links, request, marks>>

LinkExpire(l) ==
  /\ links[l] = "usable"
  /\ links' = [links EXCEPT ![l] = "expired"]
  /\ UNCHANGED <<rows, expired, password, request, marks>>

Outdated(s) == session[s] = "rotated" \/ (session[s] = "valid" /\ s <= expired)

CleanExpiredSessions ==
  /\ \E s \in Ids : Outdated(s)
  /\ session' = [s \in Ids |-> IF Outdated(s) THEN "deleted" ELSE session[s]]
  /\ UNCHANGED <<created, login, proof, expired, password, links, request, marks>>

RequestNext(r) ==
  \/ LoginCheck(r)
  \/ LoginCreate(r)
  \/ LogoutDelete(r)
  \/ Rotate(r)
  \/ WipeStart(r)
  \/ WipeDelete(r)
  \/ ChangePasswordWrite(r)
  \/ ForgotPasswordDelete(r)
  \/ ResetPasswordWrite(r)
  \/ ResetPasswordUse(r)
  \/ Fail(r)

TokenNext(r, s) ==
  \/ LogoutCheck(r, s)
  \/ RefreshRead(r, s)
  \/ RefreshReuse(r, s)
  \/ ChangePasswordRead(r, s)

LinkNext(r, l) == ForgotPasswordCreate(r, l) \/ ResetPasswordRead(r, l)

Next ==
  \/ \E r \in Requests : RequestNext(r)
  \/ \E r \in Requests, s \in Ids : TokenNext(r, s)
  \/ \E r \in Requests, l \in Links : LinkNext(r, l)
  \/ \E l \in Links : LinkExpire(l)
  \/ Expire
  \/ CleanExpiredSessions

Spec == Init /\ [][Next]_vars

-----------------------------------------------------------------------------
(* A login that was ended stays ended: once its user has logged out of it, *)
(* or all sessions have been deleted, no refresh that had read a session   *)
(* before, and no replayed token, brings it back. The one gap is a refresh *)
(* that commits while the deletion is running.                             *)
RevokedStaysRevoked ==
  \A s \in Ids : session[s] = "valid" => login[s] \notin revoked \ slipped

(* Rotation leaves a login one valid token, unless one token was refreshed *)
(* twice at once.                                                          *)
OneValidPerLogin ==
  \A s, t \in Ids :
    /\ session[s] = "valid" /\ session[t] = "valid"
    /\ login[s] = login[t] /\ login[s] \notin forked
    => s = t

(* A finished reset of the password ends every session that began with an  *)
(* older password, except where a login or a refresh overlapped it.        *)
ResetEndsSessions ==
  \A s \in Ids :
    session[s] = "valid" /\ login[s] \notin late \cup slipped => proof[login[s]] >= floor
=============================================================================
