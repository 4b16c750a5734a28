--------------------------- MODULE SessionsProofs ---------------------------
(***************************************************************************)
(* Theorems about Sessions, for every number of requests, links, rows and  *)
(* passwords: the types, one valid token per login, a revoked login stays  *)
(* revoked, and a finished reset ends the sessions of older passwords.     *)
(***************************************************************************)
EXTENDS Ends, Sequences, SequenceTheorems, TLAPS

(* Rows are numbered as they are created, and no handler and no history    *)
(* knows of one that is not there yet.                                     *)
Numbered ==
  /\ \A s \in Ids : /\ s <= created => session[s] # "none" /\ login[s] \in 1..created
                    /\ s > created => session[s] = "none"
  /\ \A r \in Requests :
       /\ request[r].op \in {"rotate", "logout"} => request[r].session <= created
       /\ request[r].op = "delete" => request[r].rows \subseteq 1..created
  /\ \A f \in late \cup forked \cup slipped \cup revoked : f <= created

(* No handler has read, or owes the sessions an end for, a password that   *)
(* has not been set.                                                       *)
PasswordsSet ==
  /\ floor <= password
  /\ \A r \in Requests :
       /\ request[r].op = "login" => request[r].seen <= password
       /\ request[r].op \in {"use", "wipe", "delete"} => request[r].floor <= password

TypeInv == TypeOK /\ Numbered /\ PasswordsSet

-----------------------------------------------------------------------------
(* The fields of a handler's state, by what it does next.                  *)
LEMMA RequestFields ==
  ASSUME NEW q \in RequestStates
  PROVE  /\ q.op = "login" => q.seen \in Passwords
         /\ q.op \in {"rotate", "logout"} => q.session \in Ids
         /\ q.op = "rotate" => q = [op |-> "rotate", session |-> q.session]
         /\ q.op \in {"reset", "use"} => q.link \in Links
         /\ q.op \in {"use", "wipe", "delete"} => q.floor \in Passwords
         /\ q.op = "delete" => q.rows \in SUBSET Ids
  BY DEF RequestStates, Idle

(* A new row extends the numbering.                                        *)
LEMMA CreateNumbers ==
  ASSUME TypeInv, NEW updated \in [Ids -> {"none", "valid", "rotated", "deleted"}],
         \A s \in Ids : updated[s] = "none" <=> session[s] = "none",
         NEW f \in 1..(created + 1), Create(updated, f)
  PROVE  /\ created + 1 \in Ids /\ created' = created + 1 /\ created' \in 0..MaxSessions
         /\ session' \in [Ids -> {"none", "valid", "rotated", "deleted"}]
         /\ login' \in [Ids -> Ids \cup {NoLogin}]
         /\ session'[created + 1] = "valid" /\ login'[created + 1] = f
         /\ \A s \in Ids \ {created + 1} : session'[s] = updated[s] /\ login'[s] = login[s]
         /\ \A s \in Ids : /\ s <= created' => session'[s] # "none" /\ login'[s] \in 1..created'
                           /\ s > created' => session'[s] = "none"
<1> USE SessionsAssumption DEF Ids, TypeInv, TypeOK
<1>1. created \in Nat /\ created < MaxSessions /\ created' = created + 1
  BY DEF Create
<1>2. created + 1 \in Ids /\ created' \in 0..MaxSessions
  BY <1>1
<1>3. /\ session' = [updated EXCEPT ![created + 1] = "valid"]
      /\ login' = [login EXCEPT ![created + 1] = f]
  BY DEF Create
<1>4. /\ session' \in [Ids -> {"none", "valid", "rotated", "deleted"}]
      /\ login' \in [Ids -> Ids \cup {NoLogin}]
  BY <1>1, <1>2, <1>3
<1>5. /\ session'[created + 1] = "valid" /\ login'[created + 1] = f
      /\ \A s \in Ids \ {created + 1} : session'[s] = updated[s] /\ login'[s] = login[s]
  BY <1>2, <1>3
<1>6. ASSUME NEW s \in Ids
      PROVE  /\ s <= created' => session'[s] # "none" /\ login'[s] \in 1..created'
             /\ s > created' => session'[s] = "none"
  <2>1. CASE s = created + 1
    BY <1>1, <1>5, <2>1
  <2>2. CASE s # created + 1
    <3>1. session'[s] = updated[s] /\ login'[s] = login[s]
      BY <1>5, <2>2
    <3>2. s <= created' <=> s <= created
      BY <1>1, <2>2
    <3> QED  BY <1>1, <3>1, <3>2 DEF Numbered
  <2> QED  BY <2>1, <2>2
<1> QED  BY <1>1, <1>2, <1>4, <1>5, <1>6

(* What a handler goes on with knows rows and passwords that are there.    *)
LEMMA GoesTypes ==
  ASSUME TypeInv, NEW r \in Requests, NEW q \in RequestStates, Goes(r, q),
         created' \in 0..MaxSessions, created <= created',
         password' \in Passwords, password <= password',
         q.op \in {"rotate", "logout"} => q.session <= created,
         q.op = "delete" => q.rows \subseteq 1..created,
         q.op = "login" => q.seen <= password',
         q.op \in {"use", "wipe", "delete"} => q.floor <= password'
  PROVE  /\ request' \in [Requests -> RequestStates]
         /\ \A p \in Requests :
              /\ request'[p].op \in {"rotate", "logout"} => request'[p].session <= created'
              /\ request'[p].op = "delete" => request'[p].rows \subseteq 1..created'
              /\ request'[p].op = "login" => request'[p].seen <= password'
              /\ request'[p].op \in {"use", "wipe", "delete"} => request'[p].floor <= password'
<1>1. request' = [request EXCEPT ![r] = q] /\ request \in [Requests -> RequestStates]
  BY DEF Goes, TypeInv, TypeOK
<1>2. created \in Nat /\ password \in Nat /\ created' \in Nat /\ password' \in Nat
  BY SessionsAssumption DEF TypeInv, TypeOK, Passwords
<1>3. request' \in [Requests -> RequestStates]
  BY <1>1
<1>4. ASSUME NEW p \in Requests
      PROVE  /\ request'[p].op \in {"rotate", "logout"} => request'[p].session <= created'
             /\ request'[p].op = "delete" => request'[p].rows \subseteq 1..created'
             /\ request'[p].op = "login" => request'[p].seen <= password'
             /\ request'[p].op \in {"use", "wipe", "delete"} => request'[p].floor <= password'
  <2>1. CASE p = r
    <3>1. request'[p] = q
      BY <1>1, <2>1
    <3> QED  BY <1>2, <3>1, RequestFields DEF Ids, Passwords
  <2>2. CASE p # r
    <3>1. request'[p] = request[p] /\ request[p] \in RequestStates
      BY <1>1, <2>2
    <3> QED  BY <1>2, <3>1, RequestFields DEF TypeInv, Numbered, PasswordsSet, Ids, Passwords
  <2> QED  BY <2>1, <2>2
<1> QED  BY <1>3, <1>4

(* A step that adds no row and sets no password keeps the types.           *)
LEMMA RowsTypes ==
  ASSUME TypeInv, UNCHANGED <<created, login, proof, password>>,
         expired' \in 0..created,
         session' \in [Ids -> {"none", "valid", "rotated", "deleted"}],
         \A s \in Ids : session'[s] = "none" <=> session[s] = "none",
         links' \in [Links -> {"none", "usable", "used", "expired", "deleted"}],
         late' = late, slipped' = slipped,
         forked' \subseteq 1..created, revoked' \subseteq 1..created,
         floor' \in Passwords, floor' <= password,
         \/ request' = request
         \/ \E r \in Requests, q \in RequestStates :
              /\ Goes(r, q)
              /\ q.op \in {"rotate", "logout"} => q.session <= created
              /\ q.op = "delete" => q.rows \subseteq 1..created
              /\ q.op = "login" => q.seen <= password
              /\ q.op \in {"use", "wipe", "delete"} => q.floor <= password
  PROVE  TypeInv'
<1>1. /\ created \in 0..MaxSessions /\ created' = created /\ created \in Nat
      /\ password \in Passwords /\ password' = password /\ password \in Nat
  BY SessionsAssumption DEF TypeInv, TypeOK, Passwords
<1>2. /\ request' \in [Requests -> RequestStates]
      /\ \A p \in Requests :
           /\ request'[p].op \in {"rotate", "logout"} => request'[p].session <= created'
           /\ request'[p].op = "delete" => request'[p].rows \subseteq 1..created'
           /\ request'[p].op = "login" => request'[p].seen <= password'
           /\ request'[p].op \in {"use", "wipe", "delete"} => request'[p].floor <= password'
  <2>1. CASE request' = request
    BY <1>1, <2>1 DEF TypeInv, TypeOK, Numbered, PasswordsSet
  <2>2. CASE request' # request
    <3>1. PICK r \in Requests, q \in RequestStates :
               /\ Goes(r, q)
               /\ q.op \in {"rotate", "logout"} => q.session <= created
               /\ q.op = "delete" => q.rows \subseteq 1..created
               /\ q.op = "login" => q.seen <= password
               /\ q.op \in {"use", "wipe", "delete"} => q.floor <= password
      BY <2>2
    <3> QED  BY <1>1, <3>1, GoesTypes
  <2> QED  BY <2>1, <2>2
<1>3. 1..created \subseteq Ids
  BY <1>1, SessionsAssumption DEF Ids
<1>4. TypeOK'
  BY <1>1, <1>2, <1>3 DEF TypeInv, TypeOK
<1>5. Numbered'
  <2>1. \A s \in Ids : /\ s <= created' => session'[s] # "none" /\ login'[s] \in 1..created'
                       /\ s > created' => session'[s] = "none"
    BY <1>1 DEF TypeInv, Numbered
  <2>2. ASSUME NEW f \in (late \cup forked \cup slipped \cup revoked)'
        PROVE  f <= created'
    <3>1. CASE f \in late \cup slipped
      BY <1>1, <3>1 DEF TypeInv, Numbered
    <3>2. CASE f \in forked' \cup revoked'
      BY <1>1, <3>2
    <3> QED  BY <2>2, <3>1, <3>2
  <2> QED  BY <1>2, <2>1, <2>2 DEF Numbered
<1>6. PasswordsSet'
  BY <1>1, <1>2 DEF TypeInv, PasswordsSet
<1> QED  BY <1>4, <1>5, <1>6 DEF TypeInv

LEMMA InitTypes == Init => TypeInv
<1> SUFFICES ASSUME Init PROVE TypeInv
  OBVIOUS
<1>1. TypeOK
  BY SessionsAssumption DEF Init, TypeOK, RequestStates, Passwords
<1>2. Numbered
  BY SessionsAssumption DEF Init, Numbered, Ids, Idle
<1>3. PasswordsSet
  BY DEF Init, PasswordsSet, Idle
<1> QED  BY <1>1, <1>2, <1>3 DEF TypeInv

(* The steps of a handler that change no row.                              *)
LEMMA ReadTypes ==
  ASSUME TypeInv, NEW r \in Requests,
         \/ LoginCheck(r) \/ Fail(r) \/ WipeStart(r) \/ ResetPasswordUse(r)
         \/ ForgotPasswordDelete(r)
         \/ \E s \in Ids : TokenNext(r, s)
         \/ \E l \in Links : LinkNext(r, l)
  PROVE  TypeInv'
<1>1. /\ request[r] \in RequestStates /\ password \in Passwords /\ password \in Nat
      /\ floor \in Passwords /\ floor <= password /\ Passwords \subseteq Nat
      /\ created \in 0..MaxSessions /\ expired \in 0..created
      /\ forked \subseteq 1..created /\ revoked \subseteq 1..created
  BY SessionsAssumption DEF TypeInv, TypeOK, Numbered, PasswordsSet, Passwords, Ids
<1>2. CASE LoginCheck(r)
  <2>1. [op |-> "login", seen |-> password] \in RequestStates
    BY <1>1 DEF RequestStates
  <2> QED  BY <1>1, <1>2, <2>1, RowsTypes DEF LoginCheck, rows, marks, TypeInv, TypeOK
<1>3. CASE Fail(r)
  <2>1. Idle \in RequestStates /\ Idle.op = "idle"
    BY DEF RequestStates, Idle
  <2> QED  BY <1>1, <1>3, <2>1, RowsTypes DEF Fail, rows, marks, TypeInv, TypeOK
<1>4. CASE WipeStart(r)
  <2> DEFINE q == [op |-> "delete", rows |-> Wiped, floor |-> request[r].floor]
  <2>1. request[r].op = "wipe" /\ request[r].floor \in Passwords /\ request[r].floor <= password
    BY <1>1, <1>4, RequestFields DEF WipeStart, TypeInv, PasswordsSet
  <2>2. Wiped \in SUBSET Ids
    BY DEF Wiped
  <2>3. Wiped \subseteq 1..created
    BY <1>1, SessionsAssumption DEF Wiped, Kept, Ids, TypeInv, Numbered
  <2>4. q \in RequestStates /\ q.op = "delete" /\ q.rows = Wiped /\ q.floor = request[r].floor
    BY <2>1, <2>2 DEF RequestStates
  <2>5. Goes(r, q)
    BY <1>4 DEF WipeStart
  <2> HIDE DEF q
  <2> QED  BY <1>1, <1>4, <2>1, <2>3, <2>4, <2>5, RowsTypes
              DEF WipeStart, rows, marks, TypeInv, TypeOK
<1>5. CASE ResetPasswordUse(r)
  <2> DEFINE q == [op |-> "wipe", floor |-> request[r].floor]
  <2>1. /\ request[r].op = "use" /\ request[r].floor \in Passwords
        /\ request[r].floor <= password /\ request[r].link \in Links
    BY <1>1, <1>5, RequestFields DEF ResetPasswordUse, TypeInv, PasswordsSet
  <2>2. q \in RequestStates /\ q.op = "wipe" /\ q.floor = request[r].floor
    BY <2>1 DEF RequestStates
  <2>3. Goes(r, q)
    BY <1>5 DEF ResetPasswordUse
  <2>4. links' \in [Links -> {"none", "usable", "used", "expired", "deleted"}]
    BY <1>5, <2>1 DEF ResetPasswordUse, Marked, TypeInv, TypeOK
  <2> HIDE DEF q
  <2> QED  BY <1>1, <1>5, <2>1, <2>2, <2>3, <2>4, RowsTypes
              DEF ResetPasswordUse, rows, marks, TypeInv, TypeOK
<1>6. CASE ForgotPasswordDelete(r)
  <2>1. [op |-> "link"] \in RequestStates
    BY DEF RequestStates
  <2>2. links' \in [Links -> {"none", "usable", "used", "expired", "deleted"}]
    BY <1>6 DEF ForgotPasswordDelete
  <2> QED  BY <1>1, <1>6, <2>1, <2>2, RowsTypes
              DEF ForgotPasswordDelete, rows, marks, TypeInv, TypeOK
<1>7. ASSUME NEW s \in Ids, TokenNext(r, s)
      PROVE  TypeInv'
  <2>1. s <= created
    BY <1>1, <1>7, SessionsAssumption
       DEF TokenNext, LogoutCheck, RefreshRead, RefreshReuse, ChangePasswordRead, Usable,
           TypeInv, Numbered, Ids
  <2>2. login[s] \in 1..created
    BY <2>1 DEF TypeInv, Numbered
  <2>3. PICK q \in RequestStates :
          /\ Goes(r, q)
          /\ q.op \in {"rotate", "logout"} => q.session <= created
          /\ q.op \notin {"delete", "login", "use"}
          /\ q.op = "wipe" => q.floor = 0
    <3>1. \A x \in {"rotate", "logout"} : [op |-> x, session |-> s] \in RequestStates
      BY DEF RequestStates
    <3>2. [op |-> "wipe", floor |-> 0] \in RequestStates
      BY SessionsAssumption DEF RequestStates, Passwords
    <3>3. [op |-> "change"] \in RequestStates
      BY DEF RequestStates
    <3> QED  BY <1>7, <2>1, <3>1, <3>2, <3>3
                DEF TokenNext, LogoutCheck, RefreshRead, RefreshReuse, ChangePasswordRead
  <2>4. /\ UNCHANGED <<session, created, login, proof, expired, password, links>>
        /\ UNCHANGED <<late, slipped, revoked, floor>>
        /\ forked' \subseteq 1..created
    BY <1>1, <1>7, <2>2
       DEF TokenNext, LogoutCheck, RefreshRead, RefreshReuse, ChangePasswordRead, rows, marks
  <2> QED  BY <1>1, <2>3, <2>4, RowsTypes DEF TypeInv, TypeOK
<1>8. ASSUME NEW l \in Links, LinkNext(r, l)
      PROVE  TypeInv'
  <2>1. Idle \in RequestStates /\ Idle.op = "idle"
    BY DEF RequestStates, Idle
  <2>2. [op |-> "reset", link |-> l] \in RequestStates
    BY DEF RequestStates
  <2>3. links' \in [Links -> {"none", "usable", "used", "expired", "deleted"}]
    BY <1>8 DEF LinkNext, ForgotPasswordCreate, ResetPasswordRead, TypeInv, TypeOK
  <2>4. PICK q \in RequestStates : Goes(r, q) /\ q.op \in {"idle", "reset"}
    BY <1>8, <2>1, <2>2 DEF LinkNext, ForgotPasswordCreate, ResetPasswordRead
  <2>5. UNCHANGED <<rows, expired, password, marks>>
    BY <1>8 DEF LinkNext, ForgotPasswordCreate, ResetPasswordRead
  <2> QED  BY <1>1, <2>3, <2>4, <2>5, RowsTypes DEF rows, marks, TypeInv, TypeOK
<1> QED  BY <1>2, <1>3, <1>4, <1>5, <1>6, <1>7, <1>8

(* The steps that delete rows, and time.                                   *)
LEMMA DeleteTypes ==
  ASSUME TypeInv,
         \/ \E r \in Requests : LogoutDelete(r) \/ WipeDelete(r)
         \/ \E l \in Links : LinkExpire(l)
         \/ Expire \/ CleanExpiredSessions
  PROVE  TypeInv'
<1>1. /\ password \in Passwords /\ password \in Nat /\ floor \in Passwords /\ floor <= password
      /\ created \in 0..MaxSessions /\ created \in Nat /\ expired \in 0..created
      /\ forked \subseteq 1..created /\ revoked \subseteq 1..created
      /\ Idle \in RequestStates /\ Idle.op = "idle"
  BY SessionsAssumption
     DEF TypeInv, TypeOK, Numbered, PasswordsSet, Passwords, Ids, RequestStates, Idle
<1>2. ASSUME NEW r \in Requests, LogoutDelete(r)
      PROVE  TypeInv'
  <2> DEFINE s == request[r].session
  <2>1. s \in Ids /\ s <= created
    BY <1>2, RequestFields DEF LogoutDelete, TypeInv, TypeOK, Numbered
  <2>2. session[s] # "none" /\ login[s] \in 1..created
    BY <2>1 DEF TypeInv, Numbered
  <2>3. session' = [session EXCEPT ![s] = "deleted"] /\ revoked' \subseteq 1..created
    BY <1>1, <1>2, <2>2 DEF LogoutDelete
  <2> HIDE DEF s
  <2>4. /\ session' \in [Ids -> {"none", "valid", "rotated", "deleted"}]
        /\ \A t \in Ids : session'[t] = "none" <=> session[t] = "none"
    BY <2>1, <2>2, <2>3 DEF TypeInv, TypeOK
  <2> QED  BY <1>1, <1>2, <2>3, <2>4, RowsTypes DEF LogoutDelete, TypeInv, TypeOK
<1>3. ASSUME NEW r \in Requests, WipeDelete(r)
      PROVE  TypeInv'
  <2> DEFINE R == request[r].rows
  <2>1. /\ request[r] \in RequestStates /\ request[r].op = "delete"
        /\ R \in SUBSET Ids /\ R \subseteq 1..created
        /\ request[r].floor \in Passwords /\ request[r].floor <= password
    BY <1>3, RequestFields DEF WipeDelete, TypeInv, TypeOK, Numbered, PasswordsSet
  <2>2. \A s \in R : session[s] # "none" /\ login[s] \in 1..created
    BY <1>1, <2>1, SessionsAssumption DEF TypeInv, Numbered, Ids
  <2>3. /\ session' = [s \in Ids |-> IF s \in R THEN "deleted" ELSE session[s]]
        /\ revoked' = revoked \cup {login[s] : s \in R}
    BY <1>3 DEF WipeDelete
  <2>4. revoked' \subseteq 1..created
    BY <1>1, <2>2, <2>3
  <2>5. floor' \in Passwords /\ floor' <= password
    BY <1>1, <1>3, <2>1 DEF WipeDelete
  <2> HIDE DEF R
  <2>6. /\ session' \in [Ids -> {"none", "valid", "rotated", "deleted"}]
        /\ \A t \in Ids : session'[t] = "none" <=> session[t] = "none"
    BY <2>1, <2>2, <2>3 DEF TypeInv, TypeOK
  <2> QED  BY <1>1, <1>3, <2>4, <2>5, <2>6, RowsTypes DEF WipeDelete, TypeInv, TypeOK
<1>4. ASSUME NEW l \in Links, LinkExpire(l)
      PROVE  TypeInv'
  <2>1. links' \in [Links -> {"none", "usable", "used", "expired", "deleted"}]
    BY <1>4 DEF LinkExpire, TypeInv, TypeOK
  <2> QED  BY <1>1, <1>4, <2>1, RowsTypes DEF LinkExpire, rows, marks, TypeInv, TypeOK
<1>5. CASE Expire
  <2>1. expired' \in 0..created
    BY <1>1, <1>5 DEF Expire
  <2> QED  BY <1>1, <1>5, <2>1, RowsTypes DEF Expire, rows, marks, TypeInv, TypeOK
<1>6. CASE CleanExpiredSessions
  <2>1. /\ session' \in [Ids -> {"none", "valid", "rotated", "deleted"}]
        /\ \A t \in Ids : session'[t] = "none" <=> session[t] = "none"
    BY <1>6 DEF CleanExpiredSessions, Outdated, TypeInv, TypeOK
  <2> QED  BY <1>1, <1>6, <2>1, RowsTypes DEF CleanExpiredSessions, marks, TypeInv, TypeOK
<1> QED  BY <1>2, <1>3, <1>4, <1>5, <1>6

(* The steps that set the password.                                        *)
LEMMA PasswordTypes ==
  ASSUME TypeInv, NEW r \in Requests, ChangePasswordWrite(r) \/ ResetPasswordWrite(r)
  PROVE  TypeInv'
<1>1. /\ password \in Nat /\ password < MaxPassword /\ password' = password + 1
      /\ password' \in Passwords /\ floor <= password /\ floor \in Nat
      /\ created \in 0..MaxSessions /\ created \in Nat
  BY SessionsAssumption
     DEF ChangePasswordWrite, ResetPasswordWrite, SetPassword, TypeInv, TypeOK, PasswordsSet, Passwords
<1>2. UNCHANGED <<rows, expired, links, marks>>
  BY DEF ChangePasswordWrite, ResetPasswordWrite
<1>3. PICK q \in RequestStates :
        Goes(r, q) /\ q.op \in {"idle", "use"} /\ (q.op = "use" => q.floor = password + 1)
  <2>1. Idle \in RequestStates /\ Idle.op = "idle"
    BY DEF RequestStates, Idle
  <2>2. request[r].op = "reset" =>
          [op |-> "use", link |-> request[r].link, floor |-> password + 1] \in RequestStates
    BY <1>1, RequestFields DEF RequestStates, TypeInv, TypeOK
  <2> QED  BY <2>1, <2>2 DEF ChangePasswordWrite, ResetPasswordWrite
<1>4. /\ request' \in [Requests -> RequestStates]
      /\ \A p \in Requests :
           /\ request'[p].op \in {"rotate", "logout"} => request'[p].session <= created'
           /\ request'[p].op = "delete" => request'[p].rows \subseteq 1..created'
           /\ request'[p].op = "login" => request'[p].seen <= password'
           /\ request'[p].op \in {"use", "wipe", "delete"} => request'[p].floor <= password'
  BY <1>1, <1>2, <1>3, GoesTypes DEF rows
<1>5. TypeOK'
  BY <1>1, <1>2, <1>4 DEF TypeInv, TypeOK, rows, marks
<1>6. Numbered'
  BY <1>2, <1>4 DEF TypeInv, Numbered, rows, marks
<1>7. PasswordsSet'
  BY <1>1, <1>2, <1>4 DEF PasswordsSet, marks
<1> QED  BY <1>5, <1>6, <1>7 DEF TypeInv

(* The steps that add a row.                                               *)
LEMMA CreateTypes ==
  ASSUME TypeInv, NEW r \in Requests, LoginCreate(r) \/ Rotate(r)
  PROVE  TypeInv'
<1>1. /\ request[r] \in RequestStates /\ password \in Passwords /\ password \in Nat
      /\ created \in Nat /\ expired \in 0..created /\ floor <= password
      /\ Idle \in RequestStates /\ Idle.op = "idle" /\ password' = password
      /\ session \in [Ids -> {"none", "valid", "rotated", "deleted"}]
  BY SessionsAssumption
     DEF TypeInv, TypeOK, PasswordsSet, Passwords, RequestStates, Idle, LoginCreate, Rotate
<1>2. PICK updated \in [Ids -> {"none", "valid", "rotated", "deleted"}], f \in 1..(created + 1) :
        /\ \A s \in Ids : updated[s] = "none" <=> session[s] = "none"
        /\ Create(updated, f)
        /\ slipped' \subseteq slipped \cup {f}
  <2>1. CASE LoginCreate(r)
    BY <1>1, <2>1 DEF LoginCreate
  <2>2. CASE Rotate(r)
    <3> DEFINE s == request[r].session
    <3>1. s \in Ids /\ s <= created
      BY <1>1, <2>2, RequestFields DEF Rotate, TypeInv, Numbered
    <3>2. session[s] # "none" /\ login[s] \in 1..created
      BY <3>1 DEF TypeInv, Numbered
    <3>3. Create(Rotated(s), login[s]) /\ slipped' \subseteq slipped \cup {login[s]}
      BY <2>2 DEF Rotate
    <3> HIDE DEF s
    <3>4. /\ Rotated(s) \in [Ids -> {"none", "valid", "rotated", "deleted"}]
          /\ \A t \in Ids : Rotated(s)[t] = "none" <=> session[t] = "none"
      BY <1>1, <3>1, <3>2 DEF Rotated
    <3>5. login[s] \in 1..(created + 1)
      BY <1>1, <3>2
    <3> QED  BY <3>3, <3>4, <3>5
  <2> QED  BY <2>1, <2>2
<1>3. /\ created + 1 \in Ids /\ created' = created + 1 /\ created' \in 0..MaxSessions
      /\ session' \in [Ids -> {"none", "valid", "rotated", "deleted"}]
      /\ login' \in [Ids -> Ids \cup {NoLogin}]
      /\ \A s \in Ids : /\ s <= created' => session'[s] # "none" /\ login'[s] \in 1..created'
                        /\ s > created' => session'[s] = "none"
  BY <1>2, CreateNumbers
<1>4. /\ request' \in [Requests -> RequestStates]
      /\ \A p \in Requests :
           /\ request'[p].op \in {"rotate", "logout"} => request'[p].session <= created'
           /\ request'[p].op = "delete" => request'[p].rows \subseteq 1..created'
           /\ request'[p].op = "login" => request'[p].seen <= password'
           /\ request'[p].op \in {"use", "wipe", "delete"} => request'[p].floor <= password'
  <2>1. Goes(r, Idle)
    BY DEF LoginCreate, Rotate
  <2> QED  BY <1>1, <1>3, <2>1, GoesTypes
<1>5. /\ late' \subseteq late \cup {created + 1} /\ forked' = forked /\ revoked' = revoked
      /\ floor' = floor /\ links' = links /\ expired' = expired
      /\ proof' \in [Ids -> Passwords]
  BY <1>1, <1>3, RequestFields DEF LoginCreate, Rotate, TypeInv, TypeOK
<1>6. 1..(created + 1) \subseteq Ids
  BY <1>1, <1>3, SessionsAssumption DEF Ids
<1>7. TypeOK'
  BY <1>1, <1>2, <1>3, <1>4, <1>5, <1>6 DEF TypeInv, TypeOK
<1>8. Numbered'
  <2>1. ASSUME NEW g \in (late \cup forked \cup slipped \cup revoked)'
        PROVE  g <= created'
    <3>1. CASE g \in late \cup forked \cup slipped \cup revoked
      <4>1. g <= created /\ g \in Ids
        BY <3>1 DEF TypeInv, TypeOK, Numbered
      <4> QED  BY <1>1, <1>3, <4>1 DEF Ids
    <3>2. CASE g \in 1..(created + 1)
      BY <1>1, <1>3, <3>2
    <3>3. created + 1 \in 1..(created + 1)
      BY <1>1
    <3>4. g \in late \cup forked \cup slipped \cup revoked \cup {created + 1, f}
      BY <1>2, <1>5, <2>1
    <3> QED  BY <1>2, <3>1, <3>2, <3>3, <3>4
  <2> QED  BY <1>3, <1>4, <2>1 DEF Numbered
<1>9. PasswordsSet'
  BY <1>1, <1>4, <1>5 DEF PasswordsSet
<1> QED  BY <1>7, <1>8, <1>9 DEF TypeInv

LEMMA TypeStep == TypeInv /\ [Next]_vars => TypeInv'
<1> SUFFICES ASSUME TypeInv, [Next]_vars PROVE TypeInv'
  OBVIOUS
<1>1. CASE UNCHANGED vars
  BY <1>1 DEF TypeInv, TypeOK, Numbered, PasswordsSet, vars, rows, marks
<1>2. CASE Next
  BY <1>2, ReadTypes, DeleteTypes, PasswordTypes, CreateTypes DEF Next, RequestNext
<1> QED  BY <1>1, <1>2

THEOREM SessionsTypes == Spec => []TypeInv
BY InitTypes, TypeStep, PTL DEF Spec

(* The types hold for every number of requests, links, rows and passwords. *)
THEOREM SessionsTypeOK == Spec => []TypeOK
<1>1. TypeInv => TypeOK
  BY DEF TypeInv
<1> QED  BY <1>1, SessionsTypes, PTL

-----------------------------------------------------------------------------
(* What the steps do to the rows and to those who hold them.               *)

Rotates(r) == request[r].op = "rotate"
Deletes(r) == request[r].op = "delete"

(* Rows are only deleted, and no handler takes hold of one.                *)
Shrinks ==
  /\ login' = login /\ forked' = forked /\ late' = late /\ slipped' = slipped /\ proof' = proof
  /\ \A s \in Ids : session'[s] = session[s] \/ session'[s] = "deleted"
  /\ \A q \in Requests : request'[q] = request[q] \/ ~Rotates(q)'

Quiet ==
  /\ Shrinks /\ revoked' = revoked /\ floor' = floor
  /\ \A q \in Requests : request'[q] = request[q] \/ ~Deletes(q)'

LEMMA QuietSteps ==
  ASSUME TypeInv, [Next]_vars,
         \A r \in Requests : ~(LoginCreate(r) \/ LogoutDelete(r) \/ Rotate(r)
                              \/ WipeStart(r) \/ WipeDelete(r)),
         \A r \in Requests, s \in Ids : ~RefreshRead(r, s)
  PROVE  Quiet
<1> USE DEF Quiet, Shrinks, Rotates, Deletes
<1>1. ASSUME NEW r \in Requests, RequestNext(r)
      PROVE  Quiet
  <2>1. /\ UNCHANGED <<rows, marks>>
        /\ \E q : Goes(r, q) /\ q.op \notin {"rotate", "delete"}
    BY <1>1 DEF RequestNext, LoginCheck, ChangePasswordWrite, ForgotPasswordDelete,
                ResetPasswordWrite, ResetPasswordUse, Fail, Idle, rows
  <2> QED  BY <2>1 DEF Goes, rows, marks, TypeInv, TypeOK
<1>2. ASSUME NEW r \in Requests, NEW s \in Ids, TokenNext(r, s)
      PROVE  Quiet
  <2>1. /\ UNCHANGED <<rows, marks>>
        /\ \E q : Goes(r, q) /\ q.op \notin {"rotate", "delete"}
    BY <1>2 DEF TokenNext, LogoutCheck, RefreshReuse, ChangePasswordRead
  <2> QED  BY <2>1 DEF Goes, rows, marks, TypeInv, TypeOK
<1>3. ASSUME NEW r \in Requests, NEW l \in Links, LinkNext(r, l)
      PROVE  Quiet
  <2>1. /\ UNCHANGED <<rows, marks>>
        /\ \E q : Goes(r, q) /\ q.op \notin {"rotate", "delete"}
    BY <1>3 DEF LinkNext, ForgotPasswordCreate, ResetPasswordRead, Idle
  <2> QED  BY <2>1 DEF Goes, rows, marks, TypeInv, TypeOK
<1>4. CASE CleanExpiredSessions
  BY <1>4 DEF CleanExpiredSessions, marks, TypeInv, TypeOK
<1>5. CASE (\E l \in Links : LinkExpire(l)) \/ Expire \/ UNCHANGED vars
  BY <1>5 DEF LinkExpire, Expire, vars, rows, marks
<1> QED  BY <1>1, <1>2, <1>3, <1>4, <1>5 DEF Next

(* A refresh takes hold of a valid session and nothing else changes.       *)
LEMMA RefreshReadStep ==
  ASSUME TypeInv, NEW r \in Requests, NEW s \in Ids, RefreshRead(r, s)
  PROVE  /\ session[s] = "valid" /\ Rotates(r)' /\ request'[r].session = s
         /\ \A q \in Requests \ {r} : request'[q] = request[q]
         /\ UNCHANGED <<rows, late, slipped, revoked, floor>>
         /\ forked \subseteq forked'
         /\ Refreshing(s) => login[s] \in forked'
  BY DEF RefreshRead, Usable, Goes, Rotates, TypeInv, TypeOK

(* A login adds a valid row of its own login.                              *)
LEMMA LoginCreateStep ==
  ASSUME TypeInv, NEW r \in Requests, LoginCreate(r), NEW n, n = created + 1
  PROVE  /\ n \in Ids /\ session[n] = "none"
         /\ session'[n] = "valid" /\ login'[n] = n
         /\ \A s \in Ids \ {n} : session'[s] = session[s] /\ login'[s] = login[s]
         /\ \A s \in Ids : session[s] # "none" => s # n /\ login[s] # n
         /\ n \notin late \cup forked \cup slipped \cup revoked
         /\ \A q \in Requests : request'[q] = request[q] \/ request'[q] = Idle
         /\ forked' = forked /\ slipped' = slipped /\ revoked' = revoked /\ floor' = floor
<1>1. created \in Nat /\ n \in 1..(created + 1)
  BY SessionsAssumption DEF TypeInv, TypeOK
<1>2. Create(session, n)
  BY DEF LoginCreate
<1>3. /\ n \in Ids /\ session'[n] = "valid" /\ login'[n] = n
      /\ \A s \in Ids \ {n} : session'[s] = session[s] /\ login'[s] = login[s]
  BY <1>1, <1>2, CreateNumbers DEF TypeInv, TypeOK
<1>4. session[n] = "none" /\ \A s \in Ids : session[s] # "none" => login[s] # n
  BY <1>1, <1>3 DEF TypeInv, Numbered, Ids
<1>5. n \notin late \cup forked \cup slipped \cup revoked
  BY <1>1 DEF TypeInv, Numbered
<1>6. /\ \A q \in Requests : request'[q] = request[q] \/ request'[q] = Idle
      /\ forked' = forked /\ slipped' = slipped /\ revoked' = revoked /\ floor' = floor
  BY DEF LoginCreate, Goes, TypeInv, TypeOK
<1> QED  BY <1>3, <1>4, <1>5, <1>6

(* A rotation replaces the session the handler holds by a new one of the   *)
(* same login.                                                             *)
LEMMA RotateStep ==
  ASSUME TypeInv, NEW r \in Requests, Rotate(r), NEW s, s = request[r].session,
         NEW n, n = created + 1
  PROVE  /\ s \in Ids /\ Rotates(r) /\ Kept(s) /\ n \in Ids /\ session[n] = "none" /\ s # n
         /\ session'[n] = "valid" /\ login'[n] = login[s]
         /\ session'[s] = "rotated" /\ login'[s] = login[s]
         /\ \A t \in Ids \ {s, n} : session'[t] = session[t] /\ login'[t] = login[t]
         /\ \A t \in Ids : session[t] # "none" => t # n /\ login'[t] = login[t]
         /\ request'[r] = Idle /\ \A q \in Requests \ {r} : request'[q] = request[q]
         /\ forked' = forked /\ late' = late /\ revoked' = revoked /\ floor' = floor
         /\ proof' = proof
         /\ slipped' = IF Deleting(s) THEN slipped \cup {login[s]} ELSE slipped
<1>1. created \in Nat /\ n \in 1..(created + 1)
  BY SessionsAssumption DEF TypeInv, TypeOK
<1>2. s \in Ids /\ Rotates(r) /\ Kept(s) /\ s <= created
  BY RequestFields DEF Rotate, Rotatable, Rotates, TypeInv, TypeOK, Numbered
<1>3. session[s] # "none" /\ login[s] \in 1..(created + 1)
  BY <1>1, <1>2 DEF TypeInv, Numbered
<1>4. /\ Create(Rotated(s), login[s])
      /\ slipped' = IF Deleting(s) THEN slipped \cup {login[s]} ELSE slipped
  BY DEF Rotate
<1>5. /\ Rotated(s) \in [Ids -> {"none", "valid", "rotated", "deleted"}]
      /\ Rotated(s)[s] = "rotated" /\ \A t \in Ids \ {s} : Rotated(s)[t] = session[t]
  BY <1>2 DEF Rotated, TypeInv, TypeOK
<1>6. \A t \in Ids : Rotated(s)[t] = "none" <=> session[t] = "none"
  BY <1>2, <1>3, <1>5
<1>7. /\ n \in Ids /\ session'[n] = "valid" /\ login'[n] = login[s]
      /\ \A t \in Ids \ {n} : session'[t] = Rotated(s)[t] /\ login'[t] = login[t]
  BY <1>3, <1>4, <1>5, <1>6, CreateNumbers
<1>8. session[n] = "none"
  BY <1>1, <1>7 DEF TypeInv, Numbered, Ids
<1>9. /\ request'[r] = Idle /\ \A q \in Requests \ {r} : request'[q] = request[q]
      /\ forked' = forked /\ late' = late /\ revoked' = revoked /\ floor' = floor
      /\ proof' = proof
  BY DEF Rotate, Goes, TypeInv, TypeOK
<1> QED  BY <1>2, <1>3, <1>4, <1>5, <1>7, <1>8, <1>9

-----------------------------------------------------------------------------
(* One valid token per login. OneValidPerLogin is not inductive: a refresh *)
(* that has read a session must be the only one of its login, and what it  *)
(* has read the only session of it that may still be valid.                *)
HeldAlone ==
  \A r \in Requests : Rotates(r) /\ login[request[r].session] \notin forked =>
    /\ \A t \in Ids : session[t] = "valid" /\ login[t] = login[request[r].session]
                        => t = request[r].session
    /\ \A q \in Requests :
         Rotates(q) /\ login[request[q].session] = login[request[r].session] => q = r

LEMMA ShrinksAlone ==
  ASSUME TypeInv, OneValidPerLogin, HeldAlone, Shrinks
  PROVE  OneValidPerLogin' /\ HeldAlone'
<1>1. OneValidPerLogin'
  BY DEF OneValidPerLogin, Shrinks
<1>2. HeldAlone'
  BY DEF HeldAlone, Shrinks, Rotates
<1> QED  BY <1>1, <1>2

LEMMA DeletionsShrink ==
  ASSUME TypeInv, NEW r \in Requests, LogoutDelete(r) \/ WipeDelete(r) \/ WipeStart(r)
  PROVE  Shrinks
<1>1. CASE LogoutDelete(r)
  BY <1>1 DEF LogoutDelete, Shrinks, Rotates, Goes, Idle, TypeInv, TypeOK
<1>2. CASE WipeDelete(r)
  BY <1>2 DEF WipeDelete, Shrinks, Rotates, Goes, Idle, TypeInv, TypeOK
<1>3. CASE WipeStart(r)
  BY <1>3 DEF WipeStart, Shrinks, Rotates, Goes, rows, marks, TypeInv, TypeOK
<1> QED  BY <1>1, <1>2, <1>3

LEMMA RefreshReadAlone ==
  ASSUME TypeInv, OneValidPerLogin, HeldAlone, NEW r \in Requests, NEW s \in Ids,
         RefreshRead(r, s)
  PROVE  OneValidPerLogin' /\ HeldAlone'
<1>1. /\ session[s] = "valid" /\ Rotates(r)' /\ request'[r].session = s
      /\ \A q \in Requests \ {r} : request'[q] = request[q]
      /\ UNCHANGED <<session, login>>
      /\ forked \subseteq forked'
      /\ Refreshing(s) => login[s] \in forked'
  BY RefreshReadStep DEF rows
<1>2. OneValidPerLogin'
  BY <1>1 DEF OneValidPerLogin
<1>3. ASSUME NEW q \in Requests, q # r, Rotates(q), login[request[q].session] = login[s]
      PROVE  login[s] \in forked'
  <2>1. SUFFICES ASSUME login[s] \notin forked PROVE Refreshing(s)
    BY <1>1
  <2>2. request[q].session = s
    BY <1>1, <1>3, <2>1 DEF HeldAlone
  <2>3. request[q] = [op |-> "rotate", session |-> s]
    BY <1>3, <2>2, RequestFields DEF Rotates, TypeInv, TypeOK
  <2> QED  BY <2>3 DEF Refreshing
<1>4. ASSUME NEW q \in Requests, Rotates(q)', login'[request'[q].session] \notin forked'
      PROVE  /\ \A t \in Ids : session'[t] = "valid" /\ login'[t] = login'[request'[q].session]
                                => t = request'[q].session
             /\ \A p \in Requests :
                  Rotates(p)' /\ login'[request'[p].session] = login'[request'[q].session] => p = q
  <2>1. CASE q = r
    <3>1. \A t \in Ids : session[t] = "valid" /\ login[t] = login[s] => t = s
      BY <1>1, <1>4, <2>1 DEF OneValidPerLogin
    <3>2. \A p \in Requests \ {r} : Rotates(p) => login[request[p].session] # login[s]
      BY <1>1, <1>3, <1>4, <2>1
    <3> QED  BY <1>1, <2>1, <3>1, <3>2 DEF Rotates
  <2>2. CASE q # r
    <3>1. request'[q] = request[q] /\ Rotates(q)
      BY <1>1, <1>4, <2>2 DEF Rotates
    <3>2. login[request[q].session] # login[s]
      BY <1>1, <1>3, <1>4, <2>2, <3>1
    <3> QED  BY <1>1, <1>4, <3>1, <3>2 DEF HeldAlone, Rotates
  <2> QED  BY <2>1, <2>2
<1> QED  BY <1>2, <1>4 DEF HeldAlone

LEMMA LoginCreateAlone ==
  ASSUME TypeInv, OneValidPerLogin, HeldAlone, NEW r \in Requests, LoginCreate(r)
  PROVE  OneValidPerLogin' /\ HeldAlone'
<1> DEFINE n == created + 1
<1>1. /\ n \in Ids /\ session'[n] = "valid" /\ login'[n] = n
      /\ \A s \in Ids \ {n} : session'[s] = session[s] /\ login'[s] = login[s]
      /\ \A s \in Ids : session[s] # "none" => s # n /\ login[s] # n
      /\ \A q \in Requests : request'[q] = request[q] \/ request'[q] = Idle
      /\ forked' = forked
  BY LoginCreateStep
<1> HIDE DEF n
<1>2. \A s \in Ids : session'[s] = "valid" =>
        s = n \/ (session[s] = "valid" /\ login'[s] = login[s] /\ login[s] # n)
  BY <1>1
<1>3. OneValidPerLogin'
  BY <1>1, <1>2 DEF OneValidPerLogin
<1>4. \A q \in Requests : Rotates(q)' =>
        /\ request'[q] = request[q] /\ Rotates(q)
        /\ request[q].session \in Ids \ {n} /\ login[request[q].session] # n
  <2>1. \A q \in Requests : Rotates(q) => request[q].session \in Ids /\ request[q].session <= created
    BY RequestFields DEF Rotates, TypeInv, TypeOK, Numbered
  <2>2. \A q \in Requests : Rotates(q) => session[request[q].session] # "none"
    BY <2>1 DEF TypeInv, Numbered
  <2> QED  BY <1>1, <2>1, <2>2 DEF Rotates, Idle
<1>5. HeldAlone'
  BY <1>1, <1>2, <1>4 DEF HeldAlone
<1> QED  BY <1>3, <1>5

LEMMA RotateAlone ==
  ASSUME TypeInv, OneValidPerLogin, HeldAlone, NEW r \in Requests, Rotate(r)
  PROVE  OneValidPerLogin' /\ HeldAlone'
<1> DEFINE n == created + 1
           s == request[r].session
<1>1. /\ s \in Ids /\ Rotates(r) /\ n \in Ids /\ s # n
      /\ session'[n] = "valid" /\ login'[n] = login[s] /\ session'[s] = "rotated"
      /\ \A t \in Ids \ {s, n} : session'[t] = session[t] /\ login'[t] = login[t]
      /\ \A t \in Ids : session[t] # "none" => t # n /\ login'[t] = login[t]
      /\ request'[r] = Idle /\ \A q \in Requests \ {r} : request'[q] = request[q]
      /\ forked' = forked
  BY RotateStep
<1>2. /\ login[s] \notin forked =>
           /\ \A t \in Ids : session[t] = "valid" /\ login[t] = login[s] => t = s
           /\ \A q \in Requests : Rotates(q) /\ login[request[q].session] = login[s] => q = r
  BY <1>1 DEF HeldAlone
<1> HIDE DEF n, s
<1>3. \A t \in Ids : session'[t] = "valid" =>
        t = n \/ (t # s /\ session[t] = "valid" /\ login'[t] = login[t])
  BY <1>1
<1>4. OneValidPerLogin'
  BY <1>1, <1>2, <1>3 DEF OneValidPerLogin
<1>5. \A q \in Requests : Rotates(q)' =>
        /\ q # r /\ request'[q] = request[q] /\ Rotates(q)
        /\ login'[request[q].session] = login[request[q].session]
  <2>1. \A q \in Requests : Rotates(q) => request[q].session \in Ids /\ request[q].session <= created
    BY RequestFields DEF Rotates, TypeInv, TypeOK, Numbered
  <2>2. \A q \in Requests : Rotates(q) => session[request[q].session] # "none"
    BY <2>1 DEF TypeInv, Numbered
  <2> QED  BY <1>1, <2>1, <2>2 DEF Rotates, Idle
<1>6. HeldAlone'
  BY <1>1, <1>2, <1>3, <1>5 DEF HeldAlone
<1> QED  BY <1>4, <1>6

LEMMA AloneStep ==
  ASSUME TypeInv, OneValidPerLogin, HeldAlone, [Next]_vars
  PROVE  OneValidPerLogin' /\ HeldAlone'
<1>1. CASE \E r \in Requests : LoginCreate(r)
  BY <1>1, LoginCreateAlone
<1>2. CASE \E r \in Requests : Rotate(r)
  BY <1>2, RotateAlone
<1>3. CASE \E r \in Requests : LogoutDelete(r) \/ WipeDelete(r) \/ WipeStart(r)
  BY <1>3, DeletionsShrink, ShrinksAlone
<1>4. CASE \E r \in Requests, s \in Ids : RefreshRead(r, s)
  BY <1>4, RefreshReadAlone
<1> QED  BY <1>1, <1>2, <1>3, <1>4, QuietSteps, ShrinksAlone DEF Quiet

LEMMA AloneAlways == Spec => [](TypeInv /\ OneValidPerLogin /\ HeldAlone)
<1>1. Init => OneValidPerLogin /\ HeldAlone
  BY DEF Init, OneValidPerLogin, HeldAlone, Rotates, Idle
<1> QED  BY <1>1, InitTypes, TypeStep, AloneStep, PTL DEF Spec

(* However refreshes, logouts, resets and the cleanup interleave, rotation *)
(* leaves a login one valid token, unless one token was refreshed twice at *)
(* once.                                                                   *)
THEOREM SessionsOneValidPerLogin == Spec => []OneValidPerLogin
BY AloneAlways, PTL

-----------------------------------------------------------------------------
(* Revocation. Beyond the rows that are valid, the proof looks at those    *)
(* that a refresh under way could still rotate, and at what a deletion     *)
(* under way will leave: of a login it has seen it leaves nothing, unless  *)
(* a refresh slipped through.                                              *)
EndedForGood ==
  \A f \in revoked \ slipped :
    /\ \A s \in Ids : session[s] = "valid" => login[s] # f
    /\ \A r \in Requests :
         Rotates(r) /\ login[request[r].session] = f => ~Kept(request[r].session)

SeesAll ==
  \A r \in Requests : Deletes(r) =>
    \A s \in request[r].rows : login[s] \notin slipped =>
      \A t \in Ids : Kept(t) /\ login[t] = login[s] => t \in request[r].rows

LEMMA ShrinksSeesAll ==
  ASSUME TypeInv, SeesAll, Shrinks,
         \A q \in Requests : request'[q] = request[q] \/ ~Deletes(q)'
  PROVE  SeesAll'
<1>1. \A t \in Ids : Kept(t)' => Kept(t)
  BY DEF Shrinks, Kept
<1>2. login' = login /\ slipped' = slipped
  BY DEF Shrinks
<1> QED  BY <1>1, <1>2 DEF SeesAll, Deletes

LEMMA ShrinksEnded ==
  ASSUME TypeInv, EndedForGood, Shrinks, revoked' = revoked
  PROVE  EndedForGood'
<1>1. \A t \in Ids : Kept(t)' => Kept(t)
  BY DEF Shrinks, Kept
<1>2. \A r \in Requests : Rotates(r) => request[r].session \in Ids
  BY RequestFields DEF Rotates, TypeInv, TypeOK
<1>3. /\ login' = login /\ slipped' = slipped
      /\ \A t \in Ids : session'[t] = "valid" => session[t] = "valid"
      /\ \A r \in Requests : Rotates(r)' => request'[r] = request[r] /\ Rotates(r)
  BY DEF Shrinks, Rotates
<1> QED  BY <1>1, <1>2, <1>3 DEF EndedForGood

LEMMA LogoutRevokes ==
  ASSUME TypeInv, OneValidPerLogin, HeldAlone, EndedForGood, SeesAll,
         NEW r \in Requests, LogoutDelete(r)
  PROVE  EndedForGood' /\ SeesAll'
<1> DEFINE s == request[r].session
<1>1. s \in Ids
  BY RequestFields DEF LogoutDelete, TypeInv, TypeOK
<1>2. /\ session' = [session EXCEPT ![s] = "deleted"] /\ session'[s] = "deleted"
      /\ login' = login /\ slipped' = slipped
      /\ revoked' = IF session[s] = "valid" /\ login[s] \notin forked
                    THEN revoked \cup {login[s]} ELSE revoked
      /\ request'[r] = Idle /\ \A q \in Requests \ {r} : request'[q] = request[q]
  BY <1>1 DEF LogoutDelete, Goes, TypeInv, TypeOK
<1> HIDE DEF s
<1>3. /\ \A t \in Ids : t # s => session'[t] = session[t]
      /\ \A t \in Ids : Kept(t)' => t # s /\ Kept(t)
      /\ \A t \in Ids : session'[t] = "valid" => t # s /\ session[t] = "valid"
      /\ \A q \in Requests : Rotates(q)' => request'[q] = request[q] /\ Rotates(q)
      /\ \A q \in Requests : Rotates(q) => request[q].session \in Ids
  BY <1>1, <1>2, RequestFields DEF Kept, Rotates, Idle, TypeInv, TypeOK
<1>4. SeesAll'
  BY <1>2, <1>3 DEF SeesAll, Deletes, Idle
<1>5. ASSUME NEW f \in revoked' \ slipped'
      PROVE  /\ \A t \in Ids : session'[t] = "valid" => login'[t] # f
             /\ \A q \in Requests : Rotates(q) /\ login[request[q].session] = f
                                    => session'[request[q].session] \notin {"valid", "rotated"}
  <2>1. CASE f \in revoked
    BY <1>2, <1>3, <1>5, <2>1 DEF EndedForGood, Kept
  <2>2. CASE f \notin revoked
    <3>1. session[s] = "valid" /\ login[s] \notin forked /\ f = login[s]
      BY <1>2, <1>5, <2>2
    <3>2. \A t \in Ids : session[t] = "valid" /\ login[t] = f => t = s
      BY <1>1, <3>1 DEF OneValidPerLogin
    <3>3. \A q \in Requests : Rotates(q) /\ login[request[q].session] = f => request[q].session = s
      BY <1>1, <3>1 DEF HeldAlone
    <3> QED  BY <1>2, <1>3, <3>2, <3>3
  <2> QED  BY <2>1, <2>2
<1> QED  BY <1>2, <1>3, <1>4, <1>5 DEF EndedForGood, Kept

LEMMA WipeRevokes ==
  ASSUME TypeInv, EndedForGood, SeesAll, NEW r \in Requests, WipeDelete(r)
  PROVE  EndedForGood' /\ SeesAll'
<1> DEFINE R == request[r].rows
<1>1. R \subseteq Ids /\ Deletes(r)
  BY RequestFields DEF WipeDelete, Deletes, TypeInv, TypeOK
<1>2. /\ \A t \in Ids : session'[t] = IF t \in R THEN "deleted" ELSE session[t]
      /\ login' = login /\ slipped' = slipped
      /\ revoked' = revoked \cup {login[t] : t \in R}
      /\ request'[r] = Idle /\ \A q \in Requests \ {r} : request'[q] = request[q]
  BY DEF WipeDelete, Goes, TypeInv, TypeOK
<1> HIDE DEF R
<1>3. /\ \A t \in Ids : Kept(t)' => t \notin R /\ Kept(t)
      /\ \A t \in Ids : session'[t] = "valid" => t \notin R /\ session[t] = "valid"
      /\ \A q \in Requests : Rotates(q)' => request'[q] = request[q] /\ Rotates(q)
      /\ \A q \in Requests : Rotates(q) => request[q].session \in Ids
  BY <1>2, RequestFields DEF Kept, Rotates, Idle, TypeInv, TypeOK
<1>4. SeesAll'
  BY <1>2, <1>3 DEF SeesAll, Deletes, Idle
<1>5. ASSUME NEW f \in revoked' \ slipped'
      PROVE  /\ \A t \in Ids : session'[t] = "valid" => login'[t] # f
             /\ \A q \in Requests : Rotates(q) /\ login[request[q].session] = f
                                    => session'[request[q].session] \notin {"valid", "rotated"}
  <2>1. CASE f \in revoked
    BY <1>2, <1>3, <1>5, <2>1 DEF EndedForGood, Kept
  <2>2. CASE \E s \in R : f = login[s]
    <3>1. \A t \in Ids : Kept(t) /\ login[t] = f => t \in R
      BY <1>1, <1>2, <1>5, <2>2 DEF SeesAll, R
    <3>2. \A t \in Ids : Kept(t)' => login'[t] # f
      BY <1>2, <1>3, <3>1
    <3> QED  BY <1>2, <1>3, <3>2 DEF Kept
  <2> QED  BY <1>2, <1>5, <2>1, <2>2
<1> QED  BY <1>2, <1>3, <1>4, <1>5 DEF EndedForGood, Kept

LEMMA WipeStartRevokes ==
  ASSUME TypeInv, EndedForGood, SeesAll, NEW r \in Requests, WipeStart(r)
  PROVE  EndedForGood' /\ SeesAll'
<1>1. /\ UNCHANGED <<session, login, slipped, revoked>> /\ request'[r].rows = Wiped
      /\ \A q \in Requests \ {r} : request'[q] = request[q]
  BY DEF WipeStart, Goes, rows, marks, TypeInv, TypeOK
<1>2. EndedForGood'
  BY <1>1, DeletionsShrink, ShrinksEnded
<1>3. SeesAll'
  BY <1>1 DEF SeesAll, Deletes, Wiped, Kept
<1> QED  BY <1>2, <1>3

LEMMA RefreshReadRevokes ==
  ASSUME TypeInv, EndedForGood, SeesAll, NEW r \in Requests, NEW s \in Ids, RefreshRead(r, s)
  PROVE  EndedForGood' /\ SeesAll'
<1>1. /\ session[s] = "valid" /\ Rotates(r)' /\ request'[r].session = s
      /\ \A q \in Requests \ {r} : request'[q] = request[q]
      /\ UNCHANGED <<session, login, slipped, revoked>>
  BY RefreshReadStep DEF rows
<1>2. EndedForGood'
  BY <1>1 DEF EndedForGood, Rotates, Kept
<1>3. SeesAll'
  BY <1>1 DEF SeesAll, Deletes, Rotates, Kept
<1> QED  BY <1>2, <1>3

LEMMA LoginCreateRevokes ==
  ASSUME TypeInv, EndedForGood, SeesAll, NEW r \in Requests, LoginCreate(r)
  PROVE  EndedForGood' /\ SeesAll'
<1> DEFINE n == created + 1
<1>1. /\ n \in Ids /\ session'[n] = "valid" /\ login'[n] = n
      /\ \A s \in Ids \ {n} : session'[s] = session[s] /\ login'[s] = login[s]
      /\ \A s \in Ids : session[s] # "none" => s # n /\ login[s] # n
      /\ n \notin late \cup forked \cup slipped \cup revoked
      /\ \A q \in Requests : request'[q] = request[q] \/ request'[q] = Idle
      /\ slipped' = slipped /\ revoked' = revoked
  BY LoginCreateStep
<1> HIDE DEF n
<1>2. /\ \A q \in Requests : Rotates(q) =>
           request[q].session \in Ids /\ session[request[q].session] # "none"
      /\ \A q \in Requests : Deletes(q) =>
           request[q].rows \subseteq Ids /\ \A s \in request[q].rows : session[s] # "none"
  <2>1. /\ \A q \in Requests : Rotates(q) => request[q].session \in Ids /\ request[q].session <= created
        /\ \A q \in Requests : Deletes(q) =>
             request[q].rows \subseteq Ids /\ request[q].rows \subseteq 1..created
    BY RequestFields DEF Rotates, Deletes, TypeInv, TypeOK, Numbered
  <2>2. \A s \in Ids : s \in 1..created => session[s] # "none"
    BY SessionsAssumption DEF TypeInv, TypeOK, Numbered
  <2> QED  BY <2>1, <2>2 DEF TypeInv, Numbered
<1>3. EndedForGood'
  <2>1. \A s \in Ids : session'[s] = "valid" => login'[s] \notin revoked \ slipped
    BY <1>1 DEF EndedForGood
  <2>2. \A q \in Requests : Rotates(q)' =>
          /\ request'[q] = request[q] /\ Rotates(q)
          /\ login'[request[q].session] = login[request[q].session]
          /\ Kept(request[q].session)' = Kept(request[q].session)
    BY <1>1, <1>2 DEF Rotates, Idle, Kept
  <2> QED  BY <1>1, <2>1, <2>2 DEF EndedForGood
<1>4. SeesAll'
  <2>1. \A q \in Requests : Deletes(q)' => request'[q] = request[q] /\ Deletes(q)
    BY <1>1 DEF Deletes, Idle
  <2>2. \A q \in Requests : Deletes(q) => \A s \in request[q].rows :
          s \in Ids /\ login'[s] = login[s] /\ login[s] # n
    BY <1>1, <1>2
  <2>3. \A t \in Ids : Kept(t)' => login'[t] = n \/ (Kept(t) /\ login'[t] = login[t])
    BY <1>1 DEF Kept
  <2> QED  BY <1>1, <2>1, <2>2, <2>3 DEF SeesAll
<1> QED  BY <1>3, <1>4

LEMMA RotateRevokes ==
  ASSUME TypeInv, EndedForGood, SeesAll, NEW r \in Requests, Rotate(r)
  PROVE  EndedForGood' /\ SeesAll'
<1> DEFINE n == created + 1
           s == request[r].session
<1>1. /\ s \in Ids /\ Rotates(r) /\ Kept(s) /\ n \in Ids /\ session[n] = "none" /\ s # n
      /\ session'[n] = "valid" /\ login'[n] = login[s] /\ session'[s] = "rotated"
      /\ \A t \in Ids \ {s, n} : session'[t] = session[t] /\ login'[t] = login[t]
      /\ \A t \in Ids : session[t] # "none" => t # n /\ login'[t] = login[t]
      /\ request'[r] = Idle /\ \A q \in Requests \ {r} : request'[q] = request[q]
      /\ revoked' = revoked
      /\ slipped' = IF Deleting(s) THEN slipped \cup {login[s]} ELSE slipped
  BY RotateStep
<1>2. login[s] \notin revoked \ slipped
  BY <1>1 DEF EndedForGood
<1> HIDE DEF n, s
<1>3. /\ \A q \in Requests : Rotates(q) =>
           request[q].session \in Ids /\ session[request[q].session] # "none"
      /\ \A q \in Requests : Deletes(q) =>
           request[q].rows \subseteq Ids /\ \A t \in request[q].rows : session[t] # "none"
  <2>1. /\ \A q \in Requests : Rotates(q) => request[q].session \in Ids /\ request[q].session <= created
        /\ \A q \in Requests : Deletes(q) =>
             request[q].rows \subseteq Ids /\ request[q].rows \subseteq 1..created
    BY RequestFields DEF Rotates, Deletes, TypeInv, TypeOK, Numbered
  <2>2. \A t \in Ids : t \in 1..created => session[t] # "none"
    BY SessionsAssumption DEF TypeInv, TypeOK, Numbered
  <2> QED  BY <2>1, <2>2 DEF TypeInv, Numbered
<1>4. slipped \subseteq slipped'
  BY <1>1
<1>5. \A t \in Ids : Kept(t)' =>
        /\ t = n \/ (Kept(t) /\ login'[t] = login[t])
        /\ session'[t] = "valid" => t = n \/ session[t] = "valid"
  BY <1>1 DEF Kept
<1>6. EndedForGood'
  <2>1. \A t \in Ids : session'[t] = "valid" => login'[t] \notin revoked' \ slipped'
    BY <1>1, <1>2, <1>4, <1>5 DEF EndedForGood, Kept
  <2>2. \A q \in Requests : Rotates(q)' =>
          /\ request'[q] = request[q] /\ Rotates(q)
          /\ login'[request[q].session] = login[request[q].session]
          /\ Kept(request[q].session)' => Kept(request[q].session)
    BY <1>1, <1>3, <1>5 DEF Rotates, Idle
  <2> QED  BY <1>1, <1>4, <2>1, <2>2 DEF EndedForGood
<1>7. SeesAll'
  <2> SUFFICES ASSUME NEW q \in Requests, Deletes(q)', NEW x \in request'[q].rows,
                      login'[x] \notin slipped', NEW t \in Ids, Kept(t)', login'[t] = login'[x]
               PROVE  t \in request'[q].rows
    BY DEF SeesAll
  <2>1. request'[q] = request[q] /\ Deletes(q)
    BY <1>1 DEF Deletes, Idle
  <2>2. x \in Ids /\ login'[x] = login[x] /\ login[x] \notin slipped
    BY <1>1, <1>3, <1>4, <2>1
  <2>3. CASE t # n
    BY <1>5, <2>1, <2>2, <2>3 DEF SeesAll
  <2>4. CASE t = n
    <3>1. login[x] = login[s]
      BY <1>1, <2>2, <2>4
    <3>2. s \in request[q].rows
      BY <1>1, <2>1, <2>2, <3>1 DEF SeesAll
    <3>3. Deleting(s)
      BY <2>1, <3>2 DEF Deleting, Deletes
    <3> QED  BY <1>1, <2>2, <3>1, <3>3
  <2> QED  BY <2>3, <2>4
<1> QED  BY <1>6, <1>7

LEMMA RevokedStep ==
  ASSUME TypeInv, OneValidPerLogin, HeldAlone, EndedForGood, SeesAll, [Next]_vars
  PROVE  EndedForGood' /\ SeesAll'
<1>1. CASE \E r \in Requests : LoginCreate(r) \/ Rotate(r)
  BY <1>1, LoginCreateRevokes, RotateRevokes
<1>2. CASE \E r \in Requests : LogoutDelete(r) \/ WipeDelete(r) \/ WipeStart(r)
  BY <1>2, LogoutRevokes, WipeRevokes, WipeStartRevokes
<1>3. CASE \E r \in Requests, s \in Ids : RefreshRead(r, s)
  BY <1>3, RefreshReadRevokes
<1> QED  BY <1>1, <1>2, <1>3, QuietSteps, ShrinksEnded, ShrinksSeesAll DEF Quiet

(* However requests interleave, a login that was ended stays ended: no     *)
(* refresh that read one of its sessions before brings it back, unless it  *)
(* commits while all sessions are being deleted.                           *)
THEOREM SessionsRevokedStaysRevoked == Spec => []RevokedStaysRevoked
<1>1. Init => EndedForGood /\ SeesAll
  BY DEF Init, EndedForGood, SeesAll, Deletes, Idle
<1>2. EndedForGood => RevokedStaysRevoked
  BY DEF EndedForGood, RevokedStaysRevoked
<1> QED  BY <1>1, <1>2, AloneAlways, RevokedStep, PTL DEF Spec

-----------------------------------------------------------------------------
(* The reset. What holds of the valid rows must hold of the rotated ones   *)
(* too, which a second refresh may still carry on, and of each deletion    *)
(* under way: a row it has not seen is of the password it stands for.      *)
Fresh(s, v) == login[s] \in late \cup slipped \/ proof[login[s]] >= v

Current ==
  /\ \A s \in Ids : Kept(s) => Fresh(s, floor)
  /\ \A q \in Requests : Deletes(q) =>
       \A s \in Ids : Kept(s) => s \in request[q].rows \/ Fresh(s, request[q].floor)

LEMMA ShrinksCurrent ==
  ASSUME Current, Shrinks, floor' = floor,
         \A q \in Requests : request'[q] = request[q] \/ ~Deletes(q)'
  PROVE  Current'
<1>1. \A t \in Ids : Kept(t)' => Kept(t)
  BY DEF Shrinks, Kept
<1>2. login' = login /\ late' = late /\ slipped' = slipped /\ proof' = proof
  BY DEF Shrinks
<1>3. \A q \in Requests : Deletes(q)' => request'[q] = request[q] /\ Deletes(q)
  BY DEF Deletes
<1> QED  BY <1>1, <1>2, <1>3 DEF Current, Fresh

LEMMA WipeStartCurrent ==
  ASSUME TypeInv, Current, NEW r \in Requests, WipeStart(r)
  PROVE  Current'
<1>1. /\ UNCHANGED <<session, login, proof, late, slipped, floor>> /\ request'[r].rows = Wiped
      /\ \A q \in Requests \ {r} : request'[q] = request[q]
  BY DEF WipeStart, Goes, rows, marks, TypeInv, TypeOK
<1> QED  BY <1>1 DEF Current, Fresh, Deletes, Wiped, Kept

LEMMA WipeDeleteCurrent ==
  ASSUME TypeInv, Current, NEW r \in Requests, WipeDelete(r)
  PROVE  Current'
<1>1. /\ Deletes(r)
      /\ \A t \in Ids : session'[t] = IF t \in request[r].rows THEN "deleted" ELSE session[t]
      /\ UNCHANGED <<login, proof, late, slipped>>
      /\ floor' \in {floor, request[r].floor}
      /\ request'[r] = Idle /\ \A q \in Requests \ {r} : request'[q] = request[q]
  BY DEF WipeDelete, Deletes, Goes, TypeInv, TypeOK
<1>2. \A t \in Ids : Kept(t)' => Kept(t) /\ t \notin request[r].rows
  BY <1>1 DEF Kept
<1>3. \A t \in Ids : Kept(t)' => Fresh(t, floor) /\ Fresh(t, request[r].floor)
  BY <1>1, <1>2 DEF Current
<1>4. \A t \in Ids : Kept(t)' => Fresh(t, floor)'
  BY <1>1, <1>3 DEF Fresh
<1>5. \A q \in Requests : Deletes(q)' => request'[q] = request[q] /\ Deletes(q)
  BY <1>1 DEF Deletes, Idle
<1> QED  BY <1>1, <1>2, <1>4, <1>5 DEF Current, Fresh

LEMMA LoginCreateCurrent ==
  ASSUME TypeInv, Current, NEW r \in Requests, LoginCreate(r)
  PROVE  Current'
<1> DEFINE n == created + 1
<1>1. /\ n \in Ids /\ login'[n] = n
      /\ \A s \in Ids \ {n} : session'[s] = session[s] /\ login'[s] = login[s]
      /\ \A s \in Ids : session[s] # "none" => s # n /\ login[s] # n
      /\ \A q \in Requests : request'[q] = request[q] \/ request'[q] = Idle
      /\ slipped' = slipped /\ floor' = floor
  BY LoginCreateStep
<1>2. /\ n \in late' \/ request[r].seen >= password
      /\ proof' = [proof EXCEPT ![n] = request[r].seen]
  <2>1. request[r].seen \in Passwords /\ password \in Passwords
    BY RequestFields DEF LoginCreate, TypeInv, TypeOK
  <2> QED  BY <2>1 DEF LoginCreate, Passwords
<1>3. late \subseteq late'
  BY DEF LoginCreate
<1>4. /\ proof'[n] = request[r].seen
      /\ \A s \in Ids : Kept(s) => proof'[login[s]] = proof[login[s]]
  <2>1. \A s \in Ids : Kept(s) => login[s] \in Ids /\ login[s] # n
    BY <1>1, SessionsAssumption DEF Kept, TypeInv, TypeOK, Numbered, Ids
  <2> QED  BY <1>1, <1>2, <2>1 DEF TypeInv, TypeOK
<1>5. floor <= password /\ \A q \in Requests : Deletes(q) => request[q].floor <= password
  BY DEF Deletes, TypeInv, PasswordsSet
<1>6. n \in late' \/ \A v \in Passwords : v <= password => proof'[n] >= v
  <2>1. request[r].seen \in Passwords /\ password \in Passwords
    BY RequestFields DEF LoginCreate, TypeInv, TypeOK
  <2> QED  BY <1>2, <1>4, <2>1 DEF Passwords
<1>7. floor \in Passwords /\ \A q \in Requests : Deletes(q) => request[q].floor \in Passwords
  BY RequestFields DEF Deletes, TypeInv, TypeOK
<1>8. \A q \in Requests : Deletes(q)' => request'[q] = request[q] /\ Deletes(q)
  BY <1>1 DEF Deletes, Idle
<1> HIDE DEF n
<1>9. \A s \in Ids : Kept(s)' =>
        s = n \/ (Kept(s) /\ login'[s] = login[s] /\ proof'[login[s]] = proof[login[s]])
  BY <1>1, <1>4 DEF Kept
<1> QED  BY <1>1, <1>3, <1>5, <1>6, <1>7, <1>8, <1>9 DEF Current, Fresh

LEMMA RotateCurrent ==
  ASSUME TypeInv, Current, NEW r \in Requests, Rotate(r)
  PROVE  Current'
<1> DEFINE n == created + 1
           s == request[r].session
<1>1. /\ s \in Ids /\ Kept(s) /\ n \in Ids /\ login'[n] = login[s] /\ login'[s] = login[s]
      /\ \A t \in Ids \ {s, n} : session'[t] = session[t] /\ login'[t] = login[t]
      /\ request'[r] = Idle /\ \A q \in Requests \ {r} : request'[q] = request[q]
      /\ late' = late /\ floor' = floor /\ proof' = proof
      /\ slipped' = IF Deleting(s) THEN slipped \cup {login[s]} ELSE slipped
  BY RotateStep
<1> HIDE DEF n, s
<1>2. slipped \subseteq slipped'
  BY <1>1
<1>3. \A t \in Ids : Kept(t)' => t = n \/ (Kept(t) /\ login'[t] = login[t])
  BY <1>1 DEF Kept
<1>4. \A q \in Requests : Deletes(q)' => request'[q] = request[q] /\ Deletes(q)
  BY <1>1 DEF Deletes, Idle
<1>5. \A q \in Requests : Deletes(q) =>
        login[s] \in slipped' \/ Fresh(s, request[q].floor)
  BY <1>1 DEF Current, Deleting, Deletes
<1> QED  BY <1>1, <1>2, <1>3, <1>4, <1>5 DEF Current, Fresh

LEMMA CurrentStep ==
  ASSUME TypeInv, Current, [Next]_vars
  PROVE  Current'
<1>1. CASE \E r \in Requests : LoginCreate(r) \/ Rotate(r) \/ WipeStart(r) \/ WipeDelete(r)
  BY <1>1, LoginCreateCurrent, RotateCurrent, WipeStartCurrent, WipeDeleteCurrent
<1>2. CASE \E r \in Requests : LogoutDelete(r)
  <2>1. PICK r \in Requests : LogoutDelete(r)
    BY <1>2
  <2>2. floor' = floor /\ \A q \in Requests : request'[q] = request[q] \/ ~Deletes(q)'
    BY <2>1 DEF LogoutDelete, Goes, Deletes, Idle, TypeInv, TypeOK
  <2> QED  BY <2>1, <2>2, DeletionsShrink, ShrinksCurrent
<1>3. CASE \E r \in Requests, s \in Ids : RefreshRead(r, s)
  <2>1. PICK r \in Requests, s \in Ids : RefreshRead(r, s)
    BY <1>3
  <2>2. /\ UNCHANGED <<session, login, proof, late, slipped, floor>> /\ Rotates(r)'
        /\ \A q \in Requests \ {r} : request'[q] = request[q]
    BY <2>1, RefreshReadStep DEF rows
  <2> QED  BY <2>2 DEF Current, Fresh, Deletes, Rotates, Kept
<1> QED  BY <1>1, <1>2, <1>3, QuietSteps, ShrinksCurrent DEF Quiet

(* Whatever overlaps it, once a reset of the password has deleted the      *)
(* sessions, no login with an older password is left or carried on, apart  *)
(* from those that overlapped it.                                          *)
THEOREM SessionsResetEndsSessions == Spec => []ResetEndsSessions
<1>1. Init => Current
  BY DEF Init, Current, Kept, Deletes, Idle
<1>2. Current => ResetEndsSessions
  BY DEF Current, Fresh, Kept, ResetEndsSessions
<1> QED  BY <1>1, <1>2, SessionsTypes, CurrentStep, PTL DEF Spec

-----------------------------------------------------------------------------
(* The tab. A page that is not for whoever is signed in, and one that only *)
(* forwards, is being left; so is a guarded page that nobody is signed in  *)
(* on, but for the one that the proxy sends them to.                       *)

Roles == {"SUPER_ADMIN", "ORG_ADMIN", "ORG_ACCOUNTANT", "EMPLOYEE"}

Kinds == {"me", "login", "loginMe", "logout", "change", "changeMe"}
SentRequest ==
  {r \in [kind : Kinds, by : Web!Users, done : BOOLEAN, answer : Web!Users] :
     r.kind \in {"login", "loginMe"} => r.by # Web!Nobody}

BeingLeft ==
  ~isLoading =>
    /\ user # Web!Nobody /\ path \in Pages /\ user.role \notin Web!Allowed[path]
         => going = Web!Home[user.role]
    /\ path = "/" => going # Web!Nowhere
    /\ user = Web!Nobody /\ path \in Pages => path = "/admin" \/ overtaken \/ going = "/login"

TabInv ==
  /\ Web!TypeOK /\ requests \in Seq(SentRequest)
  /\ going # "/"
  /\ BeingLeft

(* The pages of the roles. *)
LEMMA HomeIsAllowed ==
  ASSUME NEW a \in Accounts
  PROVE  /\ Web!Home[a] \in Pages /\ a \in Web!Allowed[Web!Home[a]] /\ a # "nobody"
         /\ Web!Home[a] = "/login" <=> FALSE
  <1>1. a \in Roles
    BY EndsAssumption DEF Roles
  <1>2. /\ Web!Home["SUPER_ADMIN"] = "/super-admin" /\ Web!Home["ORG_ADMIN"] = "/admin"
        /\ Web!Home["ORG_ACCOUNTANT"] = "/accountant" /\ Web!Home["EMPLOYEE"] = "/employee"
    BY DEF Web!Home
  <1>3. /\ Web!Allowed["/super-admin"] = {"SUPER_ADMIN"}
        /\ Web!Allowed["/admin"] = {"ORG_ADMIN"}
        /\ Web!Allowed["/accountant"] = {"ORG_ACCOUNTANT"}
        /\ Web!Allowed["/employee"] = {"EMPLOYEE"}
    BY DEF Web!Allowed, Web!Guarded, Web!Home
  <1>. QED
    BY <1>1, <1>2, <1>3, EndsAssumption DEF Roles

LEMMA PagesGuarded ==
  /\ Pages \subseteq Web!Guarded
  /\ Pages \subseteq Web!Paths /\ {"/", "/login", "/change-password"} \subseteq Web!Paths
  /\ "/admin" \in Pages /\ "/employee" \in Pages
  /\ Web!Nowhere \notin Web!Paths
  BY EndsAssumption DEF Web!Guarded, Web!Paths, Web!Nowhere

LEMMA UserRoles ==
  ASSUME NEW u \in Web!Users, u # Web!Nobody
  PROVE  u.role \in Accounts /\ u.must \in BOOLEAN
  BY DEF Web!Users

(* Where a page sends a user, and what the proxy makes of it. *)
LEMMA RedirectTo ==
  ASSUME NEW p \in Web!Paths, NEW u \in Web!Users, NEW loading \in BOOLEAN
  PROVE  LET to == Web!Redirect(p, u, loading) IN
         /\ to \in (Web!Paths \ {"/"}) \cup {Web!Nowhere}
         /\ ~loading =>
              /\ u # Web!Nobody /\ p \in Pages /\ u.role \notin Web!Allowed[p]
                   => to = Web!Home[u.role]
              /\ p = "/" => to # Web!Nowhere
              /\ u = Web!Nobody /\ p \in Pages => to = "/login"
  <1>1. u # Web!Nobody => Web!Home[u.role] \in Pages
    BY UserRoles, HomeIsAllowed
  <1>2. Web!Nobody.role = "nobody"
    BY DEF Web!Nobody
  <1>3. Pages \subseteq Web!Guarded /\ "/employee" \in Pages /\ Pages \subseteq Web!Paths
        /\ Web!Nowhere \notin Web!Paths /\ "/login" \in Web!Paths
    BY PagesGuarded
  <1>4. CASE p \in Pages /\ ~loading
    <2>1. Web!Redirect(p, u, loading) = Web!Guard(p, u) /\ p # "/"
      BY <1>3, <1>4 DEF Web!Redirect, Web!Guarded
    <2>2. CASE u = Web!Nobody
      <3>1. Web!Guard(p, u) = "/login"
        BY <2>2 DEF Web!Guard
      <3>2. "/login" \in Web!Paths \ {"/"}
        BY <1>3
      <3>. QED
        BY <1>4, <2>1, <2>2, <3>1, <3>2
    <2>3. CASE u # Web!Nobody
      <3>1. Web!Guard(p, u) = IF u.role \in Web!Allowed[p] THEN Web!Nowhere
                              ELSE Web!Home[u.role]
        BY <2>3 DEF Web!Guard
      <3>2. Web!Home[u.role] \in Web!Paths \ {"/"}
        BY <1>1, <1>3, <2>3 DEF Web!Guarded
      <3>. QED
        BY <1>4, <2>1, <2>3, <3>1, <3>2
    <2>. QED
      BY <2>2, <2>3
  <1>5. CASE p = "/" /\ ~loading
    <2>1. Web!Redirect(p, u, loading) = Web!Forward(u) /\ p \notin Pages
      BY <1>3, <1>5 DEF Web!Redirect, Web!Guarded
    <2>2. Web!Forward(u) \in {"/login", "/employee"}
                              \cup (IF u = Web!Nobody THEN {} ELSE {Web!Home[u.role]})
      BY <1>2 DEF Web!Forward
    <2>3. u # Web!Nobody => Web!Home[u.role] \in Web!Paths \ {"/"}
      BY <1>1, <1>3 DEF Web!Guarded
    <2>4. Web!Forward(u) \in Web!Paths \ {"/"}
      BY <1>3, <2>2, <2>3
    <2>. QED
      BY <1>3, <1>5, <2>1, <2>4
  <1>6. CASE p \notin Pages /\ p # "/"
    BY <1>1, <1>3, <1>6 DEF Web!Redirect, Web!Guarded
  <1>7. CASE loading
    <2>1. Web!Redirect(p, u, loading) \in {Web!Nowhere} \cup (IF u # Web!Nobody THEN {Web!Home[u.role]} ELSE {})
      BY <1>7 DEF Web!Redirect
    <2>. QED
      BY <1>1, <1>3, <1>7, <2>1 DEF Web!Guarded
  <1>. QED
    BY <1>4, <1>5, <1>6, <1>7

LEMMA ProxyTo ==
  ASSUME NEW p \in Web!Paths
  PROVE  /\ Web!Proxy(p) \in Web!Paths
         /\ Web!Proxy(p) = "/" => p = "/"
         /\ p \in Pages => Web!Proxy(p) \in {p, "/login"}
         /\ p = "/login" => Web!Proxy(p) \in {"/login", "/admin"}
  BY PagesGuarded DEF Web!Proxy, Web!Protected, Web!Guarded

LEMMA TabInvInit == Web!Init => TabInv
  <1>. SUFFICES ASSUME Web!Init PROVE TabInv
    OBVIOUS
  <1>1. path \in Web!Paths
    <2>1. PICK p \in Web!Paths : path = Web!Proxy(p)
      BY DEF Web!Init
    <2>. QED
      BY <2>1, ProxyTo
  <1>2. Web!TypeOK /\ going # "/" /\ BeingLeft
    BY <1>1 DEF Web!Init, Web!TypeOK, BeingLeft, Web!Users, Web!Nobody, Web!Nowhere
  <1>3. requests \in Seq(SentRequest)
    <2>1. Web!Sent("me", Web!Nobody) \in SentRequest
      BY DEF Web!Sent, SentRequest, Kinds, Web!Users, Web!Nobody
    <2>. QED
      BY <2>1 DEF Web!Init
  <1>. QED
    BY <1>2, <1>3 DEF TabInv

(* A page is mounted, which starts its own redirection. *)
LEMMA Mounts ==
  ASSUME TabInv, NEW p \in Web!Paths, Web!Mount(p), UNCHANGED <<user, isLoading, requests>>,
         UNCHANGED <<cookie, token, must, overtaken>>,
         p = path => BeingLeft' 
  PROVE  TabInv'
  <1>. DEFINE to == Web!Redirect(p, user, isLoading)
  <1>1. Web!TypeOK
    BY DEF TabInv
  <1>2. user \in Web!Users /\ isLoading \in BOOLEAN
    BY <1>1 DEF Web!TypeOK
  <1>3. /\ to \in (Web!Paths \ {"/"}) \cup {Web!Nowhere}
        /\ ~isLoading =>
             /\ user # Web!Nobody /\ p \in Pages /\ user.role \notin Web!Allowed[p]
                  => to = Web!Home[user.role]
             /\ p = "/" => to # Web!Nowhere
             /\ user = Web!Nobody /\ p \in Pages => to = "/login"
    BY <1>2, RedirectTo
  <1>. HIDE DEF to
  <1>4. path' = p /\ going' = IF p = path THEN Web!Nowhere ELSE to
    BY DEF Web!Mount, to
  <1>5. going' \in (Web!Paths \ {"/"}) \cup {Web!Nowhere}
    BY <1>3, <1>4 DEF Web!Nowhere
  <1>6. Web!TypeOK'
    BY <1>1, <1>4, <1>5 DEF Web!TypeOK
  <1>7. BeingLeft'
    BY <1>3, <1>4 DEF BeingLeft
  <1>. QED
    BY <1>5, <1>6, <1>7 DEF TabInv, Web!Nowhere

(* The answer to a request changes who is signed in, and the page sends    *)
(* them on from where they are. *)
LEMMA Pushes ==
  ASSUME TabInv, NEW asked \in (Web!Paths \ {"/"}) \cup {Web!Nowhere}, Web!Push(asked),
         UNCHANGED <<path, cookie, token, must>>,
         user' \in Web!Users, isLoading' \in BOOLEAN, requests' \in Seq(SentRequest)
  PROVE  TabInv'
  <1>. DEFINE forced == Web!Redirect(path, user', isLoading')
              changed == user' # Web!Nobody \/ user' # user \/ isLoading' # isLoading
  <1>1. Web!TypeOK /\ going # "/" /\ BeingLeft
    BY DEF TabInv
  <1>2. path \in Web!Paths /\ going \in Web!Paths \cup {Web!Nowhere}
    BY <1>1 DEF Web!TypeOK
  <1>3. /\ forced \in (Web!Paths \ {"/"}) \cup {Web!Nowhere}
        /\ ~isLoading' =>
             /\ user' # Web!Nobody /\ path \in Pages /\ user'.role \notin Web!Allowed[path]
                  => forced = Web!Home[user'.role]
             /\ path = "/" => forced # Web!Nowhere
             /\ user' = Web!Nobody /\ path \in Pages => forced = "/login"
    BY <1>2, RedirectTo
  <1>. HIDE DEF forced
  <1>4. /\ going' = IF changed /\ forced # Web!Nowhere THEN forced
                    ELSE IF asked # Web!Nowhere THEN asked ELSE going
        /\ overtaken' = (overtaken \/ (asked # Web!Nowhere /\ going # Web!Nowhere))
    BY DEF Web!Push, forced
  <1>5. going' \in (Web!Paths \ {"/"}) \cup {Web!Nowhere} /\ going' # "/"
    BY <1>1, <1>2, <1>3, <1>4 DEF Web!Nowhere
  <1>6. Web!TypeOK'
    BY <1>1, <1>4, <1>5 DEF Web!TypeOK
  <1>7. BeingLeft'
    <2>. SUFFICES ASSUME ~isLoading' PROVE BeingLeft'
      BY DEF BeingLeft
    <2>1. user' # Web!Nobody /\ path \in Pages /\ user'.role \notin Web!Allowed[path]
            => going' = Web!Home[user'.role]
      <3>. SUFFICES ASSUME user' # Web!Nobody, path \in Pages,
                           user'.role \notin Web!Allowed[path]
                    PROVE  going' = Web!Home[user'.role]
        OBVIOUS
      <3>1. Web!Home[user'.role] \in Pages
        BY UserRoles, HomeIsAllowed
      <3>2. forced # Web!Nowhere
        BY <1>3, <3>1, PagesGuarded
      <3>. QED
        BY <1>3, <1>4, <3>2
    <2>2. path = "/" => going' # Web!Nowhere
      BY <1>1, <1>3, <1>4 DEF BeingLeft
    <2>3. user' = Web!Nobody /\ path \in Pages
            => path = "/admin" \/ overtaken' \/ going' = "/login"
      <3>. SUFFICES ASSUME user' = Web!Nobody, path \in Pages PROVE path = "/admin" \/ overtaken' \/ going' = "/login"
        OBVIOUS
      <3>1. forced = "/login" /\ "/login" # Web!Nowhere
        BY <1>3 DEF Web!Nowhere
      <3>2. CASE changed
        BY <1>4, <3>1, <3>2
      <3>3. CASE ~changed
        <4>1. path = "/admin" \/ overtaken \/ going = "/login"
          BY <1>1, <3>3 DEF BeingLeft
        <4>. QED
          BY <1>4, <3>1, <3>3, <4>1
      <3>. QED
        BY <3>2, <3>3
    <2>. QED
      BY <2>1, <2>2, <2>3 DEF BeingLeft
  <1>. QED
    BY <1>5, <1>6, <1>7 DEF TabInv

(* A request is sent, or answered, and the page stays as it is. *)
LEMMA Waits ==
  ASSUME TabInv, UNCHANGED <<user, isLoading, path, going, overtaken>>,
         cookie' \in Accounts \cup {"none"}, token' \in {"valid", "ended", "foreign"},
         must' \subseteq Newcomers, requests' \in Seq(SentRequest)
  PROVE  TabInv'
  BY DEF TabInv, BeingLeft, Web!TypeOK

(* The requests that are on their way, as they are sent, answered, taken.  *)
LEMMA SentIsRequest ==
  ASSUME NEW kind \in Kinds, NEW u \in Web!Users, kind \in {"login", "loginMe"} => u # Web!Nobody
  PROVE  Web!Sent(kind, u) \in SentRequest
  BY DEF Web!Sent, SentRequest, Web!Users, Web!Nobody

LEMMA RequestOf ==
  ASSUME TabInv, NEW i \in DOMAIN requests
  PROVE  /\ requests[i] \in SentRequest
         /\ requests[i].by \in Web!Users /\ requests[i].answer \in Web!Users
         /\ requests[i].kind \in {"login", "loginMe"} => requests[i].by # Web!Nobody
  BY DEF TabInv, SentRequest

LEMMA Taken ==
  ASSUME TabInv, NEW i \in DOMAIN requests, Web!Take(i)
  PROVE  requests' \in Seq(SentRequest)
  <1>1. requests \in Seq(SentRequest) /\ i \in 1..Len(requests) /\ Len(requests) \in Nat
    BY DEF TabInv
  <1>2. /\ \A j \in 1..(i - 1) : requests[j] \in SentRequest
        /\ \A j \in (i + 1)..Len(requests) : requests[j] \in SentRequest
    BY <1>1
  <1>3. /\ SubSeq(requests, 1, i - 1) \in Seq(SentRequest)
        /\ SubSeq(requests, i + 1, Len(requests)) \in Seq(SentRequest)
    BY <1>1, <1>2, SubSeqProperties
  <1>. QED
    BY <1>3, ConcatProperties DEF Web!Take, Web!RemoveAt

LEMMA Replaced ==
  ASSUME TabInv, NEW i \in DOMAIN requests, NEW r \in SentRequest,
         requests' = [requests EXCEPT ![i] = r]
  PROVE  requests' \in Seq(SentRequest)
  BY DEF TabInv

LEMMA AnswerKept ==
  ASSUME TabInv, NEW i \in DOMAIN requests, NEW u \in Web!Users, Web!Answer(i, u)
  PROVE  requests' \in Seq(SentRequest)
  <1>. DEFINE r == requests[i]
              answered == [r EXCEPT !.done = TRUE, !.answer = u]
  <1>1. r \in SentRequest
    BY RequestOf
  <1>2. answered \in SentRequest
    <2>1. ASSUME NEW done \in BOOLEAN PROVE [r EXCEPT !.done = done, !.answer = u] \in SentRequest
      BY <1>1 DEF SentRequest
    <2>. QED
      BY <2>1
  <1>3. requests' = [requests EXCEPT ![i] = answered]
    BY DEF Web!Answer
  <1>. HIDE DEF answered
  <1>. QED
    BY <1>2, <1>3, Replaced

LEMMA SendKept ==
  ASSUME TabInv, NEW r \in SentRequest, Web!Send(r)
  PROVE  requests' \in Seq(SentRequest)
  BY DEF TabInv, Web!Send

LEMMA NobodyIsUser == Web!Nobody \in Web!Users /\ Web!Nobody.role = "nobody"
  BY DEF Web!Users, Web!Nobody

LEMMA ProfileIsUser ==
  ASSUME NEW a \in Accounts
  PROVE  Web!Profile(a) \in Web!Users /\ Web!Profile(a) # Web!Nobody
  <1>1. Web!Profile(a) \in Web!Users /\ Web!Profile(a).role = a
    BY DEF Web!Profile, Web!Users
  <1>. QED
    BY <1>1, HomeIsAllowed, NobodyIsUser

(* The user's steps. *)
LEMMA OpensTab ==
  ASSUME TabInv, NEW p \in Web!Paths, Web!Open(p)
  PROVE  TabInv'
  <1>1. /\ path' = Web!Proxy(p) /\ going' = Web!Nowhere /\ user' = Web!Nobody
        /\ requests' = <<Web!Sent("me", Web!Nobody)>> /\ overtaken' = FALSE
        /\ UNCHANGED <<cookie, token, must>>
    BY DEF Web!Open, Web!server
  <1>2. isLoading' = TRUE
    BY DEF Web!Open
  <1>3. path' \in Web!Paths
    BY <1>1, ProxyTo
  <1>4. requests' \in Seq(SentRequest)
    BY <1>1, NobodyIsUser, SentIsRequest DEF Kinds
  <1>5. Web!TypeOK'
    BY <1>1, <1>2, <1>3, NobodyIsUser DEF TabInv, Web!TypeOK
  <1>6. BeingLeft'
    BY <1>2 DEF BeingLeft
  <1>. QED
    BY <1>1, <1>4, <1>5, <1>6 DEF TabInv, Web!Nowhere

LEMMA SendsTab ==
  ASSUME TabInv,
         \/ \E account \in Accounts : Web!SignIn(account)
         \/ Web!SignOut \/ Web!RefreshUser \/ Web!ChangePassword
  PROVE  TabInv'
  <1>1. UNCHANGED <<user, isLoading, path, going, overtaken, cookie, token, must>>
    BY DEF Web!SignIn, Web!SignOut, Web!RefreshUser, Web!ChangePassword, Web!server
  <1>2. PICK kind \in Kinds, u \in Web!Users : /\ Web!Send(Web!Sent(kind, u))
                                               /\ kind \in {"login", "loginMe"} => u # Web!Nobody
    <2>1. user \in Web!Users
      BY DEF TabInv, Web!TypeOK
    <2>2. {"me", "login", "logout", "change"} \subseteq Kinds
      BY DEF Kinds
    <2>. QED
      BY <2>1, <2>2, NobodyIsUser, ProfileIsUser
         DEF Web!SignIn, Web!SignOut, Web!RefreshUser, Web!ChangePassword
  <1>3. requests' \in Seq(SentRequest)
    BY <1>2, SentIsRequest, SendKept
  <1>. QED
    BY <1>1, <1>3, Waits DEF TabInv, Web!TypeOK

LEMMA VisitsTab ==
  ASSUME TabInv, NEW p \in Web!Paths, Web!Visit(p)
  PROVE  TabInv'
  <1>1. /\ path \in Pages /\ user.role \in Web!Allowed[path] /\ p \in Pages /\ going' = p
        /\ UNCHANGED <<overtaken, user, isLoading, path, requests, cookie, token, must>>
    BY DEF Web!Visit, Web!Seen, Web!server
  <1>2. p # "/" /\ path # "/"
    BY <1>1, PagesGuarded DEF Web!Guarded
  <1>3. user # Web!Nobody
    <2>1. Web!Allowed[path] \subseteq Roles
      BY <1>1, PagesGuarded DEF Web!Allowed, Web!Home, Roles
    <2>. QED
      BY <1>1, <2>1, NobodyIsUser DEF Roles
  <1>4. Web!TypeOK'
    BY <1>1 DEF TabInv, Web!TypeOK
  <1>5. BeingLeft'
    BY <1>1, <1>2, <1>3 DEF BeingLeft
  <1>. QED
    BY <1>1, <1>2, <1>4, <1>5 DEF TabInv

LEMMA BackTab ==
  ASSUME TabInv, NEW p \in Web!Paths, Web!Back(p)
  PROVE  TabInv'
  BY Mounts DEF Web!Back, Web!server

(* The proxy sends nobody back to the page they are being sent away from.  *)
LEMMA ArrivesTab ==
  ASSUME TabInv, Web!Arrive
  PROVE  TabInv'
  <1>. DEFINE p == Web!Proxy(going)
  <1>1. /\ going # Web!Nowhere /\ Web!Mount(p)
        /\ UNCHANGED <<user, isLoading, requests, cookie, token, must, overtaken>>
    BY DEF Web!Arrive, Web!server
  <1>2. Web!TypeOK /\ going # "/" /\ BeingLeft
    BY DEF TabInv
  <1>3. going \in Web!Paths
    BY <1>1, <1>2 DEF Web!TypeOK
  <1>4. /\ p \in Web!Paths /\ p # "/"
        /\ going \in Pages => p \in {going, "/login"}
        /\ going = "/login" => p \in {"/login", "/admin"}
    BY <1>2, <1>3, ProxyTo
  <1>. HIDE DEF p
  <1>5. p = path => BeingLeft'
    <2>. SUFFICES ASSUME p = path, ~isLoading PROVE BeingLeft'
      BY <1>1 DEF BeingLeft
    <2>1. path # "/" /\ path' = path
      BY <1>1, <1>4 DEF Web!Mount
    <2>2. "/login" \notin Pages
      BY PagesGuarded DEF Web!Guarded
    <2>3. ~(user # Web!Nobody /\ path \in Pages /\ user.role \notin Web!Allowed[path])
      <3>. SUFFICES ASSUME user # Web!Nobody, path \in Pages, user.role \notin Web!Allowed[path]
                    PROVE  FALSE
        OBVIOUS
      <3>1. user.role \in Accounts
        BY <1>2, UserRoles DEF Web!TypeOK
      <3>2. going = Web!Home[user.role]
        BY <1>2 DEF BeingLeft
      <3>3. p \in {going, "/login"} /\ user.role \in Web!Allowed[going]
        BY <1>4, <3>1, <3>2, HomeIsAllowed
      <3>. QED
        BY <2>2, <3>3
    <2>4. user = Web!Nobody /\ path \in Pages => path = "/admin" \/ overtaken
      BY <1>2, <1>4, <2>2 DEF BeingLeft
    <2>. QED
      BY <1>1, <2>1, <2>3, <2>4 DEF BeingLeft
  <1>. QED
    BY <1>1, <1>4, <1>5, Mounts

(* The server's steps, and the world's. *)
LEMMA ServesTab ==
  ASSUME TabInv, NEW i \in DOMAIN requests, Web!Serve(i)
  PROVE  TabInv'
  <1>1. UNCHANGED <<user, isLoading, path, going, overtaken>>
    BY DEF Web!Serve
  <1>2. /\ cookie \in Accounts \cup {"none"} /\ token \in {"valid", "ended", "foreign"}
        /\ must \subseteq Newcomers
    BY DEF TabInv, Web!TypeOK
  <1>3. /\ \E u \in Web!Users : Web!Answer(i, u)
        /\ cookie' \in Accounts \cup {"none"} /\ token' \in {"valid", "ended", "foreign"}
        /\ must' \subseteq Newcomers
    <2>1. CASE Web!Refused(i)
      BY <1>2, <2>1, NobodyIsUser DEF Web!Refused, Web!Emptied
    <2>2. CASE Web!Me(i)
      BY <1>2, <2>1, <2>2, ProfileIsUser DEF Web!Me, Web!Authentic, Web!server
    <2>3. CASE Web!LoggedIn(i)
      <3>1. requests[i].by.role \in Accounts
        BY <2>3, RequestOf, UserRoles DEF Web!LoggedIn
      <3>. QED
        BY <1>2, <2>3, <3>1, ProfileIsUser DEF Web!LoggedIn
    <2>4. CASE Web!LoggedOut(i)
      BY <1>2, <2>1, <2>4, NobodyIsUser DEF Web!LoggedOut, Web!Emptied
    <2>5. CASE Web!Changed(i)
      BY <1>2, <2>1, <2>5, NobodyIsUser, ProfileIsUser DEF Web!Changed, Web!Authentic, Web!server
    <2>6. CASE Web!Lost(i)
      BY <1>2, <2>6, NobodyIsUser DEF Web!Lost, Web!server
    <2>. QED
      BY <2>2, <2>3, <2>4, <2>5, <2>6 DEF Web!Serve
  <1>4. requests' \in Seq(SentRequest)
    BY <1>3, AnswerKept
  <1>. QED
    BY <1>1, <1>3, <1>4, Waits

LEMMA MeanwhileTab ==
  ASSUME TabInv, Web!Meanwhile
  PROVE  TabInv'
  <1>1. UNCHANGED <<user, isLoading, path, going, requests, must, overtaken>>
    BY DEF Web!Meanwhile
  <1>2. cookie' \in Accounts \cup {"none"} /\ token' \in {"valid", "ended", "foreign"}
    BY DEF Web!Meanwhile, Web!Emptied, TabInv, Web!TypeOK
  <1>. QED
    BY <1>1, <1>2, Waits DEF TabInv, Web!TypeOK

(* The tab's steps with an answer. *)
LEMMA GotTab ==
  ASSUME TabInv, NEW i \in DOMAIN requests,
         \/ Web!GotMe(i) \/ Web!GotLogin(i) \/ Web!GotLoginMe(i)
         \/ Web!GotLogout(i) \/ Web!GotChange(i) \/ Web!GotChangeMe(i)
  PROVE  TabInv'
  <1>. DEFINE by == requests[i].by
              answer == requests[i].answer
  <1>1. by \in Web!Users /\ answer \in Web!Users /\ user \in Web!Users /\ isLoading \in BOOLEAN
    BY RequestOf DEF TabInv, Web!TypeOK
  <1>2. by # Web!Nobody => Web!Home[by.role] \in Web!Paths \ {"/"}
    BY <1>1, UserRoles, HomeIsAllowed, PagesGuarded DEF Web!Guarded
  <1>3. {"/login", "/change-password", "/employee"} \subseteq Web!Paths \ {"/"}
    BY PagesGuarded
  <1>4. Web!Take(i) => requests' \in Seq(SentRequest)
    BY Taken
  <1>5. UNCHANGED <<path, cookie, token, must>>
    BY DEF Web!GotMe, Web!GotLogin, Web!GotLoginMe, Web!GotLogout, Web!GotChange,
       Web!GotChangeMe, Web!Got, Web!server
  <1>. HIDE DEF by, answer
  <1>6. CASE Web!GotMe(i)
    <2>1. /\ user' = answer /\ isLoading' = FALSE /\ Web!Take(i)
          /\ Web!Push(IF answer.must THEN "/change-password" ELSE Web!Nowhere)
      BY <1>6 DEF Web!GotMe, Web!Know, answer
    <2>. QED
      BY <1>1, <1>3, <1>4, <1>5, <2>1, Pushes
  <1>7. CASE Web!GotLogin(i)
    <2>1. CASE answer = Web!Nobody
      BY <1>4, <1>5, <1>7, <2>1, Waits DEF Web!GotLogin, answer, TabInv, Web!TypeOK
    <2>2. CASE answer # Web!Nobody
      <3>1. /\ user' = answer /\ UNCHANGED isLoading /\ Web!Push(Web!Nowhere)
            /\ requests' = [requests EXCEPT ![i] = Web!Sent("loginMe", answer)]
        BY <1>7, <2>2 DEF Web!GotLogin, answer
      <3>2. Web!Sent("loginMe", answer) \in SentRequest
        BY <1>1, <2>2, SentIsRequest DEF Kinds
      <3>3. requests' \in Seq(SentRequest)
        BY <3>1, <3>2, Replaced
      <3>. QED
        BY <1>1, <1>5, <3>1, <3>3, Pushes
    <2>. QED
      BY <2>1, <2>2
  <1>8. CASE Web!GotLoginMe(i)
    <2>. DEFINE known == IF answer = Web!Nobody THEN by ELSE answer
    <2>1. /\ user' = (IF answer = Web!Nobody THEN user ELSE answer) /\ UNCHANGED isLoading
          /\ Web!Take(i)
          /\ Web!Push(IF known.must THEN "/change-password" ELSE Web!Home[by.role])
      BY <1>8 DEF Web!GotLoginMe, answer, by
    <2>2. by # Web!Nobody
      BY <1>8, RequestOf DEF Web!GotLoginMe, Web!Got, by
    <2>. QED
      BY <1>1, <1>2, <1>3, <1>4, <1>5, <2>1, <2>2, Pushes
  <1>9. CASE Web!GotLogout(i)
    <2>1. user' = Web!Nobody /\ UNCHANGED isLoading /\ Web!Take(i) /\ Web!Push("/login")
      BY <1>9 DEF Web!GotLogout
    <2>. QED
      BY <1>1, <1>3, <1>4, <1>5, <2>1, NobodyIsUser, Pushes
  <1>10. CASE Web!GotChange(i)
    <2>1. UNCHANGED <<user, isLoading, going, overtaken>>
      BY <1>10 DEF Web!GotChange
    <2>2. requests' \in Seq(SentRequest)
      <3>1. Web!Take(i) \/ requests' = [requests EXCEPT ![i] = Web!Sent("changeMe", by)]
        BY <1>10 DEF Web!GotChange, by
      <3>2. Web!Sent("changeMe", by) \in SentRequest
        BY <1>1, SentIsRequest DEF Kinds
      <3>. QED
        BY <1>4, <3>1, <3>2, Replaced
    <2>. QED
      BY <1>5, <2>1, <2>2, Waits DEF TabInv, Web!TypeOK
  <1>11. CASE Web!GotChangeMe(i)
    <2>1. /\ user' = answer /\ isLoading' = FALSE /\ Web!Take(i)
          /\ Web!Push(IF by = Web!Nobody THEN "/employee" ELSE Web!Home[by.role])
      BY <1>11 DEF Web!GotChangeMe, Web!Know, answer, by
    <2>. QED
      BY <1>1, <1>2, <1>3, <1>4, <1>5, <2>1, Pushes
  <1>. QED
    BY <1>6, <1>7, <1>8, <1>9, <1>10, <1>11

LEMMA TabInvNext == TabInv /\ [Web!Next]_(Web!vars) => TabInv'
  <1>. SUFFICES ASSUME TabInv, [Web!Next]_(Web!vars) PROVE TabInv'
    OBVIOUS
  <1>1. CASE UNCHANGED Web!vars
    BY <1>1, Waits DEF Web!vars, TabInv, Web!TypeOK
  <1>. QED
    BY <1>1, OpensTab, SendsTab, VisitsTab, BackTab, ArrivesTab, ServesTab, MeanwhileTab, GotTab
       DEF Web!Next

(* Wherever answers, redirections and other tabs cut in: once nothing is   *)
(* under way nobody is left on a page that is not for their role, nor on   *)
(* the one that only forwards, and who is not signed in on no guarded page *)
(* but the one the proxy sends them to; for any roles and pages.           *)
THEOREM EndsLandsWhereAllowed == EndsSpec => []LandsWhereAllowed
  <1>1. EndsInit => Web!Init
    BY DEF EndsInit
  <1>2. [EndsNext]_<<part, vars, webVars>> => [Web!Next]_(Web!vars)
    BY DEF EndsNext, webVars, Web!vars
  <1>3. TabInv => LandsWhereAllowed
    <2>. SUFFICES ASSUME TabInv, Web!Settled PROVE LandsWhereAllowed
      BY DEF TabInv, LandsWhereAllowed, Web!LandsWhereAllowed
    <2>1. going = Web!Nowhere /\ ~isLoading
      BY DEF Web!Settled
    <2>2. Web!Nowhere \notin Pages \cup {"/login"}
      BY PagesGuarded
    <2>3. user # Web!Nobody => Web!Home[user.role] # Web!Nowhere
      BY <2>2, UserRoles, HomeIsAllowed DEF TabInv, Web!TypeOK
    <2>. QED
      BY <2>1, <2>2, <2>3 DEF TabInv, BeingLeft, LandsWhereAllowed, Web!LandsWhereAllowed
  <1>. QED
    BY <1>1, <1>2, <1>3, TabInvInit, TabInvNext, PTL DEF EndsSpec

=============================================================================
