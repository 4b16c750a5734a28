------------------------------- MODULE QrCodes -------------------------------
(***************************************************************************)
(* The QR codes of one organisation: rotating codes that live a day,       *)
(* static codes for a poster, their revocation, and the scans that use     *)
(* them (qr.service.ts; validateQRPayload and incrementQRScanCount).       *)
(*                                                                         *)
(* A transaction at READ COMMITTED revokes the codes that were committed   *)
(* when its statement began; what it has done is seen when it commits.     *)
(* Days are whole: a day is the life of a rotating code.                   *)
(***************************************************************************)
EXTENDS Integers, FiniteSets

CONSTANTS
  Staff,       \* the requests of admins in progress
  Scans,       \* the scans in progress
  StaticDays,  \* the settings staticQRExpiryDays may have
  MaxCodes,    \* bound on the codes created
  MaxScans,    \* bound on the scans of the active codes
  LastDay      \* bound on the days explored

Ids == 1..MaxCodes
NoCode == [status |-> "none"]
Never == 0    \* expiresAt IS NULL

Code == [status : {"ACTIVE", "REVOKED"}, expiresAt : Nat, scanCount : Nat]

Idle == [op |-> "idle"]
AdminStates ==
  {Idle}
  \cup [op : {"generate"}, seen : SUBSET Ids]
  \cup [op : {"static"}, expiresAt : Nat]
  \cup [op : {"regenerate"}, expiresAt : Nat]
  \cup [op : {"replace"}, expiresAt : Nat, seen : SUBSET Ids]
ScanStates ==
  {Idle} \cup [op : {"count", "clock"}, code : Ids, route : {"kiosk", "app"}]

VARIABLES
  today,
  codes,      \* id, in the order of creation -> qr_codes row, or NoCode
  admin,      \* admin's request -> what it is in the middle of
  scan,       \* scan -> what it is in the middle of
  rotating,   \* history: the codes created by generate
  crowded,    \* history: an admin's request began while another was in progress
  clocked,    \* history: code -> the scans that have clocked by it
  uncounted   \* history: code -> the scans not counted since it was revoked meanwhile

vars == <<today, codes, admin, scan, rotating, crowded, clocked, uncounted>>
history == <<rotating, crowded, clocked, uncounted>>

TypeOK ==
  /\ today \in 1..LastDay
  /\ codes \in [Ids -> Code \cup {NoCode}]
  /\ admin \in [Staff -> AdminStates]
  /\ scan \in [Scans -> ScanStates]
  /\ rotating \subseteq Ids /\ crowded \in BOOLEAN
  /\ clocked \in [Ids -> Nat] /\ uncounted \in [Ids -> Nat]

Active == {i \in Ids : codes[i].status = "ACTIVE"}
Dated == {i \in Active : codes[i].expiresAt # Never}

(* A mistaken form: the codes without a date only, as before they had one. *)
StaticUndated == {i \in Active : codes[i].expiresAt = Never}

(* A static code is told by how far off it expires. *)
Static == {i \in Active : codes[i].expiresAt = Never \/ codes[i].expiresAt > today + 1}

Init ==
  /\ today = 1
  /\ codes = [i \in Ids |-> NoCode]
  /\ admin = [a \in Staff |-> Idle]
  /\ scan = [s \in Scans |-> Idle]
  /\ rotating = {} /\ crowded = FALSE
  /\ clocked = [i \in Ids |-> 0] /\ uncounted = [i \in Ids |-> 0]

Start(a, state) ==
  /\ admin[a] = Idle
  /\ admin' = [admin EXCEPT ![a] = state]
  /\ crowded' = (crowded \/ \E b \in Staff : admin[b] # Idle)
End(a) == admin' = [admin EXCEPT ![a] = Idle]

(* The next row, with the rows of `gone` revoked. *)
New(i) == codes[i] = NoCode /\ \A j \in 1..(i - 1) : codes[j] # NoCode
Replace(gone, i, expiresAt) ==
  codes' = [j \in Ids |->
    IF j = i THEN [status |-> "ACTIVE", expiresAt |-> expiresAt, scanCount |-> 0]
    ELSE IF j \in gone THEN [codes[j] EXCEPT !.status = "REVOKED"] ELSE codes[j]]

Expiry(days) == IF days <= 0 THEN Never ELSE today + days

(***************************************************************************)
(* generate: one transaction, seen by its first statement and its commit.  *)
(***************************************************************************)
GenerateRevoke(a) ==
  /\ Start(a, [op |-> "generate", seen |-> Dated])
  /\ UNCHANGED <<today, codes, scan, rotating, clocked, uncounted>>

GenerateCreate(a) ==
  /\ admin[a].op = "generate"
  /\ \E i \in Ids : /\ New(i)
                    /\ Replace(admin[a].seen, i, today + 1)
                    /\ rotating' = rotating \cup {i}
  /\ End(a)
  /\ UNCHANGED <<today, scan, crowded, clocked, uncounted>>

(***************************************************************************)
(* generateStatic shows the code there is, or creates one.                 *)
(***************************************************************************)
GenerateStaticFind(a, days) ==
  /\ Static = {}
  /\ Start(a, [op |-> "static", expiresAt |-> Expiry(days)])
  /\ UNCHANGED <<today, codes, scan, rotating, clocked, uncounted>>

GenerateStaticCreate(a) ==
  /\ admin[a].op = "static"
  /\ \E i \in Ids : New(i) /\ Replace({}, i, admin[a].expiresAt)
  /\ End(a)
  /\ UNCHANGED <<today, scan, history>>

(***************************************************************************)
(* regenerateStatic: the setting is read, then one transaction.            *)
(***************************************************************************)
RegenerateExpiry(a, days) ==
  /\ Start(a, [op |-> "regenerate", expiresAt |-> Expiry(days)])
  /\ UNCHANGED <<today, codes, scan, rotating, clocked, uncounted>>

RegenerateRevoke(a) ==
  /\ admin[a].op = "regenerate"
  /\ admin' = [admin EXCEPT ![a] = [op |-> "replace", expiresAt |-> admin[a].expiresAt,
                                    seen |-> Static]]
  /\ UNCHANGED <<today, codes, scan, history>>

RegenerateCreate(a) ==
  /\ admin[a].op = "replace"
  /\ \E i \in Ids : New(i) /\ Replace(admin[a].seen, i, admin[a].expiresAt)
  /\ End(a)
  /\ UNCHANGED <<today, scan, history>>

(* revoke: one statement, and the transactions under way go on. *)
Revoke ==
  /\ Active # {}
  /\ codes' = [i \in Ids |-> IF i \in Active THEN [codes[i] EXCEPT !.status = "REVOKED"]
                             ELSE codes[i]]
  /\ UNCHANGED <<today, admin, scan, history>>

(* A statement throws: a transaction is rolled back. *)
Fail(a) ==
  /\ admin[a] # Idle
  /\ End(a)
  /\ UNCHANGED <<today, codes, scan, history>>

(***************************************************************************)
(* A scan. The kiosk's validates the code, then the PIN, and counts if the *)
(* code is still active; the app's validates and counts the row it read.   *)
(***************************************************************************)
Scannable(i) ==
  /\ codes[i].status = "ACTIVE"
  /\ codes[i].expiresAt = Never \/ codes[i].expiresAt >= today

Validate(s, i, route) ==
  /\ scan[s] = Idle
  /\ Scannable(i)
  /\ \A j \in Active : codes[j].scanCount < MaxScans
  /\ scan' = [scan EXCEPT ![s] = [op |-> "count", code |-> i, route |-> route]]
  /\ UNCHANGED <<today, codes, admin, history>>

Counts(s) == scan[s].route = "app" \/ codes[scan[s].code].status = "ACTIVE"

(* A mistaken form: a scan of a code that is no longer scannable, though   *)
(* it is active, is not counted. *)
CountScannable(s) ==
  /\ scan[s].op = "count"
  /\ LET i == scan[s].code IN
     /\ codes' = IF Scannable(i) THEN [codes EXCEPT ![i].scanCount = @ + 1] ELSE codes
     /\ uncounted' = IF Counts(s) THEN uncounted ELSE [uncounted EXCEPT ![i] = @ + 1]
  /\ scan' = [scan EXCEPT ![s].op = "clock"]
  /\ UNCHANGED <<today, admin, rotating, crowded, clocked>>

Count(s) ==
  /\ scan[s].op = "count"
  /\ LET i == scan[s].code IN
     IF Counts(s)
     THEN /\ codes' = [codes EXCEPT ![i].scanCount = @ + 1]
          /\ UNCHANGED uncounted
     ELSE /\ uncounted' = [uncounted EXCEPT ![i] = @ + 1]
          /\ UNCHANGED codes
  /\ scan' = [scan EXCEPT ![s].op = "clock"]
  /\ UNCHANGED <<today, admin, rotating, crowded, clocked>>

(* The clock action; or a wrong PIN, a place outside the geofence, a       *)
(* statement that throws. *)
Clock(s) ==
  /\ scan[s].op = "clock"
  /\ clocked' = [clocked EXCEPT ![scan[s].code] = @ + 1]
  /\ scan' = [scan EXCEPT ![s] = Idle]
  /\ UNCHANGED <<today, codes, admin, rotating, crowded, uncounted>>

Refuse(s) ==
  /\ scan[s] # Idle
  /\ scan' = [scan EXCEPT ![s] = Idle]
  /\ UNCHANGED <<today, codes, admin, history>>

NextDay ==
  /\ today < LastDay
  /\ today' = today + 1
  /\ UNCHANGED <<codes, admin, scan, history>>

Next ==
  \/ \E a \in Staff :
       \/ GenerateRevoke(a) \/ GenerateCreate(a)
       \/ \E days \in StaticDays : GenerateStaticFind(a, days) \/ RegenerateExpiry(a, days)
       \/ GenerateStaticCreate(a) \/ RegenerateRevoke(a) \/ RegenerateCreate(a)
       \/ Fail(a)
  \/ Revoke
  \/ \E s \in Scans :
       \/ \E i \in Ids, route \in {"kiosk", "app"} : Validate(s, i, route)
       \/ Count(s) \/ Clock(s) \/ Refuse(s)
  \/ NextDay

Spec == Init /\ [][Next]_vars
-----------------------------------------------------------------------------
Lasts(i) == codes[i].expiresAt = Never \/ codes[i].expiresAt > today + 1

(* Whatever is generated, shown, replaced and revoked, at most one         *)
(* rotating code is active and at most one static code that counts as one, *)
(* unless two requests of admins overlapped: neither transaction sees the  *)
(* code of the other (qr.service.ts:43-55, 96-108, 173-188). In its last   *)
(* day a static code is taken for a rotating one.                          *)
OneOfEachKind == crowded \/
  /\ Cardinality(rotating \cap Active) <= 1
  /\ \A i, j \in Active : Lasts(i) /\ Lasts(j) => i = j

(* Every clocking by a code shows in its count, however revocations and    *)
(* days fall between the statements of a scan: only those of the kiosk are *)
(* missed whose code was revoked after it was validated                    *)
(* (attendance.service.ts:1069-1076, 1098-1101).                           *)
ClockingsCounted == \A i \in Ids : codes[i] # NoCode =>
  clocked[i] <= codes[i].scanCount + uncounted[i]
=============================================================================
