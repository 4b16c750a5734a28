------------------------------ MODULE Holidays ------------------------------
(***************************************************************************)
(* The holidays of one year: the national ones, synchronised from a list   *)
(* that is fetched or built in, and those of one organisation, made by its *)
(* admin or imported from the national ones (holiday.service.ts,           *)
(* routes/holidays.ts, routes/masterHolidays.ts).                          *)
(*                                                                         *)
(* Each loop reads and writes one holiday at a time. The unique index      *)
(* covers the organisation's rows only: in PostgreSQL the NULL of a        *)
(* national row equals no other.                                           *)
(***************************************************************************)
EXTENDS NepaliDate

CONSTANTS
  Requests,   \* the handlers in progress
  Year,       \* the year, in the Bikram Sambat
  Published,  \* what Calendarific has for its two years: a sequence of [date, name]
  Fallback,   \* what getBuiltInHolidays has for it: a sequence of [bs, date, name]
  Entered,    \* the holidays that people enter: a set of [bs, date, name]
  HolidayTypes, \* the types they give them
  WorkingDays, \* the weekdays that the organisation works on
  MaxRows     \* bound on the rows created

NoRow == [bs |-> OutOfRange]
Deleted == [bs |-> OutOfRange, own |-> TRUE]
Ids == 1..MaxRows
MasterTypes == HolidayTypes \cap {"PUBLIC_HOLIDAY", "RESTRICTED_HOLIDAY"}

VARIABLES
  rows,       \* id, in the order of creation -> holidays row, NoRow or Deleted
  request,    \* handler -> what it is in the middle of
  unchecked,  \* history: the dates that a super admin has entered without a check
  contested,  \* history: the dates found free by two handlers at once
  imported    \* history: the master holidays, by date and name, of imports that succeeded

vars == <<rows, request, unchecked, contested, imported>>

Idle == [op |-> "idle"]
Present == {i \in Ids : rows[i] \notin {NoRow, Deleted}}
National == {i \in Present : ~rows[i].own}
Own == {i \in Present : rows[i].own}
Key(h) == <<h.bs, h.name>>

TypeOK ==
  /\ \A i \in Present : rows[i].type \in HolidayTypes \cup {"PUBLIC_HOLIDAY"} /\ rows[i].active \in BOOLEAN
  /\ \A r \in Requests :
       request[r].op \in {"idle", "sync", "national", "import", "copy"}

Init ==
  /\ rows = [i \in Ids |-> NoRow]
  /\ request = [r \in Requests |-> Idle]
  /\ unchecked = {} /\ contested = {} /\ imported = {}

(***************************************************************************)
(* A row is inserted; the index refuses a second one of the organisation   *)
(* for a date.                                                             *)
(***************************************************************************)
Row(h, own, type) ==
  [bs |-> h.bs, date |-> h.date, name |-> h.name, type |-> type, own |-> own, active |-> TRUE]

Taken(h) == \E i \in Own : rows[i].bs = h.bs

Insert(row) == \E i \in Ids :
  /\ rows[i] = NoRow /\ \A j \in 1..(i - 1) : rows[j] # NoRow
  /\ rows' = [rows EXCEPT ![i] = row]

Becomes(r, state) == request' = [request EXCEPT ![r] = state]

(* createHoliday: the role decides whether the row is national. *)
CreateHoliday(h, type) ==
  /\ ~Taken(h)
  /\ Insert(Row(h, TRUE, type))
  /\ UNCHANGED <<request, unchecked, contested, imported>>

CreateAsSuperAdmin(h, type) ==
  /\ Insert(Row(h, FALSE, type))
  /\ unchecked' = unchecked \cup {h.bs}
  /\ UNCHANGED <<request, contested, imported>>

(***************************************************************************)
(* The synchronisation, by a super admin or the admin of any organisation. *)
(***************************************************************************)
(* A fetched date is a midnight of Greenwich, the ends of the year are     *)
(* local midnights: in the East the last day is already past its end.      *)
InYear(h) ==
  /\ h.date >= BsToAD(BSDate(Year, 1, 1))
  /\ IsoDay(BsToAD(BSDate(Year, 12, 30))) >= h.date
Fetched == LET list == SelectSeq(Published, InYear) IN
  [i \in 1..Len(list) |->
    [bs |-> AdToBS(list[i].date), date |-> list[i].date, name |-> list[i].name]]

SyncStart(r) ==
  /\ request[r] = Idle
  /\ Becomes(r, [op |-> "sync", todo |-> Fetched, source |-> "api"])
  /\ UNCHANGED <<rows, unchecked, contested, imported>>

Found(h) == \E i \in National : rows[i].bs = h.bs

(* Another handler has found the date free, and is about to fill it. *)
Contests(h) == contested' =
  IF \E s \in Requests : request[s].op = "national" /\ request[s].row.bs = h.bs
  THEN contested \cup {h.bs} ELSE contested

SyncFind(r) ==
  /\ request[r].op = "sync" /\ request[r].todo # << >>
  /\ LET h == Head(request[r].todo)
         rest == [request[r] EXCEPT !.todo = Tail(@)]
     IN IF Found(h)
        THEN Becomes(r, rest) /\ UNCHANGED contested
        ELSE /\ Becomes(r, [op |-> "national", row |-> Row(h, FALSE, "PUBLIC_HOLIDAY"),
                            then |-> rest])
             /\ Contests(h)
  /\ UNCHANGED <<rows, unchecked, imported>>

(* The key is missing, the service or a statement fails: the list built in *)
(* is gone through, and what was written stays.                            *)
SyncFails(r) ==
  /\ request[r].op \in {"sync", "national"}
  /\ LET sync == IF request[r].op = "sync" THEN request[r] ELSE request[r].then IN
     IF sync # Idle /\ sync.source = "api" /\ Fallback # << >>
     THEN Becomes(r, [op |-> "sync", todo |-> Fallback, source |-> "built-in"])
     ELSE Becomes(r, Idle)
  /\ UNCHANGED <<rows, unchecked, contested, imported>>

SyncEnd(r) ==
  /\ request[r].op = "sync" /\ request[r].todo = << >>
  /\ Becomes(r, Idle)
  /\ UNCHANGED <<rows, unchecked, contested, imported>>

(* A super admin enters a master holiday: found, then created. *)
MasterFind(r, h, type) ==
  /\ request[r] = Idle
  /\ ~Found(h)
  /\ Becomes(r, [op |-> "national", row |-> Row(h, FALSE, type), then |-> Idle])
  /\ Contests(h)
  /\ UNCHANGED <<rows, unchecked, imported>>

CreateNational(r) ==
  /\ request[r].op = "national"
  /\ Insert(request[r].row)
  /\ Becomes(r, request[r].then)
  /\ UNCHANGED <<unchecked, contested, imported>>

(***************************************************************************)
(* The import: the active master holidays are read, then copied one by one *)
(* in no set order.                                                        *)
(***************************************************************************)
ImportStart(r) ==
  /\ request[r] = Idle
  /\ LET masters == {rows[i] : i \in {j \in National : rows[j].active}} IN
     /\ masters # {}
     /\ Becomes(r, [op |-> "import", todo |-> masters, list |-> masters, lost |-> {}])
  /\ UNCHANGED <<rows, unchecked, contested, imported>>

(* A mistaken form: any holiday of the organisation on the date will do. *)
CopiedByDate(h) == \E i \in Own : rows[i].bs = h.bs

Copied(h) == \E i \in Own : Key(rows[i]) = Key(h)

ImportFind(r) ==
  /\ request[r].op = "import"
  /\ \E h \in request[r].todo :
       LET rest == request[r].todo \ {h} IN
       Becomes(r, IF Copied(h) THEN [request[r] EXCEPT !.todo = rest]
                  ELSE [op |-> "copy", todo |-> rest, list |-> request[r].list,
                        lost |-> request[r].lost, row |-> h])
  /\ UNCHANGED <<rows, unchecked, contested, imported>>

ImportCopy(r) ==
  /\ request[r].op = "copy"
  /\ ~Taken(request[r].row)
  /\ Insert([request[r].row EXCEPT !.own = TRUE])
  /\ Becomes(r, [op |-> "import", todo |-> request[r].todo, list |-> request[r].list,
                 lost |-> request[r].lost])
  /\ UNCHANGED <<unchecked, contested, imported>>

(* A statement fails, or the index refuses the copy since the organisation *)
(* has another holiday, or an override, on the date. What was copied stays.*)
ImportFails(r) ==
  /\ request[r].op \in {"import", "copy"}
  /\ Becomes(r, Idle)
  /\ UNCHANGED <<rows, unchecked, contested, imported>>

ImportEnd(r) ==
  /\ request[r].op = "import" /\ request[r].todo = {}
  /\ Becomes(r, Idle)
  /\ imported' = imported \cup ({Key(h) : h \in request[r].list} \ request[r].lost)
  /\ UNCHANGED <<rows, unchecked, contested>>

(***************************************************************************)
(* A holiday is switched on or off, or deleted; the check of whose it is   *)
(* reads nothing that changes.                                             *)
(***************************************************************************)
UpdateHoliday(i) ==
  /\ i \in Present
  /\ rows' = [rows EXCEPT ![i].active = ~@]
  /\ UNCHANGED <<request, unchecked, contested, imported>>

DeleteHoliday(i) ==
  /\ i \in Present
  /\ rows' = [rows EXCEPT ![i] = Deleted]
  /\ IF rows[i].own
     THEN /\ imported' = imported \ {Key(rows[i])}
          /\ request' = [r \in Requests |->
               IF request[r].op \in {"import", "copy"}
               THEN [request[r] EXCEPT !.lost = @ \cup {Key(rows[i])}] ELSE request[r]]
     ELSE UNCHANGED <<imported, request>>
  /\ UNCHANGED <<unchecked, contested>>

Sync(r) == SyncStart(r) \/ SyncFind(r) \/ SyncFails(r) \/ SyncEnd(r) \/ CreateNational(r)
Import(r) ==
  ImportStart(r) \/ ImportFind(r) \/ ImportCopy(r) \/ ImportFails(r) \/ ImportEnd(r)

Next ==
  \/ \E r \in Requests :
       \/ Sync(r) \/ Import(r)
       \/ \E h \in Entered, type \in MasterTypes :
            MasterFind(r, h, type)
  \/ \E h \in Entered, type \in HolidayTypes : CreateHoliday(h, type) \/ CreateAsSuperAdmin(h, type)
  \/ \E i \in Ids : UpdateHoliday(i) \/ DeleteHoliday(i)

Spec == Init /\ [][Next]_vars
-----------------------------------------------------------------------------
(* What payroll asks: the Gregorian days of a month that are off.          *)
OfMonth(ids, types, month) ==
  {i \in ids : rows[i].active /\ rows[i].bs.month = month /\ rows[i].type \in types}
HolidayDatesForMonth(month) ==
  LET overrides == OfMonth(Own, {"WORKING_DAY_OVERRIDE"}, month) IN
  {rows[i].date : i \in OfMonth(Present, {"PUBLIC_HOLIDAY", "ORGANIZATION_HOLIDAY"}, month)}
  \ {rows[i].date : i \in overrides}

(* A date has one national holiday, unless two handlers found it free at   *)
(* once or a super admin used the organisations' form: no index keeps the  *)
(* second out (holiday.service.ts:176-182, masterHolidays.ts:137-155).     *)
OneNationalPerDate == \A i, j \in National :
  rows[i].bs = rows[j].bs /\ rows[i].bs \notin unchecked \cup contested => i = j

(* After an import that succeeded the organisation has a copy of every     *)
(* master holiday that was active, unless it has deleted it since          *)
(* (routes/holidays.ts:106-147).                                           *)
ImportComplete == \A key \in imported : \E i \in Own : Key(rows[i]) = key

HolidaysKept == OneNationalPerDate /\ ImportComplete

(* Nobody works on a holiday: the working days of a month that payroll     *)
(* counts leave it out (nepali-date.ts:228-261).                           *)
HolidaysNotWorked == \A month \in Months :
  LET off == HolidayDatesForMonth(month) IN
  EffectiveWorkingDays(Year, month, off, WorkingDays) \cap off = {}
=============================================================================
