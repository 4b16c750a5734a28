----------------------------- MODULE PartsProofs -----------------------------
(***************************************************************************)
(* Proofs about the parts that share no state with the others: of each, an *)
(* inductive invariant of its own specification, for every value of the    *)
(* constants, and from it the property of the specification of all parts.  *)
(***************************************************************************)
EXTENDS Parts, AttendanceProofs, FiniteSums, Sequences, FiniteSetTheorems,
        SequenceTheorems, TLAPS

-----------------------------------------------------------------------------
(* The members, for any set of people, handlers and roles, any cap and any *)
(* number of calls.                                                        *)

UserOps == {"create", "add", "reactivate", "update", "remove"}
RowOps == {"reactivate", "update", "remove"}
SyncOps == {"sync", "store", "pin"}

(* A handler writes to a row that is there, and returns one member at most.*)
KnownIn(w, rows) ==
  /\ w.op \in RowOps => rows[w.user] # None
  /\ w.op \in SyncOps => \A u, v \in w.returned : u = v /\ rows[u] # None
Known(w) == KnownIn(w, member)

HandlersKnow == \A h \in Handlers : Known(handler[h])

MembersTypeInv == MembersTypeOK /\ HandlersKnow

LEMMA HandlerFields ==
  ASSUME NEW w \in HandlerStates
  PROVE  /\ w.op \in {"idle"} \cup UserOps \cup SyncOps
         /\ w.op \in UserOps => w.user \in Users
         /\ w.op \in {"create", "add", "reactivate"} => w.role \in MemberRoles
         /\ w.op = "update" => /\ w.role \in MemberRoles \cup {"same"}
                               /\ w.isActive \in Switches /\ w.was \in BOOLEAN
         /\ w.op \in SyncOps => w.returned \in SUBSET Users
         /\ w.op = "store" => w.value \in Nat
         /\ w.op = "idle" => w = IdleHandler
  BY DEF HandlerStates, IdleHandler, UserOps, SyncOps

LEMMA NoneIsNoRow == None \notin Membership
  BY DEF None, Membership

LEMMA MemberFields ==
  ASSUME MembersTypeOK, NEW u \in Users, member[u] # None
  PROVE  /\ member[u] \in Membership
         /\ member[u].role \in MemberRoles /\ member[u].isActive \in BOOLEAN
         /\ member[u].left \in BOOLEAN /\ member[u].pin \in {"new", "old", "kept"}
  BY DEF MembersTypeOK, Membership

LEMMA IdleKnown == IdleHandler \in HandlerStates /\ Known(IdleHandler)
  BY DEF IdleHandler, HandlerStates, Known, KnownIn, RowOps, SyncOps

LEMMA MembersTypeInvInit == MembersInit => MembersTypeInv
  <1> SUFFICES ASSUME MembersInit PROVE MembersTypeInv
    OBVIOUS
  <1>1. member \in [Users -> Membership \cup {None}]
    BY MembershipAssumption DEF MembersInit, Membership
  <1>2. handler \in [Handlers -> HandlerStates] /\ HandlersKnow
    BY IdleKnown DEF MembersInit, HandlersKnow
  <1>3. employeeCount \in Nat /\ calls \in 0..MaxCalls
    BY MembershipAssumption DEF MembersInit
  <1>4. {drift, contested, overbooked} \subseteq BOOLEAN
    BY DEF MembersInit
  <1>. QED
    BY <1>1, <1>2, <1>3, <1>4 DEF MembersTypeInv, MembersTypeOK

(* One handler moves, the rows that are there stay.                        *)
LEMMA HandlerMoves ==
  ASSUME MembersTypeInv, NEW h \in Handlers, NEW w \in HandlerStates,
         handler' = [handler EXCEPT ![h] = w], KnownIn(w, member'),
         \A u \in Users : member[u] # None => member'[u] # None
  PROVE  /\ handler' \in [Handlers -> HandlerStates] /\ HandlersKnow'
         /\ handler'[h] = w /\ \A g \in Handlers \ {h} : handler'[g] = handler[g]
  <1>1. /\ handler' \in [Handlers -> HandlerStates]
        /\ handler'[h] = w /\ \A g \in Handlers \ {h} : handler'[g] = handler[g]
    BY DEF MembersTypeInv, MembersTypeOK
  <1>2. ASSUME NEW g \in Handlers \ {h} PROVE KnownIn(handler'[g], member')
    <2>1. handler[g] \in HandlerStates /\ Known(handler[g]) /\ handler'[g] = handler[g]
      BY <1>1 DEF MembersTypeInv, MembersTypeOK, HandlersKnow
    <2>2. /\ handler[g].op \in RowOps => handler[g].user \in Users
          /\ handler[g].op \in SyncOps => handler[g].returned \in SUBSET Users
      BY <2>1, HandlerFields DEF RowOps, UserOps
    <2>. QED
      BY <2>1, <2>2 DEF Known, KnownIn
  <1>3. KnownIn(handler'[h], member')
    BY <1>1 DEF Known, KnownIn
  <1>. QED
    BY <1>1, <1>2, <1>3 DEF HandlersKnow, Known

(* A row is written, for a member there is or for a new one.               *)
LEMMA RowWritten ==
  ASSUME MembersTypeOK, NEW u \in Users, NEW row \in Membership, Put(u, row)
  PROVE  /\ member' \in [Users -> Membership \cup {None}]
         /\ member'[u] = row /\ \A v \in Users \ {u} : member'[v] = member[v]
         /\ \A v \in Users : member[v] # None => member'[v] # None
  BY NoneIsNoRow DEF MembersTypeOK, Put

LEMMA UpdatedType ==
  ASSUME NEW row \in Membership, NEW form \in HandlerStates, form.op = "update"
  PROVE  /\ Updated(row, form) \in Membership
         /\ Updated(row, form).left = row.left /\ Updated(row, form).pin = row.pin
         /\ Updated(row, form).role = IF form.role = "same" THEN row.role ELSE form.role
         /\ Updated(row, form).isActive = IF form.isActive = "same" THEN row.isActive
                                          ELSE form.isActive = "on"
  <1>1. form.role \in MemberRoles \cup {"same"} /\ form.isActive \in Switches
    BY HandlerFields
  <1>. QED
    BY <1>1 DEF Updated, Membership

(* No handler moves, the rows that are there stay.                         *)
LEMMA HandlersStay ==
  ASSUME MembersTypeInv, handler' = handler,
         \A u \in Users : member[u] # None => member'[u] # None
  PROVE  handler' \in [Handlers -> HandlerStates] /\ HandlersKnow'
  <1>1. ASSUME NEW g \in Handlers PROVE KnownIn(handler'[g], member')
    <2>1. handler[g] \in HandlerStates /\ Known(handler[g])
      BY DEF MembersTypeInv, MembersTypeOK, HandlersKnow
    <2>2. /\ handler[g].op \in RowOps => handler[g].user \in Users
          /\ handler[g].op \in SyncOps => handler[g].returned \in SUBSET Users
      BY <2>1, HandlerFields DEF RowOps, UserOps
    <2>. QED
      BY <2>1, <2>2 DEF Known, KnownIn
  <1>. QED
    BY <1>1 DEF HandlersKnow, Known, MembersTypeInv, MembersTypeOK

LEMMA StartTypes ==
  ASSUME MembersTypeOK, NEW h \in Handlers, NEW w, Start(h, w)
  PROVE  /\ handler' = [handler EXCEPT ![h] = w] /\ handler[h] = IdleHandler
         /\ calls' \in 0..MaxCalls
  BY MembershipAssumption DEF Start, MembersTypeOK

LEMMA BecomeTypes ==
  ASSUME MembersTypeOK, NEW h \in Handlers, NEW w, Become(h, w)
  PROVE  handler' = [handler EXCEPT ![h] = w] /\ calls' \in 0..MaxCalls
  BY DEF Become, MembersTypeOK

(* A check only starts its handler.                                        *)
LEMMA ChecksKeepTypes ==
  ASSUME MembersTypeInv, NEW h \in Handlers, NEW w \in HandlerStates,
         Start(h, w), Known(w), member' = member, employeeCount' = employeeCount
  PROVE  /\ member' \in [Users -> Membership \cup {None}] /\ employeeCount' \in Nat
         /\ handler' \in [Handlers -> HandlerStates] /\ HandlersKnow'
         /\ calls' \in 0..MaxCalls
  <1>1. handler' = [handler EXCEPT ![h] = w] /\ calls' \in 0..MaxCalls
    BY StartTypes DEF MembersTypeInv
  <1>2. KnownIn(w, member')
    BY DEF Known, KnownIn
  <1>. QED
    BY <1>1, <1>2, HandlerMoves DEF MembersTypeInv, MembersTypeOK

LEMMA WritesKeepTypes ==
  ASSUME MembersTypeInv, NEW h \in Handlers, NEW w \in HandlerStates, Become(h, w), KnownIn(w, member'),
         NEW u \in Users, NEW row \in Membership, Put(u, row), employeeCount' = employeeCount
  PROVE  /\ member' \in [Users -> Membership \cup {None}] /\ employeeCount' \in Nat
         /\ handler' \in [Handlers -> HandlerStates] /\ HandlersKnow'
         /\ calls' \in 0..MaxCalls
  <1>1. handler' = [handler EXCEPT ![h] = w] /\ calls' \in 0..MaxCalls
    BY BecomeTypes DEF MembersTypeInv
  <1>2. /\ member' \in [Users -> Membership \cup {None}]
        /\ \A v \in Users : member[v] # None => member'[v] # None
    BY RowWritten DEF MembersTypeInv
  <1>. QED
    BY <1>1, <1>2, HandlerMoves DEF MembersTypeInv, MembersTypeOK

LEMMA SyncsKeepTypes ==
  ASSUME MembersTypeInv, NEW h \in Handlers, NEW w \in HandlerStates, Become(h, w), Known(w),
         member' = member, employeeCount' \in Nat
  PROVE  /\ member' \in [Users -> Membership \cup {None}] /\ employeeCount' \in Nat
         /\ handler' \in [Handlers -> HandlerStates] /\ HandlersKnow'
         /\ calls' \in 0..MaxCalls
  <1>1. handler' = [handler EXCEPT ![h] = w] /\ calls' \in 0..MaxCalls
    BY BecomeTypes DEF MembersTypeInv
  <1>2. KnownIn(w, member')
    BY DEF Known, KnownIn
  <1>. QED
    BY <1>1, <1>2, HandlerMoves DEF MembersTypeInv, MembersTypeOK

LEMMA SyncedType ==
  ASSUME MembersTypeInv, NEW h \in Handlers, handler[h].op \in SyncOps
  PROVE  Synced(h) \in HandlerStates /\ Known(Synced(h))
  <1>1. handler[h].returned \in SUBSET Users /\ Known(handler[h])
    BY HandlerFields DEF MembersTypeInv, MembersTypeOK, HandlersKnow
  <1>2. CASE handler[h].returned = {}
    BY <1>2, IdleKnown DEF Synced
  <1>3. CASE handler[h].returned # {}
    <2>1. Synced(h) = [op |-> "pin", returned |-> handler[h].returned]
      BY <1>3 DEF Synced
    <2>. QED
      BY <1>1, <2>1 DEF HandlerStates, Known, KnownIn, RowOps, SyncOps
  <1>. QED
    BY <1>2, <1>3

(* The flags of the history stay Boolean.                                  *)
LEMMA FlagsNext ==
  ASSUME MembersTypeOK, [MembersNext]_memberVars PROVE ({drift, contested, overbooked} \subseteq BOOLEAN)'
  <1>1. drift \in BOOLEAN /\ contested \in BOOLEAN /\ overbooked \in BOOLEAN
    BY DEF MembersTypeOK
  <1>2. drift' \in BOOLEAN
    BY <1>1, Zenon DEF MembersNext, memberVars, CreateCheck, AddCheck, Insert, Reactivate, ReactivatePin,
       ResetAttendancePin, UpdateCheck, UpdateWrite, RemoveCheck, RemoveWrite, SyncCount,
       SyncStore, SyncFail, Fail
  <1>3. contested' \in BOOLEAN
    BY <1>1, Zenon DEF MembersNext, memberVars, CreateCheck, AddCheck, Insert, Reactivate, ReactivatePin,
       ResetAttendancePin, UpdateCheck, UpdateWrite, RemoveCheck, RemoveWrite, SyncCount,
       SyncStore, SyncFail, Fail
  <1>4. overbooked' \in BOOLEAN
    BY <1>1, Zenon DEF MembersNext, memberVars, CreateCheck, AddCheck, Insert, Reactivate, ReactivatePin,
       ResetAttendancePin, UpdateCheck, UpdateWrite, RemoveCheck, RemoveWrite, SyncCount,
       SyncStore, SyncFail, Fail
  <1>. QED
    BY <1>2, <1>3, <1>4

LEMMA TypesNext ==
  ASSUME MembersTypeInv, [MembersNext]_memberVars
  PROVE  /\ member' \in [Users -> Membership \cup {None}] /\ employeeCount' \in Nat
         /\ handler' \in [Handlers -> HandlerStates] /\ HandlersKnow'
         /\ calls' \in 0..MaxCalls
  <1>. DEFINE Goal ==
         /\ member' \in [Users -> Membership \cup {None}] /\ employeeCount' \in Nat
         /\ handler' \in [Handlers -> HandlerStates] /\ HandlersKnow'
         /\ calls' \in 0..MaxCalls
  <1>. SUFFICES Goal
    OBVIOUS
  <1>0. /\ MembersTypeOK /\ HandlersKnow /\ employeeCount \in Nat /\ calls \in 0..MaxCalls
        /\ member \in [Users -> Membership \cup {None}]
    BY DEF MembersTypeInv, MembersTypeOK
  <1>1. ASSUME UNCHANGED memberVars PROVE Goal
    BY <1>0, <1>1, HandlersStay DEF memberVars
  <1>2. ASSUME NEW h \in Handlers, NEW u \in Users, NEW role \in MemberRoles, CreateCheck(h, u, role)
        PROVE  Goal
    <2>. DEFINE w == [op |-> "create", user |-> u, role |-> role]
    <2>1. w \in HandlerStates /\ Known(w)
      BY DEF HandlerStates, Known, KnownIn, RowOps, SyncOps
    <2>. QED
      BY <1>2, <2>1, ChecksKeepTypes DEF CreateCheck
  <1>3. ASSUME NEW h \in Handlers, NEW u \in Users, NEW role \in MemberRoles, AddCheck(h, u, role)
        PROVE  Goal
    <2>. DEFINE w == [op |-> IF member[u] = None THEN "add" ELSE "reactivate",
                      user |-> u, role |-> role]
    <2>1. w \in HandlerStates /\ Known(w)
      BY DEF HandlerStates, Known, KnownIn, RowOps, SyncOps
    <2>. QED
      BY <1>3, <2>1, ChecksKeepTypes DEF AddCheck
  <1>4. ASSUME NEW h \in Handlers, NEW u \in Users, NEW role \in MemberRoles \cup {"same"},
               NEW switch \in Switches, UpdateCheck(h, u, role, switch)
        PROVE  Goal
    <2>. DEFINE w == [op |-> "update", user |-> u, role |-> role, isActive |-> switch,
                      was |-> member[u].isActive]
    <2>1. w \in HandlerStates /\ Known(w)
      BY <1>0, <1>4, MemberFields DEF UpdateCheck, HandlerStates, Known, KnownIn, RowOps, SyncOps
    <2>. QED
      BY <1>4, <2>1, ChecksKeepTypes DEF UpdateCheck
  <1>5. ASSUME NEW h \in Handlers, NEW u \in Users, RemoveCheck(h, u) PROVE Goal
    <2>. DEFINE w == [op |-> "remove", user |-> u]
    <2>1. w \in HandlerStates /\ Known(w)
      BY <1>5 DEF RemoveCheck, HandlerStates, Known, KnownIn, RowOps, SyncOps
    <2>. QED
      BY <1>5, <2>1, ChecksKeepTypes DEF RemoveCheck
  <1>6. ASSUME NEW h \in Handlers, handler[h].op \in UserOps
        PROVE  /\ handler[h].user \in Users /\ handler[h] \in HandlerStates
               /\ handler[h].op \in {"create", "add", "reactivate"} => handler[h].role \in MemberRoles
               /\ handler[h].op \in RowOps => /\ member[handler[h].user] # None
                                              /\ member[handler[h].user] \in Membership
    BY <1>0, <1>6, HandlerFields, MemberFields DEF MembersTypeOK, HandlersKnow, Known, KnownIn
  <1>7. ASSUME NEW h \in Handlers, Insert(h) PROVE Goal
    <2>. DEFINE w == [op |-> "sync", returned |-> {}]
                row == [role |-> handler[h].role, isActive |-> TRUE, left |-> FALSE, pin |-> "new"]
    <2>1. w \in HandlerStates /\ KnownIn(w, member')
      BY DEF HandlerStates, Known, KnownIn, RowOps, SyncOps
    <2>2. handler[h].user \in Users /\ row \in Membership
      BY <1>6, <1>7 DEF Insert, UserOps, Membership
    <2>. QED
      BY <1>7, <2>1, <2>2, WritesKeepTypes DEF Insert
  <1>8. ASSUME NEW h \in Handlers, Reactivate(h) PROVE Goal
    <2>. DEFINE u == handler[h].user
                w == [op |-> "sync", returned |-> {u}]
                row == [role |-> handler[h].role, isActive |-> TRUE, left |-> FALSE,
                        pin |-> member[u].pin]
    <2>1. u \in Users /\ row \in Membership
      BY <1>0, <1>6, <1>8, MemberFields DEF Reactivate, UserOps, RowOps, Membership
    <2>2. Put(u, row)
      BY <1>8 DEF Reactivate
    <2>3. member'[u] # None
      BY <1>0, <2>1, <2>2, RowWritten, NoneIsNoRow
    <2>4. w \in HandlerStates /\ KnownIn(w, member')
      BY <2>1, <2>3 DEF HandlerStates, Known, KnownIn, RowOps, SyncOps
    <2>. HIDE DEF w, row, u
    <2>5. Become(h, w) /\ employeeCount' = employeeCount
      BY <1>8 DEF Reactivate, w, u
    <2>. QED
      BY <2>1, <2>2, <2>4, <2>5, WritesKeepTypes
  <1>9. ASSUME NEW u \in Users, member[u] # None, NewPin(u)
        PROVE  /\ Put(u, [member[u] EXCEPT !.pin = "new"])
               /\ [member[u] EXCEPT !.pin = "new"] \in Membership
    BY <1>0, <1>9, MemberFields DEF NewPin, Membership
  <1>10. ASSUME NEW h \in Handlers, ReactivatePin(h) PROVE Goal
    <2>1. PICK u \in handler[h].returned : NewPin(u)
      BY <1>10 DEF ReactivatePin
    <2>2. u \in Users /\ member[u] # None
      BY <1>0, <1>10, HandlerFields DEF ReactivatePin, MembersTypeOK, HandlersKnow, Known, KnownIn, SyncOps
    <2>3. Become(h, IdleHandler) /\ employeeCount' = employeeCount
      BY <1>10 DEF ReactivatePin
    <2>4. IdleHandler \in HandlerStates /\ KnownIn(IdleHandler, member')
      BY DEF IdleHandler, HandlerStates, Known, KnownIn, RowOps, SyncOps
    <2>. QED
      BY <1>9, <2>1, <2>2, <2>3, <2>4, WritesKeepTypes
  <1>11. ASSUME NEW u \in Users, ResetAttendancePin(u) PROVE Goal
    <2>1. /\ handler' = handler /\ member' \in [Users -> Membership \cup {None}]
          /\ \A v \in Users : member[v] # None => member'[v] # None
      BY <1>0, <1>9, <1>11, RowWritten DEF ResetAttendancePin
    <2>. QED
      BY <1>0, <1>11, <2>1, HandlersStay DEF ResetAttendancePin
  <1>12. ASSUME NEW h \in Handlers, UpdateWrite(h) PROVE Goal
    <2>. DEFINE u == handler[h].user
                w == IF Switched(handler[h]) THEN [op |-> "sync", returned |-> {}] ELSE IdleHandler
                row == Updated(member[u], handler[h])
    <2>1. u \in Users /\ row \in Membership
      BY <1>6, <1>12, UpdatedType DEF UpdateWrite, UserOps, RowOps
    <2>2. w \in HandlerStates /\ KnownIn(w, member')
      BY DEF IdleHandler, HandlerStates, Known, KnownIn, RowOps, SyncOps
    <2>. HIDE DEF w, row
    <2>3. Become(h, w) /\ Put(u, row) /\ employeeCount' = employeeCount
      BY <1>12 DEF UpdateWrite, w, row
    <2>. QED
      BY <2>1, <2>2, <2>3, WritesKeepTypes
  <1>13. ASSUME NEW h \in Handlers, RemoveWrite(h) PROVE Goal
    <2>. DEFINE u == handler[h].user
                w == [op |-> "sync", returned |-> {}]
                row == [member[u] EXCEPT !.isActive = FALSE, !.left = TRUE, !.pin = "old"]
    <2>1. u \in Users /\ row \in Membership
      BY <1>0, <1>6, <1>13, MemberFields DEF RemoveWrite, UserOps, RowOps, Membership
    <2>2. w \in HandlerStates /\ KnownIn(w, member')
      BY DEF HandlerStates, Known, KnownIn, RowOps, SyncOps
    <2>. QED
      BY <1>13, <2>1, <2>2, WritesKeepTypes DEF RemoveWrite
  <1>14. ASSUME NEW h \in Handlers, SyncCount(h) PROVE Goal
    <2>. DEFINE w == [op |-> "store", returned |-> handler[h].returned,
                      value |-> Cardinality(Employees)]
    <2>1. IsFiniteSet(Employees) /\ Cardinality(Employees) \in Nat
      BY FS_Subset, FS_CardinalityType, MembershipAssumption DEF Employees
    <2>2. handler[h].returned \in SUBSET Users /\ Known(handler[h])
      BY <1>0, <1>14, HandlerFields DEF SyncCount, SyncOps, MembersTypeOK, HandlersKnow
    <2>3. w \in HandlerStates /\ Known(w)
      BY <1>14, <2>1, <2>2 DEF SyncCount, HandlerStates, Known, KnownIn, RowOps, SyncOps
    <2>. QED
      BY <1>0, <1>14, <2>3, SyncsKeepTypes DEF SyncCount
  <1>15. ASSUME NEW h \in Handlers, SyncStore(h) \/ SyncFail(h) PROVE Goal
    <2>1. /\ handler[h].op \in {"sync", "store"} /\ member' = member /\ Become(h, Synced(h))
          /\ employeeCount' \in {employeeCount, handler[h].value}
          /\ handler[h].op = "sync" => employeeCount' = employeeCount
      BY <1>15 DEF SyncStore, SyncFail, Syncing
    <2>2. employeeCount' \in Nat
      BY <1>0, <2>1, HandlerFields DEF MembersTypeOK
    <2>3. Synced(h) \in HandlerStates /\ Known(Synced(h))
      BY <2>1, SyncedType DEF SyncOps
    <2>. QED
      BY <2>1, <2>2, <2>3, SyncsKeepTypes
  <1>16. ASSUME NEW h \in Handlers, Fail(h) PROVE Goal
    <2>1. ASSUME NEW u \in Users
          PROVE  /\ member'[u] \in Membership \cup {None}
                 /\ member[u] # None => member'[u] # None
      <3>1. member'[u] = IF handler[h].op = "pin" /\ u \in handler[h].returned
                             /\ member[u].pin = "old"
                         THEN [member[u] EXCEPT !.pin = "kept"] ELSE member[u]
        BY <1>16 DEF Fail
      <3>2. handler[h].op = "pin" /\ u \in handler[h].returned => member[u] # None
        BY <1>0 DEF HandlersKnow, Known, KnownIn, SyncOps
      <3>3. CASE member[u] = None
        BY <1>0, <3>1, <3>2, <3>3
      <3>4. CASE member[u] # None
        <4>1. member[u] \in Membership /\ [member[u] EXCEPT !.pin = "kept"] \in Membership
          BY <1>0, <3>4, MemberFields DEF Membership
        <4>. QED
          BY <3>1, <4>1, NoneIsNoRow
      <3>. QED
        BY <3>3, <3>4
    <2>2. member' \in [Users -> Membership \cup {None}]
      <3>1. member' = [u \in Users |-> member'[u]]
        BY <1>16 DEF Fail
      <3>. QED
        BY <2>1, <3>1
    <2>3. /\ handler' = [handler EXCEPT ![h] = IdleHandler] /\ calls' \in 0..MaxCalls
          /\ employeeCount' = employeeCount
      BY <1>0, <1>16, BecomeTypes DEF Fail
    <2>4. IdleHandler \in HandlerStates /\ KnownIn(IdleHandler, member')
      BY DEF IdleHandler, HandlerStates, Known, KnownIn, RowOps, SyncOps
    <2>. QED
      BY <1>0, <2>1, <2>2, <2>3, <2>4, HandlerMoves
  <1>. QED
    BY <1>1, <1>2, <1>3, <1>4, <1>5, <1>7, <1>8, <1>10, <1>11, <1>12, <1>13, <1>14, <1>15, <1>16
    DEF MembersNext

LEMMA MembersTypeInvAlways == MembersSpec => []MembersTypeInv
  <1>1. MembersTypeInv /\ [MembersNext]_memberVars => MembersTypeInv'
    BY TypesNext, FlagsNext DEF MembersTypeInv, MembersTypeOK
  <1>. QED
    BY <1>1, MembersTypeInvInit, PTL DEF MembersSpec

(* Every state the organisation can get to is well typed. *)
THEOREM MembershipTypeOK == MembersSpec => []MembersTypeOK
  <1>1. MembersTypeInv => MembersTypeOK
    BY DEF MembersTypeInv
  <1>. QED
    BY <1>1, MembersTypeInvAlways, PTL

-----------------------------------------------------------------------------
(* How a step changes who is an admin and who an employee.                 *)
LEMMA Moves ==
  ASSUME MembersTypeOK, NEW h \in Handlers, NEW w, handler' = [handler EXCEPT ![h] = w]
  PROVE  handler'[h] = w /\ \A g \in Handlers \ {h} : handler'[g] = handler[g]
  BY DEF MembersTypeOK

LEMMA PutSets ==
  ASSUME MembersTypeOK, NEW u \in Users, NEW row \in Membership, Put(u, row)
  PROVE  /\ Admins' \ {u} = Admins \ {u} /\ Employees' \ {u} = Employees \ {u}
         /\ u \in Admins' <=> row.isActive /\ ~row.left /\ row.role = "ORG_ADMIN"
         /\ u \in Employees' <=> row.isActive /\ ~row.left /\ row.role \in Counted
  <1>1. member'[u] = row /\ \A v \in Users \ {u} : member'[v] = member[v]
    BY RowWritten
  <1>. QED
    BY <1>1, NoneIsNoRow DEF Admins, Employees, Present

(* A PIN makes nobody an admin or an employee.                             *)
LEMMA SameSets ==
  ASSUME \A u \in Users :
           \/ member'[u] = member[u]
           \/ /\ member[u] # None /\ member'[u] # None
              /\ member'[u].role = member[u].role /\ member'[u].left = member[u].left
              /\ member'[u].isActive = member[u].isActive
  PROVE  Admins' = Admins /\ Employees' = Employees
  BY DEF Admins, Employees, Present

LEMMA PinSets ==
  ASSUME MembersTypeOK, NEW u \in Users, member[u] # None, NewPin(u)
  PROVE  /\ Admins' = Admins /\ Employees' = Employees
         /\ member'[u] = [member[u] EXCEPT !.pin = "new"]
         /\ \A v \in Users \ {u} : member'[v] = member[v]
  <1>1. /\ member[u] \in Membership /\ [member[u] EXCEPT !.pin = "new"] \in Membership
    BY MemberFields DEF Membership
  <1>2. /\ member'[u] = [member[u] EXCEPT !.pin = "new"]
        /\ \A v \in Users \ {u} : member'[v] = member[v]
    BY <1>1, RowWritten DEF NewPin
  <1>3. /\ member'[u] # None
        /\ member'[u].role = member[u].role /\ member'[u].left = member[u].left
        /\ member'[u].isActive = member[u].isActive
    BY <1>1, <1>2, NoneIsNoRow DEF Membership
  <1>. QED
    BY <1>2, <1>3, SameSets

LEMMA ReactivatePinSets ==
  ASSUME MembersTypeInv, NEW h \in Handlers, ReactivatePin(h)
  PROVE  /\ Admins' = Admins /\ Employees' = Employees
         /\ \E u \in Users : /\ handler[h].returned = {u} /\ member[u] # None
                             /\ member'[u] = [member[u] EXCEPT !.pin = "new"]
                             /\ \A v \in Users \ {u} : member'[v] = member[v]
  <1>1. PICK u \in handler[h].returned : NewPin(u)
    BY DEF ReactivatePin
  <1>2. u \in Users /\ member[u] # None /\ handler[h].returned = {u}
    BY HandlerFields DEF ReactivatePin, MembersTypeInv, MembersTypeOK, HandlersKnow, Known, KnownIn, SyncOps
  <1>. QED
    BY <1>1, <1>2, PinSets DEF MembersTypeInv

LEMMA FailSets ==
  ASSUME MembersTypeInv, NEW h \in Handlers, Fail(h)
  PROVE  /\ Admins' = Admins /\ Employees' = Employees
         /\ \A u \in Users :
              \/ member'[u] = member[u] /\ ~(handler[h].op = "pin" /\ u \in handler[h].returned
                                              /\ member[u].pin = "old")
              \/ /\ member[u] # None
                 /\ member'[u] = [member[u] EXCEPT !.pin = "kept"]
                 /\ member'[u].pin = "kept"
  <1>1. ASSUME NEW u \in Users
        PROVE  \/ member'[u] = member[u] /\ ~(handler[h].op = "pin" /\ u \in handler[h].returned
                                              /\ member[u].pin = "old")
               \/ /\ member[u] # None /\ member[u] \in Membership
                  /\ member'[u] = [member[u] EXCEPT !.pin = "kept"]
    <2>1. member'[u] = IF handler[h].op = "pin" /\ u \in handler[h].returned
                           /\ member[u].pin = "old"
                       THEN [member[u] EXCEPT !.pin = "kept"] ELSE member[u]
      BY DEF Fail
    <2>2. handler[h].op = "pin" /\ u \in handler[h].returned => member[u] # None
      BY DEF MembersTypeInv, HandlersKnow, Known, KnownIn, SyncOps
    <2>3. member[u] # None => member[u] \in Membership
      BY MemberFields DEF MembersTypeInv
    <2>. QED
      BY <2>1, <2>2, <2>3
  <1>2. ASSUME NEW row \in Membership
        PROVE  /\ [row EXCEPT !.pin = "kept"] # None
               /\ [row EXCEPT !.pin = "kept"].pin = "kept"
               /\ [row EXCEPT !.pin = "kept"].role = row.role
               /\ [row EXCEPT !.pin = "kept"].left = row.left
               /\ [row EXCEPT !.pin = "kept"].isActive = row.isActive
    <2>1. [row EXCEPT !.pin = "kept"] \in Membership
      BY DEF Membership
    <2>. QED
      BY <2>1, NoneIsNoRow DEF Membership
  <1>3. ASSUME NEW u \in Users
        PROVE  \/ member'[u] = member[u]
               \/ /\ member[u] # None /\ member'[u] # None /\ member'[u].pin = "kept"
                  /\ member'[u].role = member[u].role /\ member'[u].left = member[u].left
                  /\ member'[u].isActive = member[u].isActive
    BY <1>1, <1>2
  <1>4. Admins' = Admins /\ Employees' = Employees
    BY <1>3, SameSets
  <1>5. ASSUME NEW u \in Users, member'[u] = [member[u] EXCEPT !.pin = "kept"],
               member[u] \in Membership
        PROVE  member'[u].pin = "kept"
    BY <1>2, <1>5
  <1>. QED
    BY <1>1, <1>4, <1>5

(* What a handler that writes a row knows.                                 *)
LEMMA Writer ==
  ASSUME MembersTypeInv, NEW h \in Handlers, handler[h].op \in UserOps
  PROVE  /\ handler[h].user \in Users /\ handler[h] \in HandlerStates
         /\ handler[h].op \in {"create", "add", "reactivate"} => handler[h].role \in MemberRoles
         /\ handler[h].op \in RowOps => /\ member[handler[h].user] # None
                                        /\ member[handler[h].user] \in Membership
  BY HandlerFields, MemberFields DEF MembersTypeInv, MembersTypeOK, HandlersKnow, Known, KnownIn

InsertedRow(h) == [role |-> handler[h].role, isActive |-> TRUE, left |-> FALSE, pin |-> "new"]
ReturnedRow(h) == [role |-> handler[h].role, isActive |-> TRUE, left |-> FALSE,
                   pin |-> member[handler[h].user].pin]
UpdatedRow(h) == Updated(member[handler[h].user], handler[h])
RemovedRow(h) == [member[handler[h].user] EXCEPT !.isActive = FALSE, !.left = TRUE, !.pin = "old"]

LEMMA InsertWrites ==
  ASSUME MembersTypeInv, NEW h \in Handlers, Insert(h)
  PROVE  /\ Growing(h) /\ handler[h].user \in Users /\ member[handler[h].user] = None
         /\ InsertedRow(h) \in Membership /\ Put(handler[h].user, InsertedRow(h))
         /\ handler' = [handler EXCEPT ![h] = [op |-> "sync", returned |-> {}]]
  BY Writer DEF Insert, UserOps, Growing, InsertedRow, Membership, Become

LEMMA ReactivateWrites ==
  ASSUME MembersTypeInv, NEW h \in Handlers, Reactivate(h)
  PROVE  /\ Growing(h) /\ handler[h].user \in Users
         /\ ReturnedRow(h) \in Membership /\ Put(handler[h].user, ReturnedRow(h))
         /\ handler' = [handler EXCEPT ![h] = [op |-> "sync", returned |-> {handler[h].user}]]
  <1>1. /\ handler[h].user \in Users /\ handler[h].role \in MemberRoles
        /\ member[handler[h].user].pin \in {"new", "old", "kept"}
    BY Writer, MemberFields DEF Reactivate, UserOps, RowOps, MembersTypeInv
  <1>. QED
    BY <1>1 DEF Reactivate, Growing, ReturnedRow, Membership, Become

LEMMA UpdateWrites ==
  ASSUME MembersTypeInv, NEW h \in Handlers, UpdateWrite(h)
  PROVE  /\ handler[h].user \in Users /\ member[handler[h].user] \in Membership
         /\ member[handler[h].user] # None
         /\ UpdatedRow(h) \in Membership /\ Put(handler[h].user, UpdatedRow(h))
         /\ handler' = [handler EXCEPT ![h] = IF Switched(handler[h])
                          THEN [op |-> "sync", returned |-> {}] ELSE IdleHandler]
         /\ UpdatedRow(h).left = member[handler[h].user].left
         /\ UpdatedRow(h).pin = member[handler[h].user].pin
         /\ UpdatedRow(h).role = IF handler[h].role = "same"
                                 THEN member[handler[h].user].role ELSE handler[h].role
         /\ UpdatedRow(h).isActive = IF handler[h].isActive = "same"
                                     THEN member[handler[h].user].isActive
                                     ELSE handler[h].isActive = "on"
         /\ handler[h].role \in MemberRoles \cup {"same"} /\ handler[h].isActive \in Switches
  <1>1. handler[h].op = "update"
    BY DEF UpdateWrite
  <1>2. /\ handler[h].user \in Users /\ member[handler[h].user] \in Membership
        /\ member[handler[h].user] # None /\ handler[h] \in HandlerStates
    BY <1>1, Writer DEF UserOps, RowOps
  <1>3. handler[h].role \in MemberRoles \cup {"same"} /\ handler[h].isActive \in Switches
    BY <1>1, <1>2, HandlerFields
  <1>4. /\ Put(handler[h].user, UpdatedRow(h))
        /\ handler' = [handler EXCEPT ![h] = IF Switched(handler[h])
                          THEN [op |-> "sync", returned |-> {}] ELSE IdleHandler]
    BY DEF UpdateWrite, UpdatedRow, Become
  <1>. QED
    BY <1>1, <1>2, <1>3, <1>4, UpdatedType DEF UpdatedRow

LEMMA RemoveWrites ==
  ASSUME MembersTypeInv, NEW h \in Handlers, RemoveWrite(h)
  PROVE  /\ handler[h].op = "remove" /\ handler[h].user \in Users
         /\ RemovedRow(h) \in Membership /\ Put(handler[h].user, RemovedRow(h))
         /\ RemovedRow(h).isActive = FALSE /\ RemovedRow(h).left = TRUE
         /\ handler' = [handler EXCEPT ![h] = [op |-> "sync", returned |-> {}]]
  <1>1. handler[h].user \in Users /\ member[handler[h].user] \in Membership
    BY Writer DEF RemoveWrite, UserOps, RowOps
  <1>. QED
    BY <1>1 DEF RemoveWrite, RemovedRow, Membership, Become

-----------------------------------------------------------------------------
(* The admins: outside contests one handler at a time is about to end an   *)
(* admin, and there is another one.                                        *)
OneEnding == \A g, h \in Handlers : Ending(g) /\ Ending(h) => g = h
EndingSafe == \A g \in Handlers : Ending(g) => Admins \ {handler[g].user} # {}
AdminInv == contested \/ (Admins # {} /\ OneEnding /\ EndingSafe)

(* A check that starts an ending.                                          *)
LEMMA CheckKeepsAdmins ==
  ASSUME MembersTypeInv, AdminInv, NEW h \in Handlers, NEW w,
         handler' = [handler EXCEPT ![h] = w], member' = member,
         contested => contested',
         ~contested' /\ Ending(h)' => ~AnotherEnding(h) /\ Admins \ {w.user} # {}
  PROVE  AdminInv'
  <1>. SUFFICES ASSUME ~contested' PROVE (Admins # {} /\ OneEnding /\ EndingSafe)'
    BY DEF AdminInv
  <1>1. handler'[h] = w /\ \A g \in Handlers \ {h} : handler'[g] = handler[g]
    BY Moves DEF MembersTypeInv
  <1>2. Admins' = Admins /\ Admins # {} /\ OneEnding /\ EndingSafe
    BY DEF AdminInv, Admins, Present
  <1>3. \A g \in Handlers \ {h} : Ending(g)' <=> Ending(g)
    BY <1>1 DEF Ending
  <1>4. OneEnding'
    BY <1>2, <1>3 DEF OneEnding, AnotherEnding
  <1>5. EndingSafe'
    BY <1>1, <1>2, <1>3 DEF EndingSafe
  <1>. QED
    BY <1>2, <1>4, <1>5

(* Whoever writes is no longer about to, and takes away his own admin only.*)
LEMMA WriteKeepsAdmins ==
  ASSUME MembersTypeInv, AdminInv, NEW h \in Handlers, NEW w,
         handler' = [handler EXCEPT ![h] = w], w.op \notin UserOps, contested' = contested,
         Admins \subseteq Admins' \/ (Ending(h) /\ Admins \ {handler[h].user} \subseteq Admins')
  PROVE  AdminInv'
  <1>. SUFFICES ASSUME ~contested' PROVE (Admins # {} /\ OneEnding /\ EndingSafe)'
    BY DEF AdminInv
  <1>1. handler'[h] = w /\ \A g \in Handlers \ {h} : handler'[g] = handler[g]
    BY Moves DEF MembersTypeInv
  <1>2. Admins # {} /\ OneEnding /\ EndingSafe
    BY DEF AdminInv
  <1>3. ~Ending(h)' /\ \A g \in Handlers \ {h} : Ending(g)' <=> Ending(g)
    BY <1>1 DEF Ending, UserOps
  <1>4. OneEnding'
    BY <1>2, <1>3 DEF OneEnding
  <1>5. CASE Admins \subseteq Admins'
    <2>1. EndingSafe'
      BY <1>1, <1>2, <1>3, <1>5 DEF EndingSafe
    <2>. QED
      BY <1>2, <1>4, <1>5, <2>1
  <1>6. CASE Ending(h) /\ Admins \ {handler[h].user} \subseteq Admins'
    <2>1. \A g \in Handlers : ~Ending(g)'
      BY <1>2, <1>3, <1>6 DEF OneEnding
    <2>2. Admins \ {handler[h].user} # {}
      BY <1>2, <1>6 DEF EndingSafe
    <2>. QED
      BY <1>4, <1>6, <2>1, <2>2 DEF EndingSafe
  <1>. QED
    BY <1>5, <1>6

LEMMA AdminInvNext ==
  ASSUME MembersTypeInv, AdminInv, [MembersNext]_memberVars PROVE AdminInv'
  <1>0. MembersTypeOK
    BY DEF MembersTypeInv
  <1>1. CASE UNCHANGED memberVars
    BY <1>1 DEF memberVars, AdminInv, OneEnding, EndingSafe, Ending, Admins, Present
  <1>2. ASSUME NEW h \in Handlers, NEW u \in Users, NEW role \in MemberRoles,
               CreateCheck(h, u, role)
        PROVE  AdminInv'
    <2>1. /\ handler' = [handler EXCEPT ![h] = [op |-> "create", user |-> u, role |-> role]]
          /\ member' = member /\ contested' = contested
      BY <1>2 DEF CreateCheck, Start
    <2>2. ~Ending(h)'
      <3>1. handler'[h] = [op |-> "create", user |-> u, role |-> role]
        BY <1>0, <2>1, Moves
      <3>2. handler'[h].op = "create"
        BY <3>1
      <3>. QED
        BY <3>2 DEF Ending
    <2>. QED
      BY <2>1, <2>2, CheckKeepsAdmins
  <1>3. ASSUME NEW h \in Handlers, NEW u \in Users, NEW role \in MemberRoles,
               AddCheck(h, u, role)
        PROVE  AdminInv'
    <2>. DEFINE w == [op |-> IF member[u] = None THEN "add" ELSE "reactivate",
                      user |-> u, role |-> role]
    <2>1. handler' = [handler EXCEPT ![h] = w] /\ member' = member
      BY <1>3 DEF AddCheck, Start
    <2>2. contested' <=> contested \/ (member[u] # None /\ role # "ORG_ADMIN" /\ AnotherEnding(h))
      BY <1>3 DEF AddCheck
    <2>3. Ending(h)' => member[u] # None /\ role # "ORG_ADMIN"
      <3>1. w.op = (IF member[u] = None THEN "add" ELSE "reactivate") /\ w.role = role
        OBVIOUS
      <3>. HIDE DEF w
      <3>2. handler'[h] = w
        BY <1>0, <2>1, Moves
      <3>. QED
        BY <3>1, <3>2 DEF Ending
    <2>4. member[u] # None => u \notin Admins
      BY <1>3 DEF AddCheck, Admins
    <2>5. ~contested' => Admins # {}
      BY <2>2 DEF AdminInv
    <2>6. w.user = u
      OBVIOUS
    <2>. HIDE DEF w
    <2>7. ~contested' /\ Ending(h)' => ~AnotherEnding(h) /\ Admins \ {w.user} # {}
      BY <2>2, <2>3, <2>4, <2>5, <2>6
    <2>. QED
      BY <2>1, <2>2, <2>7, CheckKeepsAdmins
  <1>4. ASSUME NEW h \in Handlers, NEW u \in Users, NEW role \in MemberRoles \cup {"same"},
               NEW switch \in Switches, UpdateCheck(h, u, role, switch)
        PROVE  AdminInv'
    <2>. DEFINE w == [op |-> "update", user |-> u, role |-> role, isActive |-> switch,
                      was |-> member[u].isActive]
    <2>1. handler' = [handler EXCEPT ![h] = w] /\ member' = member
      BY <1>4 DEF UpdateCheck, Start
    <2>2. contested' <=> \/ contested \/ (Ending(h)' /\ AnotherEnding(h))
                         \/ (switch = "off" /\ Admins = {u})
      BY <1>4 DEF UpdateCheck
    <2>3. Ending(h)' <=> role \in Counted \/ switch = "off"
      <3>1. handler'[h] = w
        BY <1>0, <2>1, Moves
      <3>2. handler'[h].op = "update" /\ handler'[h].role = role /\ handler'[h].isActive = switch
        BY <3>1
      <3>. QED
        BY <3>2 DEF Ending
    <2>4. role \in Counted => Admins \ {u} # {} \/ u \notin Admins
      BY <1>4 DEF UpdateCheck, AnotherAdmin, Admins
    <2>5. ~contested' => Admins # {}
      BY <2>2 DEF AdminInv
    <2>6. w.user = u
      OBVIOUS
    <2>. HIDE DEF w
    <2>7. ~contested' /\ Ending(h)' => ~AnotherEnding(h) /\ Admins \ {w.user} # {}
      BY <2>2, <2>3, <2>4, <2>5, <2>6
    <2>. QED
      BY <2>1, <2>2, <2>7, CheckKeepsAdmins
  <1>5. ASSUME NEW h \in Handlers, NEW u \in Users, RemoveCheck(h, u) PROVE AdminInv'
    <2>1. handler' = [handler EXCEPT ![h] = [op |-> "remove", user |-> u]] /\ member' = member
      BY <1>5 DEF RemoveCheck, Start
    <2>2. contested' <=> contested \/ AnotherEnding(h)
      BY <1>5 DEF RemoveCheck
    <2>3. ~contested' => Admins \ {u} # {}
      BY <1>5, <2>2 DEF RemoveCheck, AnotherAdmin, Admins, AdminInv
    <2>. QED
      BY <2>1, <2>2, <2>3, CheckKeepsAdmins
  <1>6. ASSUME NEW h \in Handlers, Insert(h) PROVE AdminInv'
    <2>1. handler[h].user \notin Admins
      BY <1>6, InsertWrites DEF Admins, Present
    <2>2. Admins \subseteq Admins'
      BY <1>0, <1>6, <2>1, InsertWrites, PutSets
    <2>. QED
      BY <1>6, <2>2, InsertWrites, WriteKeepsAdmins DEF Insert, UserOps
  <1>7. ASSUME NEW h \in Handlers, Reactivate(h) PROVE AdminInv'
    <2>. DEFINE w == [op |-> "sync", returned |-> {handler[h].user}]
    <2>1. Admins \ {handler[h].user} \subseteq Admins'
      BY <1>0, <1>7, ReactivateWrites, PutSets
    <2>2. handler[h].role = "ORG_ADMIN" => handler[h].user \in Admins'
      BY <1>0, <1>7, ReactivateWrites, PutSets DEF ReturnedRow
    <2>3. handler[h].role # "ORG_ADMIN" => Ending(h)
      BY <1>7 DEF Reactivate, Ending
    <2>4. w.op \notin UserOps
      BY DEF UserOps
    <2>5. handler' = [handler EXCEPT ![h] = w] /\ contested' = contested
      BY <1>7, ReactivateWrites DEF Reactivate
    <2>. HIDE DEF w
    <2>. QED
      BY <2>1, <2>2, <2>3, <2>4, <2>5, WriteKeepsAdmins
  <1>8. ASSUME NEW h \in Handlers, UpdateWrite(h) PROVE AdminInv'
    <2>. DEFINE w == IF Switched(handler[h]) THEN [op |-> "sync", returned |-> {}] ELSE IdleHandler
    <2>1. Admins \ {handler[h].user} \subseteq Admins'
      BY <1>0, <1>8, UpdateWrites, PutSets
    <2>2. ~Ending(h) => (handler[h].user \in Admins => handler[h].user \in Admins')
      <3>1. ~Ending(h) => handler[h].role \in {"same", "ORG_ADMIN"} /\ handler[h].isActive # "off"
        BY <1>8, UpdateWrites DEF Ending, UpdateWrite, Counted
      <3>2. ~Ending(h) /\ handler[h].user \in Admins =>
              UpdatedRow(h).isActive /\ ~UpdatedRow(h).left /\ UpdatedRow(h).role = "ORG_ADMIN"
        BY <1>8, <3>1, UpdateWrites DEF Admins, Present, Switches
      <3>. QED
        BY <1>0, <1>8, <3>2, UpdateWrites, PutSets
    <2>3. w.op \notin UserOps
      BY DEF UserOps, IdleHandler
    <2>4. handler' = [handler EXCEPT ![h] = w] /\ contested' = contested
      BY <1>8, UpdateWrites DEF UpdateWrite
    <2>. HIDE DEF w
    <2>. QED
      BY <2>1, <2>2, <2>3, <2>4, WriteKeepsAdmins
  <1>9. ASSUME NEW h \in Handlers, RemoveWrite(h) PROVE AdminInv'
    <2>1. Ending(h) /\ Admins \ {handler[h].user} \subseteq Admins'
      BY <1>0, <1>9, RemoveWrites, PutSets DEF Ending
    <2>. QED
      BY <1>9, <2>1, RemoveWrites, WriteKeepsAdmins DEF RemoveWrite, UserOps
  <1>10. ASSUME NEW h \in Handlers,
                ReactivatePin(h) \/ SyncCount(h) \/ SyncStore(h) \/ SyncFail(h) \/ Fail(h)
         PROVE  AdminInv'
    <2>1. Admins' = Admins
      <3>1. ReactivatePin(h) \/ Fail(h) => Admins' = Admins
        BY ReactivatePinSets, FailSets
      <3>2. SyncCount(h) \/ SyncStore(h) \/ SyncFail(h) => Admins' = Admins
        BY DEF SyncCount, SyncStore, SyncFail, Admins, Present
      <3>. QED
        BY <1>10, <3>1, <3>2
    <2>2. /\ IdleHandler.op \notin UserOps /\ Synced(h).op \notin UserOps
          /\ [op |-> "store", returned |-> handler[h].returned,
              value |-> Cardinality(Employees)].op \notin UserOps
      BY DEF UserOps, IdleHandler, Synced
    <2>3. \E w : handler' = [handler EXCEPT ![h] = w] /\ w.op \notin UserOps
      BY <1>10, <2>2 DEF ReactivatePin, SyncCount, SyncStore, SyncFail, Fail, Become
    <2>4. contested' = contested
      BY <1>10 DEF ReactivatePin, SyncCount, SyncStore, SyncFail, Fail
    <2>. QED
      BY <2>1, <2>3, <2>4, WriteKeepsAdmins
  <1>11. ASSUME NEW u \in Users, ResetAttendancePin(u) PROVE AdminInv'
    <2>1. Admins' = Admins /\ handler' = handler /\ contested' = contested
      BY <1>0, <1>11, PinSets DEF ResetAttendancePin
    <2>. QED
      BY <2>1 DEF AdminInv, OneEnding, EndingSafe, Ending
  <1>. QED
    BY <1>1, <1>2, <1>3, <1>4, <1>5, <1>6, <1>7, <1>8, <1>9, <1>10, <1>11 DEF MembersNext

LEMMA AdminInvInit == ASSUME MembersInit PROVE AdminInv
  <1>1. Founder \in Admins
    BY NoneIsNoRow, MembershipAssumption DEF MembersInit, Admins, Present, None, Membership
  <1>2. \A h \in Handlers : ~Ending(h)
    BY DEF MembersInit, Ending, IdleHandler
  <1>. QED
    BY <1>1, <1>2 DEF AdminInv, OneEnding, EndingSafe

-----------------------------------------------------------------------------
(* The PIN of a member who came back: a return under way will replace it.  *)
FreshInv ==
  \A u \in Users : member[u] # None /\ ~member[u].left /\ member[u].pin = "old" =>
    \E h \in Handlers : handler[h].op \in SyncOps /\ u \in handler[h].returned

(* Only the rows of `changed` get an old PIN, and those who return keep    *)
(* returning unless their PIN is replaced.                                 *)
LEMMA KeepsFresh ==
  ASSUME MembersTypeInv, FreshInv, NEW h \in Handlers, NEW w,
         handler' = [handler EXCEPT ![h] = w],
         \A u \in Users :
           \/ member'[u] = None \/ member'[u].left \/ member'[u].pin # "old"
           \/ w.op \in SyncOps /\ u \in w.returned
           \/ /\ member[u] # None /\ ~member[u].left /\ member[u].pin = "old"
              /\ ~(handler[h].op \in SyncOps /\ u \in handler[h].returned)
  PROVE  FreshInv'
  <1>. SUFFICES ASSUME NEW u \in Users, member'[u] # None, ~member'[u].left,
                       member'[u].pin = "old"
                PROVE  \E g \in Handlers : handler'[g].op \in SyncOps /\ u \in handler'[g].returned
    BY DEF FreshInv
  <1>1. handler'[h] = w /\ \A g \in Handlers \ {h} : handler'[g] = handler[g]
    BY Moves DEF MembersTypeInv
  <1>2. CASE w.op \in SyncOps /\ u \in w.returned
    BY <1>1, <1>2
  <1>3. CASE /\ member[u] # None /\ ~member[u].left /\ member[u].pin = "old"
             /\ ~(handler[h].op \in SyncOps /\ u \in handler[h].returned)
    <2>1. PICK g \in Handlers : handler[g].op \in SyncOps /\ u \in handler[g].returned
      BY <1>3 DEF FreshInv
    <2>. QED
      BY <1>1, <1>3, <2>1
  <1>. QED
    BY <1>2, <1>3

LEMMA FreshInvNext ==
  ASSUME MembersTypeInv, FreshInv, [MembersNext]_memberVars PROVE FreshInv'
  <1>0. MembersTypeOK
    BY DEF MembersTypeInv
  <1>1. CASE UNCHANGED memberVars
    BY <1>1 DEF memberVars, FreshInv
  <1>2. ASSUME NEW h \in Handlers, NEW w, Start(h, w), member' = member PROVE FreshInv'
    <2>1. handler[h] = IdleHandler /\ handler' = [handler EXCEPT ![h] = w]
      BY <1>2 DEF Start
    <2>2. handler[h].op \notin SyncOps
      BY <2>1 DEF IdleHandler, SyncOps
    <2>. QED
      BY <1>2, <2>1, <2>2, KeepsFresh
  <1>3. ASSUME NEW h \in Handlers, NEW u \in Users, NEW row \in Membership, Put(u, row),
               row.left \/ row.pin # "old" \/ (member[u] # None /\ ~member[u].left
                                               /\ member[u].pin = "old"),
               handler[h].op \notin SyncOps, NEW w, handler' = [handler EXCEPT ![h] = w]
        PROVE  FreshInv'
    <2>1. member'[u] = row /\ \A v \in Users \ {u} : member'[v] = member[v]
      BY <1>0, <1>3, RowWritten
    <2>. QED
      BY <1>3, <2>1, KeepsFresh
  <1>4. ASSUME NEW h \in Handlers, Insert(h) PROVE FreshInv'
    <2>1. InsertedRow(h).pin = "new" /\ handler[h].op \notin SyncOps
      BY <1>4 DEF InsertedRow, Insert, SyncOps
    <2>. QED
      BY <1>3, <1>4, <2>1, InsertWrites
  <1>5. ASSUME NEW h \in Handlers, Reactivate(h) PROVE FreshInv'
    <2>. DEFINE w == [op |-> "sync", returned |-> {handler[h].user}]
    <2>1. handler[h].op \notin SyncOps
      BY <1>5 DEF Reactivate, SyncOps
    <2>2. \A v \in Users \ {handler[h].user} : member'[v] = member[v]
      BY <1>0, <1>5, ReactivateWrites, RowWritten
    <2>3. w.op \in SyncOps /\ w.returned = {handler[h].user}
      BY DEF SyncOps
    <2>4. handler' = [handler EXCEPT ![h] = w]
      BY <1>5, ReactivateWrites
    <2>. HIDE DEF w
    <2>. QED
      BY <2>1, <2>2, <2>3, <2>4, KeepsFresh
  <1>6. ASSUME NEW h \in Handlers, UpdateWrite(h) PROVE FreshInv'
    <2>1. handler[h].op \notin SyncOps
      BY <1>6 DEF UpdateWrite, SyncOps
    <2>. QED
      BY <1>3, <1>6, <2>1, UpdateWrites
  <1>7. ASSUME NEW h \in Handlers, RemoveWrite(h) PROVE FreshInv'
    <2>1. handler[h].op \notin SyncOps
      BY <1>7 DEF RemoveWrite, SyncOps
    <2>. QED
      BY <1>3, <1>7, <2>1, RemoveWrites
  <1>8. ASSUME NEW h \in Handlers, ReactivatePin(h) PROVE FreshInv'
    <2>1. PICK u \in Users : /\ handler[h].returned = {u} /\ member[u] # None
                             /\ member'[u] = [member[u] EXCEPT !.pin = "new"]
                             /\ \A v \in Users \ {u} : member'[v] = member[v]
      BY <1>8, ReactivatePinSets
    <2>2. member'[u].pin # "old"
      BY <1>0, <2>1, MemberFields DEF Membership
    <2>3. handler' = [handler EXCEPT ![h] = IdleHandler]
      BY <1>8 DEF ReactivatePin, Become
    <2>4. ASSUME NEW v \in Users
          PROVE  \/ member'[v] = None \/ member'[v].left \/ member'[v].pin # "old"
                 \/ /\ member[v] # None /\ ~member[v].left /\ member[v].pin = "old"
                    /\ ~(handler[h].op \in SyncOps /\ v \in handler[h].returned)
      BY <2>1, <2>2
    <2>. QED
      BY <2>3, <2>4, KeepsFresh
  <1>9. ASSUME NEW h \in Handlers, NEW w, handler' = [handler EXCEPT ![h] = w],
               member' = member, handler[h].op \in SyncOps,
               handler[h].returned = {} \/ (w.op \in SyncOps /\ w.returned = handler[h].returned)
        PROVE  FreshInv'
    BY <1>9, KeepsFresh
  <1>10. ASSUME NEW h \in Handlers, SyncCount(h) PROVE FreshInv'
    BY <1>9, <1>10 DEF SyncCount, Become, SyncOps
  <1>11. ASSUME NEW h \in Handlers, SyncStore(h) \/ SyncFail(h) PROVE FreshInv'
    <2>1. /\ handler[h].op \in SyncOps /\ member' = member
          /\ handler' = [handler EXCEPT ![h] = Synced(h)]
      BY <1>11 DEF SyncStore, SyncFail, Syncing, Become, SyncOps
    <2>2. \/ handler[h].returned = {}
          \/ Synced(h).op \in SyncOps /\ Synced(h).returned = handler[h].returned
      BY DEF Synced, SyncOps
    <2>. QED
      BY <1>9, <2>1, <2>2
  <1>12. ASSUME NEW h \in Handlers, Fail(h) PROVE FreshInv'
    <2>1. handler' = [handler EXCEPT ![h] = IdleHandler]
          /\ (handler[h].op \in SyncOps => handler[h].op = "pin")
      BY <1>12 DEF Fail, Become, Syncing, SyncOps
    <2>2. ASSUME NEW u \in Users
          PROVE  \/ member'[u].pin # "old"
                 \/ /\ member'[u] = member[u]
                    /\ ~(handler[h].op \in SyncOps /\ u \in handler[h].returned
                         /\ member[u].pin = "old")
      BY <1>12, <2>1, FailSets
    <2>3. ASSUME NEW v \in Users
          PROVE  \/ member'[v] = None \/ member'[v].left \/ member'[v].pin # "old"
                 \/ /\ member[v] # None /\ ~member[v].left /\ member[v].pin = "old"
                    /\ ~(handler[h].op \in SyncOps /\ v \in handler[h].returned)
      BY <2>2
    <2>. QED
      BY <2>1, <2>3, KeepsFresh
  <1>13. ASSUME NEW u \in Users, ResetAttendancePin(u) PROVE FreshInv'
    <2>1. /\ member[u] # None /\ handler' = handler
          /\ member'[u] = [member[u] EXCEPT !.pin = "new"]
          /\ \A v \in Users \ {u} : member'[v] = member[v]
      BY <1>0, <1>13, PinSets DEF ResetAttendancePin
    <2>2. member'[u].pin # "old"
      BY <1>0, <2>1, MemberFields DEF Membership
    <2>. QED
      BY <2>1, <2>2 DEF FreshInv
  <1>. QED
    BY <1>1, <1>2, <1>4, <1>5, <1>6, <1>7, <1>8, <1>10, <1>11, <1>12, <1>13
    DEF MembersNext, CreateCheck, AddCheck, UpdateCheck, RemoveCheck

(* A member who has come back does not clock with the PIN of before once   *)
(* the return is through, whatever other handlers do to the row in between *)
(* (user.service.ts:384-412).                                              *)
THEOREM MembershipFreshPinOnReturn == MembersSpec => []FreshPinOnReturn
  <1>1. MembersInit => FreshInv
    BY DEF MembersInit, FreshInv, None
  <1>2. MembersTypeInv /\ FreshInv /\ [MembersNext]_memberVars => FreshInv'
    BY FreshInvNext
  <1>3. FreshInv => FreshPinOnReturn
    BY DEF FreshInv, FreshPinOnReturn, Present, SyncOps
  <1>. QED
    BY <1>1, <1>2, <1>3, MembersTypeInvAlways, PTL DEF MembersSpec

-----------------------------------------------------------------------------
(* The stored count: what is about to be stored is right, or another sync  *)
(* will store after it.                                                    *)
StoresRight ==
  \A h \in Handlers : handler[h].op = "store" =>
    handler[h].value = Cardinality(Employees) \/ \E g \in Handlers \ {h} : Syncing(g)
CountRight == (\E h \in Handlers : Syncing(h)) \/ employeeCount = Cardinality(Employees)
CountInv == drift \/ (StoresRight /\ CountRight)

(* Nothing that is counted changes, and no sync begins or ends.            *)
LEMMA QuietKeepsCount ==
  ASSUME CountInv, drift => drift', Employees' = Employees, employeeCount' = employeeCount,
         \A h \in Handlers : handler'[h] = handler[h] \/ (~Syncing(h) /\ ~Syncing(h)')
  PROVE  CountInv'
  <1>. SUFFICES ASSUME ~drift' PROVE (StoresRight /\ CountRight)'
    BY DEF CountInv
  <1>1. StoresRight /\ CountRight
    BY DEF CountInv
  <1>2. \A h \in Handlers : Syncing(h)' <=> Syncing(h)
    BY DEF Syncing
  <1>3. ASSUME NEW h \in Handlers, handler'[h].op = "store" PROVE handler'[h] = handler[h]
    BY <1>3 DEF Syncing
  <1>4. StoresRight'
    BY <1>1, <1>2, <1>3 DEF StoresRight
  <1>5. CountRight'
    BY <1>1, <1>2 DEF CountRight
  <1>. QED
    BY <1>4, <1>5

(* A write that a sync follows.                                            *)
LEMMA SyncedWriteKeepsCount ==
  ASSUME MembersTypeOK, NEW h \in Handlers, NEW w, handler' = [handler EXCEPT ![h] = w],
         w.op = "sync"
  PROVE  CountInv'
  <1>1. handler'[h] = w /\ Syncing(h)'
    BY Moves DEF Syncing
  <1>2. StoresRight'
    <2>. SUFFICES ASSUME NEW g \in Handlers, handler'[g].op = "store"
                  PROVE  \E i \in Handlers \ {g} : Syncing(i)'
      BY DEF StoresRight
    <2>1. g # h
      BY <1>1
    <2>. QED
      BY <1>1, <2>1
  <1>3. CountRight'
    BY <1>1 DEF CountRight
  <1>. QED
    BY <1>2, <1>3 DEF CountInv

LEMMA CountInvNext ==
  ASSUME MembersTypeInv, CountInv, [MembersNext]_memberVars PROVE CountInv'
  <1>0. MembersTypeOK
    BY DEF MembersTypeInv
  <1>1. CASE UNCHANGED memberVars
    BY <1>1 DEF memberVars, CountInv, StoresRight, CountRight, Syncing, Employees, Present
  <1>2. ASSUME NEW h \in Handlers, NEW w, handler' = [handler EXCEPT ![h] = w], ~Syncing(h),
               w.op \notin {"sync", "store"}, Employees' = Employees, drift' = drift,
               employeeCount' = employeeCount
        PROVE  CountInv'
    <2>1. handler'[h] = w /\ \A g \in Handlers \ {h} : handler'[g] = handler[g]
      BY <1>0, <1>2, Moves
    <2>2. ~Syncing(h)'
      BY <1>2, <2>1 DEF Syncing
    <2>. QED
      BY <1>2, <2>1, <2>2, QuietKeepsCount
  <1>3. ASSUME NEW h \in Handlers, NEW w, Start(h, w), w.op \notin {"sync", "store"},
               member' = member, drift' = drift, employeeCount' = employeeCount
        PROVE  CountInv'
    <2>1. handler[h] = IdleHandler /\ handler' = [handler EXCEPT ![h] = w]
      BY <1>3 DEF Start
    <2>2. ~Syncing(h)
      BY <2>1 DEF Syncing, IdleHandler
    <2>3. Employees' = Employees
      BY <1>3 DEF Employees, Present
    <2>. QED
      BY <1>2, <1>3, <2>1, <2>2, <2>3
  <1>4. ASSUME NEW h \in Handlers, NEW u \in Users, NEW role \in MemberRoles,
               CreateCheck(h, u, role) \/ AddCheck(h, u, role)
        PROVE  CountInv'
    <2>. DEFINE v(op) == [op |-> op, user |-> u, role |-> role]
    <2>1. \E op \in {"create", "add", "reactivate"} : Start(h, v(op))
      BY <1>4 DEF CreateCheck, AddCheck
    <2>2. \A op \in {"create", "add", "reactivate"} : v(op).op \notin {"sync", "store"}
      OBVIOUS
    <2>3. member' = member /\ drift' = drift /\ employeeCount' = employeeCount
      BY <1>4 DEF CreateCheck, AddCheck
    <2>. HIDE DEF v
    <2>. QED
      BY <1>3, <2>1, <2>2, <2>3
  <1>5. ASSUME NEW h \in Handlers, NEW u \in Users, NEW role \in MemberRoles \cup {"same"},
               NEW switch \in Switches, UpdateCheck(h, u, role, switch)
        PROVE  CountInv'
    <2>. DEFINE w == [op |-> "update", user |-> u, role |-> role, isActive |-> switch,
                      was |-> member[u].isActive]
    <2>1. Start(h, w) /\ w.op \notin {"sync", "store"}
      BY <1>5 DEF UpdateCheck
    <2>2. member' = member /\ drift' = drift /\ employeeCount' = employeeCount
      BY <1>5 DEF UpdateCheck
    <2>. HIDE DEF w
    <2>. QED
      BY <1>3, <2>1, <2>2
  <1>6. ASSUME NEW h \in Handlers, NEW u \in Users, RemoveCheck(h, u) PROVE CountInv'
    <2>1. Start(h, [op |-> "remove", user |-> u])
      BY <1>6 DEF RemoveCheck
    <2>2. member' = member /\ drift' = drift /\ employeeCount' = employeeCount
      BY <1>6 DEF RemoveCheck
    <2>. QED
      BY <1>3, <2>1, <2>2
  <1>7. ASSUME NEW h \in Handlers, Insert(h) \/ RemoveWrite(h) PROVE CountInv'
    <2>1. handler' = [handler EXCEPT ![h] = [op |-> "sync", returned |-> {}]]
      BY <1>7, InsertWrites, RemoveWrites
    <2>. QED
      BY <1>0, <2>1, SyncedWriteKeepsCount
  <1>8. ASSUME NEW h \in Handlers, Reactivate(h) PROVE CountInv'
    BY <1>0, <1>8, ReactivateWrites, SyncedWriteKeepsCount
  <1>9. ASSUME NEW h \in Handlers, UpdateWrite(h) PROVE CountInv'
    <2>1. CASE Switched(handler[h])
      <3>1. handler' = [handler EXCEPT ![h] = [op |-> "sync", returned |-> {}]]
        BY <1>9, <2>1, UpdateWrites
      <3>. QED
        BY <1>0, <3>1, SyncedWriteKeepsCount
    <2>2. CASE ~Switched(handler[h])
      <3>. DEFINE u == handler[h].user
                  changed == \/ UpdatedRow(h).role # member[u].role
                             \/ UpdatedRow(h).isActive # member[u].isActive
      <3>1. handler' = [handler EXCEPT ![h] = IdleHandler] /\ employeeCount' = employeeCount
        BY <1>9, <2>2, UpdateWrites DEF UpdateWrite
      <3>2. drift' <=> drift \/ changed
        BY <1>9, <2>2 DEF UpdateWrite, UpdatedRow
      <3>3. CASE changed
        BY <3>2, <3>3 DEF CountInv
      <3>4. CASE ~changed
        <4>1. /\ u \in Users /\ member[u] # None
              /\ member'[u] = UpdatedRow(h) /\ member'[u] # None
              /\ \A v \in Users \ {u} : member'[v] = member[v]
          BY <1>0, <1>9, UpdateWrites, RowWritten, NoneIsNoRow
        <4>2. UpdatedRow(h).left = member[u].left
          BY <1>9, UpdateWrites
        <4>3. Employees' = Employees
          BY <3>4, <4>1, <4>2, SameSets
        <4>4. IdleHandler.op \notin {"sync", "store"} /\ ~Syncing(h)
          BY <1>9 DEF UpdateWrite, Syncing, IdleHandler
        <4>5. drift => drift'
          BY <3>2
        <4>6. ~Syncing(h)'
          BY <1>0, <3>1, <4>4, Moves DEF Syncing
        <4>7. \A g \in Handlers \ {h} : handler'[g] = handler[g]
          BY <1>0, <3>1, Moves
        <4>. QED
          BY <3>1, <4>3, <4>4, <4>5, <4>6, <4>7, QuietKeepsCount
      <3>. QED
        BY <3>3, <3>4
    <2>. QED
      BY <2>1, <2>2
  <1>10. ASSUME NEW h \in Handlers, ReactivatePin(h) \/ Fail(h) PROVE CountInv'
    <2>1. /\ handler' = [handler EXCEPT ![h] = IdleHandler] /\ ~Syncing(h)
          /\ drift' = drift /\ employeeCount' = employeeCount
      BY <1>10 DEF ReactivatePin, Fail, Become, Syncing
    <2>2. Employees' = Employees
      BY <1>10, ReactivatePinSets, FailSets
    <2>3. IdleHandler.op \notin {"sync", "store"}
      BY DEF IdleHandler
    <2>. QED
      BY <1>2, <2>1, <2>2, <2>3
  <1>11. ASSUME NEW h \in Handlers, SyncCount(h) PROVE CountInv'
    <2>1. /\ handler' = [handler EXCEPT ![h] =
                           [op |-> "store", returned |-> handler[h].returned,
                            value |-> Cardinality(Employees)]]
          /\ Employees' = Employees
      BY <1>11 DEF SyncCount, Become, Employees, Present
    <2>2. /\ handler'[h] = [op |-> "store", returned |-> handler[h].returned,
                            value |-> Cardinality(Employees)]
          /\ \A g \in Handlers \ {h} : handler'[g] = handler[g]
      BY <1>0, <2>1, Moves
    <2>3. handler'[h].value = Cardinality(Employees') /\ Syncing(h)'
      BY <2>1, <2>2 DEF Syncing
    <2>4. StoresRight'
      BY <2>2, <2>3 DEF StoresRight
    <2>5. CountRight'
      BY <2>3 DEF CountRight
    <2>. QED
      BY <2>4, <2>5 DEF CountInv
  <1>12. ASSUME NEW h \in Handlers, SyncStore(h) PROVE CountInv'
    <2>. SUFFICES ASSUME ~drift' PROVE (StoresRight /\ CountRight)'
      BY DEF CountInv
    <2>1. /\ Employees' = Employees /\ employeeCount' = handler[h].value
          /\ handler' = [handler EXCEPT ![h] = Synced(h)] /\ handler[h].op = "store"
      BY <1>12 DEF SyncStore, Become, Employees, Present
    <2>2. Alone(h) /\ (handler[h].value = Cardinality(Employees) \/ ~drift)
      BY <1>12 DEF SyncStore
    <2>3. Synced(h).op \notin {"sync", "store"}
      BY DEF Synced, IdleHandler
    <2>4. handler'[h] = Synced(h) /\ \A g \in Handlers \ {h} : handler'[g] = handler[g]
      BY <1>0, <2>1, Moves
    <2>5. \A g \in Handlers : handler'[g].op # "store"
      BY <2>2, <2>3, <2>4 DEF Alone
    <2>6. \/ handler[h].value = Cardinality(Employees)
          \/ \E g \in Handlers \ {h} : Syncing(g)
      BY <2>1, <2>2 DEF CountInv, StoresRight
    <2>7. CountRight'
      BY <2>1, <2>4, <2>6 DEF CountRight, Syncing
    <2>. QED
      BY <2>5, <2>7 DEF StoresRight
  <1>13. ASSUME NEW h \in Handlers, SyncFail(h) PROVE CountInv'
    BY <1>13 DEF SyncFail, CountInv
  <1>14. ASSUME NEW u \in Users, ResetAttendancePin(u) PROVE CountInv'
    <2>1. /\ Employees' = Employees /\ handler' = handler /\ drift' = drift
          /\ employeeCount' = employeeCount
      BY <1>0, <1>14, PinSets DEF ResetAttendancePin
    <2>. QED
      BY <2>1, QuietKeepsCount
  <1>. QED
    BY <1>1, <1>4, <1>5, <1>6, <1>7, <1>8, <1>9, <1>10, <1>11, <1>12, <1>13, <1>14
    DEF MembersNext

LEMMA NoEmployeesAtFirst == ASSUME MembersInit PROVE Employees = {} /\ Cardinality(Employees) = 0
  <1>1. Employees = {}
    BY DEF MembersInit, Employees, Present, Counted, None
  <1>. QED
    BY <1>1, FS_EmptySet

LEMMA CountInvInit == ASSUME MembersInit PROVE CountInv
  <1>1. \A h \in Handlers : handler[h].op = "idle"
    BY DEF MembersInit, IdleHandler
  <1>. QED
    BY <1>1, NoEmployeesAtFirst DEF MembersInit, CountInv, StoresRight, CountRight

-----------------------------------------------------------------------------
(* The cap: one member at a time is about to be let in, and there is room. *)
Room == \A h \in Handlers : Growing(h) =>
  Cardinality(Employees) < Cap /\ \A g \in Handlers \ {h} : ~Growing(g)
CapInv == overbooked \/ Cap = 0 \/ (Cardinality(Employees) <= Cap /\ Room)

LEMMA EmployeesFinite ==
  /\ IsFiniteSet(Employees) /\ Cardinality(Employees) \in Nat
  /\ IsFiniteSet(Employees') /\ Cardinality(Employees') \in Nat
  BY FS_Subset, FS_CardinalityType, MembershipAssumption DEF Employees

(* Nobody is let in who was not, and no one more is about to be.           *)
LEMMA ShrinkingKeepsCap ==
  ASSUME CapInv, overbooked => overbooked', Employees' \subseteq Employees,
         \A h \in Handlers : handler'[h] = handler[h] \/ ~Growing(h)'
  PROVE  CapInv'
  <1>. SUFFICES ASSUME ~overbooked', Cap # 0 PROVE (Cardinality(Employees) <= Cap /\ Room)'
    BY DEF CapInv
  <1>1. Cardinality(Employees') <= Cardinality(Employees) /\ Cap \in Nat
    BY EmployeesFinite, FS_Subset, MembershipAssumption
  <1>2. Cardinality(Employees) <= Cap /\ Room
    BY DEF CapInv
  <1>3. \A h \in Handlers : Growing(h)' => Growing(h)
    BY DEF Growing
  <1>4. Cardinality(Employees') \in Nat /\ Cardinality(Employees) \in Nat
    BY EmployeesFinite
  <1>5. Room'
    BY <1>1, <1>2, <1>3, <1>4 DEF Room
  <1>. QED
    BY <1>1, <1>2, <1>4, <1>5

(* A check lets one in, when the count is right and below the cap.         *)
LEMMA CheckKeepsCap ==
  ASSUME MembersTypeOK, CountInv, CapInv, NEW h \in Handlers, NEW w,
         handler[h] = IdleHandler, handler' = [handler EXCEPT ![h] = w], member' = member,
         UnderCap, overbooked' = (overbooked \/ Unsettled(h))
  PROVE  CapInv'
  <1>. SUFFICES ASSUME ~overbooked', Cap # 0 PROVE (Cardinality(Employees) <= Cap /\ Room)'
    BY DEF CapInv
  <1>1. Employees' = Employees
    BY DEF Employees, Present
  <1>2. ~drift /\ \A g \in Handlers \ {h} : ~Growing(g) /\ ~Syncing(g)
    BY DEF Unsettled
  <1>3. ~Syncing(h)
    BY DEF Syncing, IdleHandler
  <1>4. employeeCount = Cardinality(Employees)
    BY <1>2, <1>3 DEF CountInv, CountRight
  <1>5. Cardinality(Employees) < Cap
    BY <1>4 DEF UnderCap
  <1>6. \A g \in Handlers \ {h} : ~Growing(g)'
    BY <1>2, Moves DEF Growing
  <1>7. Room'
    BY <1>1, <1>5, <1>6 DEF Room
  <1>8. Cardinality(Employees) \in Nat /\ Cap \in Nat
    BY EmployeesFinite, MembershipAssumption
  <1>. QED
    BY <1>1, <1>5, <1>7, <1>8

(* Who was about to be let in is let in.                                   *)
LEMMA GrowthKeepsCap ==
  ASSUME MembersTypeOK, CapInv, NEW h \in Handlers, NEW w, Growing(h),
         handler' = [handler EXCEPT ![h] = w], w.op = "sync", overbooked' = overbooked,
         NEW u \in Users, Employees' \subseteq Employees \cup {u}
  PROVE  CapInv'
  <1>. SUFFICES ASSUME ~overbooked', Cap # 0 PROVE (Cardinality(Employees) <= Cap /\ Room)'
    BY DEF CapInv
  <1>1. Cardinality(Employees) < Cap /\ \A g \in Handlers \ {h} : ~Growing(g)
    BY DEF CapInv, Room
  <1>2. \A g \in Handlers : ~Growing(g)'
    <2>1. handler'[h] = w /\ \A g \in Handlers \ {h} : handler'[g] = handler[g]
      BY Moves
    <2>2. ~Growing(h)'
      BY <2>1 DEF Growing
    <2>. QED
      BY <1>1, <2>1, <2>2 DEF Growing
  <1>3. /\ IsFiniteSet(Employees \cup {u})
        /\ Cardinality(Employees \cup {u}) \in {Cardinality(Employees), Cardinality(Employees) + 1}
    BY EmployeesFinite, FS_AddElement
  <1>4. Cardinality(Employees') <= Cardinality(Employees \cup {u})
    BY <1>3, FS_Subset
  <1>5. Cardinality(Employees) \in Nat /\ Cardinality(Employees') \in Nat /\ Cap \in Nat
    BY EmployeesFinite, MembershipAssumption
  <1>6. Cardinality(Employees') <= Cap
    BY <1>1, <1>3, <1>4, <1>5
  <1>. QED
    BY <1>2, <1>6 DEF Room

LEMMA CapInvNext ==
  ASSUME MembersTypeInv, CountInv, CapInv, [MembersNext]_memberVars PROVE CapInv'
  <1>0. MembersTypeOK
    BY DEF MembersTypeInv
  <1>1. CASE UNCHANGED memberVars
    BY <1>1 DEF memberVars, CapInv, Room, Growing, Employees, Present
  <1>2. ASSUME NEW h \in Handlers, NEW u \in Users, NEW role \in MemberRoles,
               CreateCheck(h, u, role) \/ AddCheck(h, u, role)
        PROVE  CapInv'
    <2>. DEFINE v(op) == [op |-> op, user |-> u, role |-> role]
    <2>1. \E op \in {"create", "add", "reactivate"} : Start(h, v(op))
      BY <1>2 DEF CreateCheck, AddCheck
    <2>2. UnderCap /\ member' = member /\ overbooked' = (overbooked \/ Unsettled(h))
      BY <1>2 DEF CreateCheck, AddCheck
    <2>. HIDE DEF v
    <2>3. \E w : handler[h] = IdleHandler /\ handler' = [handler EXCEPT ![h] = w]
      BY <2>1 DEF Start
    <2>. QED
      BY <1>0, <2>2, <2>3, CheckKeepsCap
  <1>3. ASSUME NEW h \in Handlers, NEW w, handler' = [handler EXCEPT ![h] = w],
               w.op \notin {"create", "add", "reactivate"}, Employees' \subseteq Employees,
               overbooked => overbooked'
        PROVE  CapInv'
    <2>1. handler'[h] = w /\ \A g \in Handlers \ {h} : handler'[g] = handler[g]
      BY <1>0, <1>3, Moves
    <2>2. ~Growing(h)'
      BY <1>3, <2>1 DEF Growing
    <2>. QED
      BY <1>3, <2>1, <2>2, ShrinkingKeepsCap
  <1>4. ASSUME NEW h \in Handlers, NEW u \in Users, NEW role \in MemberRoles \cup {"same"},
               NEW switch \in Switches,
               UpdateCheck(h, u, role, switch) \/ RemoveCheck(h, u)
        PROVE  CapInv'
    <2>1. Employees' = Employees /\ overbooked' = overbooked
      BY <1>4 DEF UpdateCheck, RemoveCheck, Employees, Present
    <2>2. \E w : /\ handler' = [handler EXCEPT ![h] = w]
                 /\ w.op \notin {"create", "add", "reactivate"}
      <3>1. CASE UpdateCheck(h, u, role, switch)
        <4>. DEFINE w == [op |-> "update", user |-> u, role |-> role, isActive |-> switch,
                          was |-> member[u].isActive]
        <4>1. handler' = [handler EXCEPT ![h] = w] /\ w.op = "update"
          BY <3>1 DEF UpdateCheck, Start
        <4>. HIDE DEF w
        <4>. QED
          BY <4>1
      <3>2. CASE RemoveCheck(h, u)
        <4>. DEFINE w == [op |-> "remove", user |-> u]
        <4>1. handler' = [handler EXCEPT ![h] = w] /\ w.op = "remove"
          BY <3>2 DEF RemoveCheck, Start
        <4>. HIDE DEF w
        <4>. QED
          BY <4>1
      <3>. QED
        BY <1>4, <3>1, <3>2
    <2>. QED
      BY <1>3, <2>1, <2>2
  <1>5. ASSUME NEW h \in Handlers, Insert(h) PROVE CapInv'
    <2>1. Employees' \subseteq Employees \cup {handler[h].user}
      BY <1>0, <1>5, InsertWrites, PutSets
    <2>. QED
      BY <1>0, <1>5, <2>1, InsertWrites, GrowthKeepsCap DEF Insert
  <1>6. ASSUME NEW h \in Handlers, Reactivate(h) PROVE CapInv'
    <2>. DEFINE w == [op |-> "sync", returned |-> {handler[h].user}]
    <2>1. Employees' \subseteq Employees \cup {handler[h].user}
      BY <1>0, <1>6, ReactivateWrites, PutSets
    <2>2. handler' = [handler EXCEPT ![h] = w] /\ w.op = "sync"
      BY <1>6, ReactivateWrites
    <2>3. Growing(h) /\ handler[h].user \in Users /\ overbooked' = overbooked
      BY <1>6, ReactivateWrites DEF Reactivate
    <2>. HIDE DEF w
    <2>. QED
      BY <1>0, <2>1, <2>2, <2>3, GrowthKeepsCap
  <1>7. ASSUME NEW h \in Handlers, UpdateWrite(h) PROVE CapInv'
    <2>. DEFINE u == handler[h].user
                row == UpdatedRow(h)
                changed == row.role # member[u].role \/ row.isActive # member[u].isActive
                w == IF Switched(handler[h]) THEN [op |-> "sync", returned |-> {}] ELSE IdleHandler
    <2>1. overbooked' <=> overbooked \/ (changed /\ row.isActive /\ row.role \in Counted)
      BY <1>7 DEF UpdateWrite, UpdatedRow
    <2>2. handler' = [handler EXCEPT ![h] = w] /\ w.op \in {"sync", "idle"}
      BY <1>7, UpdateWrites DEF IdleHandler
    <2>3. Employees' \ {u} = Employees \ {u}
      BY <1>0, <1>7, UpdateWrites, PutSets
    <2>4. u \in Employees' <=> row.isActive /\ ~row.left /\ row.role \in Counted
      BY <1>0, <1>7, UpdateWrites, PutSets
    <2>5. ~changed => (u \in Employees' => u \in Employees)
      BY <1>7, <2>4, UpdateWrites DEF Employees, Present
    <2>. HIDE DEF w, changed
    <2>6. CASE overbooked'
      BY <2>6 DEF CapInv
    <2>7. CASE ~overbooked'
      <3>1. Employees' \subseteq Employees
        BY <2>1, <2>3, <2>4, <2>5, <2>7
      <3>. QED
        BY <1>3, <2>1, <2>2, <3>1
    <2>. QED
      BY <2>6, <2>7
  <1>8. ASSUME NEW h \in Handlers, RemoveWrite(h) PROVE CapInv'
    <2>1. Employees' \subseteq Employees
      BY <1>0, <1>8, RemoveWrites, PutSets
    <2>. QED
      BY <1>3, <1>8, <2>1, RemoveWrites DEF RemoveWrite
  <1>9. ASSUME NEW h \in Handlers,
               ReactivatePin(h) \/ SyncCount(h) \/ SyncStore(h) \/ SyncFail(h) \/ Fail(h)
        PROVE  CapInv'
    <2>1. Employees' = Employees
      <3>1. ReactivatePin(h) \/ Fail(h) => Employees' = Employees
        BY ReactivatePinSets, FailSets
      <3>2. SyncCount(h) \/ SyncStore(h) \/ SyncFail(h) => Employees' = Employees
        BY DEF SyncCount, SyncStore, SyncFail, Employees, Present
      <3>. QED
        BY <1>9, <3>1, <3>2
    <2>2. /\ IdleHandler.op = "idle" /\ Synced(h).op \in {"idle", "pin"}
          /\ [op |-> "store", returned |-> handler[h].returned,
              value |-> Cardinality(Employees)].op = "store"
      BY DEF IdleHandler, Synced
    <2>3. \E w : /\ handler' = [handler EXCEPT ![h] = w]
                 /\ w.op \notin {"create", "add", "reactivate"}
      BY <1>9, <2>2 DEF ReactivatePin, SyncCount, SyncStore, SyncFail, Fail, Become
    <2>4. overbooked' = overbooked
      BY <1>9 DEF ReactivatePin, SyncCount, SyncStore, SyncFail, Fail
    <2>. QED
      BY <1>3, <2>1, <2>3, <2>4
  <1>10. ASSUME NEW u \in Users, ResetAttendancePin(u) PROVE CapInv'
    <2>1. Employees' = Employees /\ handler' = handler /\ overbooked' = overbooked
      BY <1>0, <1>10, PinSets DEF ResetAttendancePin
    <2>. QED
      BY <2>1, ShrinkingKeepsCap
  <1>. QED
    BY <1>1, <1>2, <1>4, <1>5, <1>6, <1>7, <1>8, <1>9, <1>10 DEF MembersNext, Switches

LEMMA CapInvInit == ASSUME MembersInit PROVE CapInv
  <1>1. \A h \in Handlers : ~Growing(h)
    BY DEF MembersInit, Growing, IdleHandler
  <1>2. Cardinality(Employees) <= Cap
    BY NoEmployeesAtFirst, MembershipAssumption
  <1>. QED
    BY <1>1, <1>2 DEF CapInv, Room

(* Whatever handlers do at once, the organisation keeps an active admin,   *)
(* its stored count of employees is right once no sync is under way, and   *)
(* the plan's cap holds, with the exceptions that MembersKept names        *)
(* (user.service.ts:176-191, 334-347, 527-548, 693-710, 734).              *)
THEOREM MembershipMembersKept == MembersSpec => []MembersKept
  <1>. DEFINE Inv == AdminInv /\ CountInv /\ CapInv
  <1>1. MembersInit => Inv
    BY AdminInvInit, CountInvInit, CapInvInit
  <1>2. MembersTypeInv /\ Inv /\ [MembersNext]_memberVars => Inv'
    BY AdminInvNext, CountInvNext, CapInvNext
  <1>3. Inv => MembersKept
    BY DEF AdminInv, CountInv, CountRight, CapInv, MembersKept, AdminRemains, CountAndCap
  <1>. HIDE DEF Inv
  <1>. QED
    BY <1>1, <1>2, <1>3, MembersTypeInvAlways, PTL DEF MembersSpec

-----------------------------------------------------------------------------
(* Whatever runs takes the steps of its own module, and the others stay.   *)
LEMMA PartsAlone ==
  /\ PartsSpec => Spec
  /\ PartsSpec => MembersSpec
  /\ PartsSpec => Lockout!Spec
  /\ PartsSpec => QrCodes!Spec
  /\ PartsSpec => Documents!Spec
  /\ PartsSpec => Holidays!Spec
  /\ PartsSpec => Pricing!Spec
  /\ PartsSpec => PlanCache!Spec
  <1>1. PartsInit => /\ Init /\ MembersInit /\ Lockout!Init /\ QrCodes!Init /\ Documents!Init
                     /\ Holidays!Init /\ Pricing!Init /\ PlanCache!Init
    BY DEF PartsInit
  <1>2. [PartsNext]_partsVars => [Next]_vars
    BY DEF PartsNext, partsVars
  <1>3. [PartsNext]_partsVars => [MembersNext]_memberVars
    BY DEF PartsNext, partsVars
  <1>4. [PartsNext]_partsVars => [Lockout!Next]_(Lockout!vars)
    BY DEF PartsNext, partsVars, otherVars, lockoutVars, Lockout!vars
  <1>5. [PartsNext]_partsVars => [QrCodes!Next]_(QrCodes!vars)
    BY DEF PartsNext, partsVars, otherVars, qrVars, QrCodes!vars
  <1>6. [PartsNext]_partsVars => [Documents!Next]_(Documents!vars)
    BY DEF PartsNext, partsVars, otherVars, documentVars, Documents!vars
  <1>7. [PartsNext]_partsVars => [Holidays!Next]_(Holidays!vars)
    BY DEF PartsNext, partsVars, otherVars, holidayVars, Holidays!vars
  <1>8. [PartsNext]_partsVars => [Pricing!Next]_(Pricing!vars)
    BY DEF PartsNext, partsVars, otherVars, pricingVars, Pricing!vars
  <1>9. [PartsNext]_partsVars => [PlanCache!Next]_(PlanCache!vars)
    BY DEF PartsNext, partsVars, otherVars, planVars, PlanCache!vars
  <1>. QED
    BY <1>1, <1>2, <1>3, <1>4, <1>5, <1>6, <1>7, <1>8, <1>9, PTL
       DEF PartsSpec, Spec, MembersSpec, Lockout!Spec, QrCodes!Spec, Documents!Spec,
           Holidays!Spec, Pricing!Spec, PlanCache!Spec

-----------------------------------------------------------------------------
(* The prices. An override that no change has overtaken has read what the  *)
(* row still says, the fee apart; a row the job has found is still expired *)
(* unless an override has written it; and the job serves no day to come.   *)

PriceFields == {"price", "expires", "cap", "lock"}

PricingInv ==
  /\ Pricing!TypeOK
  /\ \A c \in Pricing!InFlight : overriding[c].stale \/
       \A field \in PriceFields : overriding[c].read[field] = terms[field]
  /\ found => overtaken \/ Pricing!Expired(terms)
  /\ served <= priceDay /\ ran <= priceDay
  /\ Pricing!PricesKept

LEMMA PricingInvInit == Pricing!Init => PricingInv
  <1>. SUFFICES ASSUME Pricing!Init PROVE PricingInv
    OBVIOUS
  <1>1. Pricing!TypeOK
    <2>1. terms \in Pricing!Row /\ agreed \in Pricing!Row
      BY DEF Pricing!Init, Pricing!Row, Pricing!Locks
    <2>2. found \in BOOLEAN /\ {served, ran} \subseteq Pricing!Days \cup {Pricing!None}
      BY DEF Pricing!Init
    <2>3. priceDay \in Pricing!Days /\ made \in 0..MaxOverrides
      BY PartsAssumption DEF Pricing!Init, Pricing!Days
    <2>4. overriding \in [Handlers -> {Pricing!Idle} \cup Pricing!Override]
      BY DEF Pricing!Init
    <2>. QED
      BY <2>1, <2>2, <2>3, <2>4 DEF Pricing!TypeOK
  <1>2. Pricing!InFlight = {}
    BY DEF Pricing!Init, Pricing!InFlight
  <1>3. /\ served <= priceDay /\ ran <= priceDay
        /\ Pricing!PricesKept
    BY DEF Pricing!Init, Pricing!PricesKept, Pricing!PriceAsAgreed, Pricing!ExpiredReverted,
           Pricing!Expired, Pricing!None
  <1>. QED
    BY <1>1, <1>2, <1>3 DEF Pricing!Init, PricingInv

(* What the types say of an override in progress. *)
LEMMA OverrideFields ==
  ASSUME NEW o \in Pricing!Override
  PROVE  /\ o.read \in Pricing!Row /\ o.input \in Pricing!Input /\ o.stale \in BOOLEAN
         /\ o # Pricing!Idle
         /\ [o EXCEPT !.stale = TRUE] \in Pricing!Override
         /\ [o EXCEPT !.stale = TRUE].stale
  <1>1. o.op = "override" /\ Pricing!Idle.op = "idle"
    BY DEF Pricing!Override, Pricing!Idle
  <1>2. [o EXCEPT !.stale = TRUE] \in Pricing!Override /\ [o EXCEPT !.stale = TRUE].stale
    BY DEF Pricing!Override
  <1>. QED
    BY <1>1, <1>2 DEF Pricing!Override

LEMMA OverriddenTyped ==
  ASSUME NEW current \in Pricing!Row, NEW existing \in Pricing!Row, NEW asked \in Pricing!Input
  PROVE  Pricing!Overridden(current, existing, asked) \in Pricing!Row
  BY DEF Pricing!Overridden, Pricing!Or, Pricing!Row, Pricing!Input

LEMMA RevertedTyped ==
  ASSUME NEW r \in Pricing!Row
  PROVE  Pricing!Reverted(r) \in Pricing!Row /\ Pricing!Reverted(r).price = Pricing!None
  BY DEF Pricing!Reverted, Pricing!Row

(* Every override that is in progress still is, and is stale. *)
LEMMA OverlookedStale ==
  ASSUME Pricing!TypeOK, NEW c \in Handlers
  PROVE  IF overriding[c] = Pricing!Idle THEN Pricing!Overlooked[c] = Pricing!Idle
         ELSE Pricing!Overlooked[c] \in Pricing!Override /\ Pricing!Overlooked[c].stale
  BY OverrideFields DEF Pricing!Overlooked, Pricing!TypeOK

LEMMA PricingInvNext == PricingInv /\ [Pricing!Next]_(Pricing!vars) => PricingInv'
  <1>. SUFFICES ASSUME PricingInv, [Pricing!Next]_(Pricing!vars) PROVE PricingInv'
    OBVIOUS
  <1>0. /\ Pricing!TypeOK /\ Pricing!PriceAsAgreed /\ Pricing!ExpiredReverted
        /\ priceDay \in Int /\ served \in Int /\ ran \in Int
    BY PartsAssumption DEF PricingInv, Pricing!PricesKept, Pricing!TypeOK, Pricing!Days, Pricing!None
  <1>1. ASSUME NEW c \in Handlers, Pricing!OverrideRead(c) PROVE PricingInv'
    <2>1. PICK asked \in Pricing!Input : overriding' = [overriding EXCEPT ![c] =
            [op |-> "override", read |-> terms, input |-> asked, stale |-> FALSE]]
      BY <1>1 DEF Pricing!OverrideRead
    <2>. DEFINE new == [op |-> "override", read |-> terms, input |-> asked, stale |-> FALSE]
    <2>2. new \in Pricing!Override
      BY <1>0 DEF Pricing!Override, Pricing!TypeOK
    <2>. HIDE DEF new
    <2>4. Pricing!TypeOK'
      <3>1. overriding' \in [Handlers -> {Pricing!Idle} \cup Pricing!Override]
        BY <1>0, <2>1, <2>2 DEF new, Pricing!TypeOK
      <3>2. made' \in 0..MaxOverrides
        BY PartsAssumption, <1>0, <1>1 DEF Pricing!OverrideRead, Pricing!TypeOK
      <3>. QED
        BY <1>0, <1>1, <3>1, <3>2 DEF Pricing!OverrideRead, Pricing!TypeOK
    <2>3. \A d \in Handlers : overriding'[d] # Pricing!Idle =>
            overriding'[d].stale \/ \A field \in PriceFields : overriding'[d].read[field] = terms[field]
      BY <1>0, <2>1 DEF PricingInv, Pricing!TypeOK, Pricing!InFlight
    <2>. QED
      BY <1>1, <2>4, <2>3 DEF Pricing!OverrideRead, PricingInv, Pricing!InFlight, Pricing!Expired,
         Pricing!PricesKept, Pricing!PriceAsAgreed, Pricing!ExpiredReverted
  <1>2. ASSUME NEW c \in Handlers, Pricing!OverrideWrite(c) PROVE PricingInv'
    <2>. DEFINE before == overriding[c]
    <2>1. /\ before # Pricing!Idle /\ before.read \in Pricing!Row /\ before.input \in Pricing!Input
          /\ before.stale \in BOOLEAN
      BY <1>0, <1>2, OverrideFields DEF Pricing!OverrideWrite, Pricing!TypeOK
    <2>2. terms' \in Pricing!Row /\ agreed' \in Pricing!Row
      BY <1>0, <1>2, <2>1, OverriddenTyped DEF Pricing!OverrideWrite, Pricing!TypeOK
    <2>3. \A d \in Handlers :
            overriding'[d] = IF d = c THEN Pricing!Idle ELSE Pricing!Overlooked[d]
      BY <1>2 DEF Pricing!OverrideWrite, Pricing!Overlooked
    <2>4. Pricing!TypeOK'
      <3>1. overriding' \in [Handlers -> {Pricing!Idle} \cup Pricing!Override]
        BY <1>0, <1>2, <2>3, OverlookedStale DEF Pricing!OverrideWrite, Pricing!TypeOK, Pricing!Overlooked
      <3>2. served' = Pricing!None
        BY <1>2 DEF Pricing!OverrideWrite
      <3>. QED
        BY <1>0, <1>2, <2>2, <3>1, <3>2 DEF Pricing!OverrideWrite, Pricing!TypeOK
    <2>5. \A d \in Handlers : overriding'[d] # Pricing!Idle => overriding'[d].stale
      BY <1>0, <2>3, OverlookedStale
    <2>6. Pricing!PriceAsAgreed'
      <3>1. SUFFICES ASSUME ~crossed, ~before.stale, ~overtaken, terms = agreed
                     PROVE  Pricing!Overridden(terms, before.read, before.input)
                            = Pricing!Overridden(terms, terms, before.input)
        BY <1>0, <1>2 DEF Pricing!OverrideWrite, Pricing!PriceAsAgreed
      <3>2. \A field \in PriceFields : before.read[field] = terms[field]
        BY <1>2, <2>1, <3>1 DEF PricingInv, Pricing!InFlight
      <3>. QED
        BY <3>2 DEF PriceFields, Pricing!Overridden, Pricing!Or
    <2>7. served' = -1 /\ ran' = ran /\ priceDay' = priceDay /\ (found' => overtaken')
      BY <1>2 DEF Pricing!OverrideWrite, Pricing!None
    <2>. QED
      BY PartsAssumption, <1>0, <2>4, <2>5, <2>6, <2>7
         DEF PricingInv, Pricing!InFlight, Pricing!PricesKept, Pricing!ExpiredReverted,
             Pricing!TypeOK, Pricing!Days
  <1>3. ASSUME NEW c \in Handlers, Pricing!OverrideFails(c) PROVE PricingInv'
    <2>1. Pricing!TypeOK'
      BY <1>0, <1>3 DEF Pricing!OverrideFails, Pricing!TypeOK
    <2>. QED
      BY <1>0, <1>3, <2>1 DEF Pricing!OverrideFails, PricingInv, Pricing!InFlight, Pricing!TypeOK,
         Pricing!Expired, Pricing!PricesKept, Pricing!PriceAsAgreed, Pricing!ExpiredReverted
  <1>4. CASE Pricing!WaiveSetupFee
    <2>1. terms' \in Pricing!Row /\ agreed' \in Pricing!Row
      BY <1>0, <1>4 DEF Pricing!WaiveSetupFee, Pricing!TypeOK, Pricing!Row
    <2>2. \A field \in PriceFields : terms'[field] = terms[field]
      BY <1>0, <1>4 DEF Pricing!WaiveSetupFee, PriceFields, Pricing!TypeOK, Pricing!Row
    <2>3. Pricing!TypeOK'
      BY <1>0, <1>4, <2>1 DEF Pricing!WaiveSetupFee, Pricing!TypeOK
    <2>4. Pricing!Expired(terms)' <=> Pricing!Expired(terms)
      BY <1>4, <2>2 DEF Pricing!WaiveSetupFee, Pricing!Expired, PriceFields
    <2>. QED
      BY <1>0, <1>4, <2>2, <2>3, <2>4 DEF Pricing!WaiveSetupFee, PricingInv, Pricing!InFlight,
         Pricing!PricesKept, Pricing!PriceAsAgreed, Pricing!ExpiredReverted
  <1>5. CASE Pricing!JobFind
    <2>1. Pricing!TypeOK'
      BY <1>0, <1>5 DEF Pricing!JobFind, Pricing!TypeOK, Pricing!Expired
    <2>2. Pricing!Expired(terms)' <=> Pricing!Expired(terms)
      BY <1>5 DEF Pricing!JobFind, Pricing!Expired
    <2>3. (found' => Pricing!Expired(terms)) /\ (served' = priceDay => ~Pricing!Expired(terms))
      BY <1>0, <1>5 DEF Pricing!JobFind, Pricing!ExpiredReverted
    <2>4. served' <= priceDay /\ ran' <= priceDay
      BY <1>0, <1>5 DEF Pricing!JobFind, PricingInv
    <2>. QED
      BY <1>0, <1>5, <2>1, <2>2, <2>3, <2>4 DEF Pricing!JobFind, PricingInv, Pricing!InFlight,
         Pricing!PricesKept, Pricing!PriceAsAgreed, Pricing!ExpiredReverted
  <1>6. CASE Pricing!JobRevert
    <2>1. terms' \in Pricing!Row /\ agreed' \in Pricing!Row /\ ~Pricing!Expired(terms)'
      BY <1>0, <1>6, RevertedTyped DEF Pricing!JobRevert, Pricing!TypeOK, Pricing!Expired
    <2>2. Pricing!TypeOK'
      BY <1>0, <1>6, <2>1, OverlookedStale
         DEF Pricing!JobRevert, Pricing!TypeOK, Pricing!Overlooked
    <2>3. \A d \in Handlers : overriding'[d] # Pricing!Idle => overriding'[d].stale
      BY <1>0, <1>6, OverlookedStale DEF Pricing!JobRevert
    <2>4. Pricing!PriceAsAgreed'
      BY <1>0, <1>6 DEF PricingInv, Pricing!JobRevert, Pricing!PriceAsAgreed, Pricing!Expired
    <2>. QED
      BY <1>0, <1>6, <2>1, <2>2, <2>3, <2>4 DEF Pricing!JobRevert, PricingInv, Pricing!InFlight,
         Pricing!PricesKept, Pricing!ExpiredReverted
  <1>7. CASE Pricing!JobFails
    <2>1. Pricing!TypeOK'
      BY <1>0, <1>7 DEF Pricing!JobFails, Pricing!TypeOK
    <2>. QED
      BY <1>0, <1>7, <2>1 DEF Pricing!JobFails, PricingInv, Pricing!InFlight,
         Pricing!Expired, Pricing!PricesKept, Pricing!PriceAsAgreed, Pricing!ExpiredReverted
  <1>8. CASE Pricing!NextDay
    <2>1. priceDay' = priceDay + 1 /\ priceDay' \in Pricing!Days
      BY PartsAssumption, <1>0, <1>8 DEF Pricing!NextDay, Pricing!TypeOK, Pricing!Days
    <2>2. Pricing!TypeOK'
      BY <1>0, <1>8, <2>1 DEF Pricing!NextDay, Pricing!TypeOK
    <2>3. found => overtaken \/ Pricing!Expired(terms)'
      BY <1>0, <1>8, <2>1 DEF Pricing!NextDay, PricingInv, Pricing!Expired, Pricing!TypeOK,
         Pricing!Row, Pricing!Days, Pricing!None
    <2>4. served' <= priceDay' /\ ran' <= priceDay' /\ served' # priceDay'
      BY <1>0, <1>8, <2>1 DEF Pricing!NextDay, PricingInv
    <2>. QED
      BY <1>0, <1>8, <2>2, <2>3, <2>4 DEF Pricing!NextDay, PricingInv, Pricing!InFlight,
         Pricing!PricesKept, Pricing!PriceAsAgreed, Pricing!ExpiredReverted
  <1>9. CASE UNCHANGED Pricing!vars
    BY <1>9 DEF Pricing!vars, PricingInv, Pricing!InFlight, Pricing!TypeOK,
       Pricing!Expired, Pricing!PricesKept, Pricing!PriceAsAgreed, Pricing!ExpiredReverted
  <1>. QED
    BY <1>1, <1>2, <1>3, <1>4, <1>5, <1>6, <1>7, <1>8, <1>9 DEF Pricing!Next

(* The prices by themselves: the price in force is the one agreed. *)
THEOREM PricingKept == Pricing!Spec => []Pricing!PricesKept
  <1>1. PricingInv => Pricing!PricesKept
    BY DEF PricingInv
  <1>. QED
    BY PricingInvInit, PricingInvNext, <1>1, PTL DEF Pricing!Spec

(* However overrides and the job overtake one another, the price is the    *)
(* one agreed and is reverted when its term is over, where no override     *)
(* wrote over what had changed since it had read.                          *)
THEOREM PartsPricesKept == PartsSpec => []PricesKept
  <1>1. Pricing!PricesKept => PricesKept
    BY DEF PricesKept
  <1>. QED
    BY <1>1, PartsAlone, PricingKept, PTL

-----------------------------------------------------------------------------
(* The lockout. An entry locks when its count is at the limit, for the     *)
(* duration from its last failure; and where one store has seen every      *)
(* failure, the guesses of a key that is not locked are those counted and  *)
(* those still to be recorded, while a locked key lets no new request in.  *)

SoundEntry(e) ==
  /\ e \in Lockout!Entry
  /\ e.until # 0 <=> e.count >= MaxAttempts
  /\ e.until # 0 => e.until = e.at + Duration

EntriesSound ==
  /\ Lockout!TypeOK
  /\ SoundEntry(redis) /\ SoundEntry(memory)
  /\ \A a \in Attempts : attempt[a].op = "set" => withRedis /\ SoundEntry(attempt[a].seen)

(* A promise that is not over yet is of an entry that lasts as long; of a  *)
(* failure stored over another in Redis, only that the entry lives on.     *)
PromiseKept ==
  /\ promised.redis # 0 => promised.redis > tick
  /\ promised.memory # 0 => promised.memory > tick
  /\ promised.memory <= memory.until
  /\ raced \/ promised.redis <= redis.until
  /\ promised.redis # 0 => redis # Lockout!None /\ promised.redis <= redis.at + Duration
  /\ promised.redis <= tick + Duration

OneStore ==
  /\ withRedis => fellBack \/ memory = Lockout!None
  /\ ~withRedis => redis = Lockout!None

Store == IF withRedis THEN redis ELSE memory
Allowance(e) == IF e.count >= MaxAttempts THEN 0 ELSE e.count
Verifying == {a \in Attempts : attempt[a].op = "verify"}
Recording == {a \in Attempts : attempt[a].op \in {"record", "set"}}

GuessesBounded == raced \/ fellBack \/
  IF Lockout!Locked(Store)
  THEN guesses + Cardinality(Verifying) <= MaxAttempts - 1 + Cardinality(Attempts)
  ELSE guesses <= Allowance(Store) + Cardinality(Recording)

(* The instance has an operator of its own for the size of a set. *)
LEMMA LockoutCardinality == \A S : Lockout!Cardinality(S) = Cardinality(S)
  BY DEF Lockout!Cardinality, Cardinality

LEMMA NoneSound ==
  ASSUME tick \in Nat
  PROVE  SoundEntry(Lockout!None) /\ ~Lockout!Locked(Lockout!None)
  BY PartsAssumption DEF SoundEntry, Lockout!None, Lockout!Entry, Lockout!Locked

LEMMA EntryFields ==
  ASSUME NEW e \in Lockout!Entry
  PROVE  e.count \in Nat /\ e.until \in Nat /\ e.at \in Int
  BY DEF Lockout!Entry

LEMMA LockoutTypes ==
  ASSUME Lockout!TypeOK
  PROVE  /\ tick \in Nat /\ guesses \in Nat
         /\ promised \in [redis : Nat, memory : Nat]
         /\ promised.redis \in Nat /\ promised.memory \in Nat
         /\ redis \in Lockout!Entry /\ memory \in Lockout!Entry
         /\ {raced, fellBack, withRedis} \subseteq BOOLEAN
  BY TimeAssumption DEF Lockout!TypeOK

(* What a request is in the middle of. *)
LEMMA AttemptFields ==
  ASSUME Lockout!TypeOK, NEW a \in Attempts
  PROVE  /\ attempt[a] = Lockout!Idle => attempt[a].op = "idle"
         /\ attempt[a].op = "set" => attempt[a].seen \in Lockout!Entry
  BY DEF Lockout!TypeOK, Lockout!AttemptStates, Lockout!Idle

(* A failure leaves a sound entry, and a locked one if it was or if the    *)
(* limit is reached; otherwise it counts. *)
LEMMA FailedLocks ==
  ASSUME NEW e, SoundEntry(e), tick \in Nat
  PROVE  LET new == Lockout!Failed(e) IN
         /\ SoundEntry(new)
         /\ IF e.count + 1 >= MaxAttempts THEN Lockout!Locked(new)
            ELSE ~Lockout!Locked(new) /\ new.count = e.count + 1 /\ new.count < MaxAttempts
         /\ Lockout!Locked(e) => Lockout!Locked(new)
  <1>. DEFINE new == Lockout!Failed(e)
              count == Lockout!Least(e.count + 1, Lockout!CountCap)
  <1>1. /\ e.count \in Nat /\ e.until \in Nat /\ e.at \in Int
        /\ e.until # 0 <=> e.count >= MaxAttempts
        /\ MaxAttempts \in Nat /\ MaxAttempts > 0 /\ Duration \in Nat /\ Duration > 0
    BY PartsAssumption, EntryFields DEF SoundEntry
  <1>2. /\ count \in Nat
        /\ count >= MaxAttempts <=> e.count + 1 >= MaxAttempts
        /\ count < MaxAttempts => count = e.count + 1
    BY <1>1 DEF Lockout!Least, Lockout!CountCap
  <1>3. /\ new = [count |-> count, until |-> new.until, at |-> tick]
        /\ new.until = IF count >= MaxAttempts THEN tick + Duration ELSE e.until
        /\ new.count = count /\ new.at = tick
    BY DEF Lockout!Failed
  <1>. HIDE DEF new, count
  <1>4. new.until \in Nat /\ (new.until # 0 <=> count >= MaxAttempts)
    BY <1>1, <1>2, <1>3
  <1>5. new \in Lockout!Entry
    BY <1>2, <1>3, <1>4 DEF Lockout!Entry
  <1>6. SoundEntry(new)
    BY <1>1, <1>2, <1>3, <1>4, <1>5 DEF SoundEntry
  <1>7. /\ e.until > tick => new.until > tick
        /\ IF e.count + 1 >= MaxAttempts THEN new.until > tick
           ELSE ~(new.until > tick) /\ new.count = e.count + 1 /\ new.count < MaxAttempts
    BY <1>1, <1>2, <1>3, <1>4
  <1>. QED
    BY <1>6, <1>7 DEF Lockout!Locked, new

LEMMA GuessCapType == Lockout!GuessCap \in Nat
  <1>1. Cardinality(Attempts) \in Nat /\ MaxAttempts \in Nat
    BY FS_CardinalityType, PartsAssumption
  <1>. QED
    BY <1>1, LockoutCardinality DEF Lockout!GuessCap

LEMMA EntriesSoundInit == Lockout!Init => EntriesSound /\ PromiseKept /\ OneStore /\ GuessesBounded
  <1>. SUFFICES ASSUME Lockout!Init
                PROVE  EntriesSound /\ PromiseKept /\ OneStore /\ GuessesBounded
    OBVIOUS
  <1>1. Lockout!TypeOK
    <2>1. tick \in Nat /\ tick \in 0..LastTick
      BY TimeAssumption DEF Lockout!Init
    <2>2. {redis, memory} \subseteq Lockout!Entry
      BY <2>1, NoneSound DEF Lockout!Init, SoundEntry
    <2>3. attempt \in [Attempts -> Lockout!AttemptStates]
      BY DEF Lockout!Init, Lockout!AttemptStates
    <2>4. {raced, fellBack} \subseteq BOOLEAN
      BY DEF Lockout!Init
    <2>. QED
      BY <2>1, <2>2, <2>3, <2>4 DEF Lockout!Init, Lockout!TypeOK
  <1>2. \A a \in Attempts : attempt[a].op = "idle"
    BY DEF Lockout!Init, Lockout!Idle
  <1>3. EntriesSound
    BY <1>1, <1>2, NoneSound DEF Lockout!Init, EntriesSound
  <1>4. Recording = {} /\ Verifying = {}
    BY <1>2 DEF Recording, Verifying
  <1>5. GuessesBounded
    BY <1>4, NoneSound, FS_EmptySet, PartsAssumption
       DEF Lockout!Init, GuessesBounded, Store, Allowance, Lockout!None
  <1>6. PromiseKept
    <2>1. promised.redis = 0 /\ promised.memory = 0 /\ tick = 0 /\ redis.until = 0 /\ memory.until = 0
      BY DEF Lockout!Init, Lockout!None
    <2>. QED
      BY <2>1, PartsAssumption DEF PromiseKept
  <1>. QED
    BY <1>3, <1>5, <1>6 DEF Lockout!Init, OneStore

LEMMA EntriesSoundNext == EntriesSound /\ [Lockout!Next]_(Lockout!vars) => EntriesSound'
  <1>. SUFFICES ASSUME EntriesSound, [Lockout!Next]_(Lockout!vars) PROVE EntriesSound'
    OBVIOUS
  <1>0. /\ Lockout!TypeOK /\ SoundEntry(redis) /\ SoundEntry(memory) /\ tick \in Nat
        /\ SoundEntry(Lockout!None)
        /\ \A a \in Attempts : attempt[a].op = "set" => withRedis /\ SoundEntry(attempt[a].seen)
    BY LockoutTypes, NoneSound DEF EntriesSound
  <1>1. ASSUME NEW a \in Attempts, NEW state \in Lockout!AttemptStates,
               Lockout!Go(a, state), UNCHANGED <<withRedis, guard>>,
               state.op = "set" => withRedis /\ SoundEntry(state.seen),
               SoundEntry(redis)', SoundEntry(memory)', tick' \in 0..LastTick,
               guesses' \in Nat, promised' \in [redis : Nat, memory : Nat], {raced', fellBack'} \subseteq BOOLEAN
        PROVE  EntriesSound'
    <2>1. attempt' \in [Attempts -> Lockout!AttemptStates]
      BY <1>0, <1>1 DEF Lockout!TypeOK, Lockout!Go
    <2>2. {redis', memory'} \subseteq Lockout!Entry
      BY <1>1 DEF SoundEntry
    <2>3. Lockout!TypeOK'
      BY <1>0, <1>1, <2>1, <2>2 DEF Lockout!TypeOK
    <2>4. \A b \in Attempts : attempt'[b] = IF b = a THEN state ELSE attempt[b]
      BY <1>0, <1>1 DEF Lockout!TypeOK, Lockout!Go
    <2>. QED
      BY <1>0, <1>1, <2>3, <2>4 DEF EntriesSound
  <1>2. /\ [op |-> "verify"] \in Lockout!AttemptStates /\ [op |-> "record"] \in Lockout!AttemptStates
        /\ [op |-> "clear"] \in Lockout!AttemptStates /\ Lockout!Idle \in Lockout!AttemptStates
        /\ Lockout!Idle.op = "idle"
        /\ \A e \in Lockout!Entry : [op |-> "set", seen |-> e] \in Lockout!AttemptStates
    BY DEF Lockout!AttemptStates, Lockout!Idle
  <1>3. guesses \in Nat /\ promised \in [redis : Nat, memory : Nat] /\ {raced, fellBack} \subseteq BOOLEAN /\ tick \in 0..LastTick
    BY <1>0 DEF Lockout!TypeOK
  <1>4. Lockout!GuessCap \in Nat
    BY GuessCapType
  <1>5. ASSUME NEW a \in Attempts, Lockout!CheckRedis(a) \/ Lockout!Right(a) \/ Lockout!Abandon(a)
        PROVE  EntriesSound'
    BY <1>0, <1>1, <1>2, <1>3, <1>5
       DEF Lockout!CheckRedis, Lockout!Right, Lockout!Abandon, Lockout!history
  <1>6. ASSUME NEW a \in Attempts, Lockout!CheckMemory(a) PROVE EntriesSound'
    BY <1>0, <1>1, <1>2, <1>3, <1>6 DEF Lockout!CheckMemory, Lockout!FallBack
  <1>7. ASSUME NEW a \in Attempts, Lockout!Wrong(a) PROVE EntriesSound'
    <2>1. guesses' \in Nat
      BY <1>3, <1>4, <1>7 DEF Lockout!Wrong, Lockout!Least
    <2>. QED
      BY <1>0, <1>1, <1>2, <1>3, <1>7, <2>1 DEF Lockout!Wrong
  <1>8. ASSUME NEW a \in Attempts, Lockout!RecordGet(a) PROVE EntriesSound'
    <2>. DEFINE state == [op |-> "set", seen |-> redis]
    <2>1. state \in Lockout!AttemptStates /\ state.seen = redis
      BY <1>0, <1>2 DEF SoundEntry
    <2>. QED
      BY <1>0, <1>1, <1>3, <1>8, <2>1 DEF Lockout!RecordGet, Lockout!history
  <1>9. ASSUME NEW a \in Attempts, Lockout!RecordSet(a) PROVE EntriesSound'
    <2>1. SoundEntry(redis)'
      BY <1>0, <1>9, FailedLocks DEF Lockout!RecordSet
    <2>2. promised' \in [redis : Nat, memory : Nat]
      <3>1. redis'.until \in Nat
        BY <2>1, EntryFields DEF SoundEntry
      <3>. QED
        BY <1>3, <1>9, <3>1 DEF Lockout!RecordSet, Lockout!Promised
    <2>. QED
      BY <1>0, <1>1, <1>2, <1>3, <1>9, <2>1, <2>2 DEF Lockout!RecordSet
  <1>10. ASSUME NEW a \in Attempts, Lockout!RecordMemory(a) PROVE EntriesSound'
    <2>1. SoundEntry(memory)'
      BY <1>0, <1>10, FailedLocks DEF Lockout!RecordMemory
    <2>2. promised' \in [redis : Nat, memory : Nat]
      <3>1. memory'.until \in Nat
        BY <2>1, EntryFields DEF SoundEntry
      <3>. QED
        BY <1>3, <1>10, <3>1 DEF Lockout!RecordMemory, Lockout!Promised
    <2>. QED
      BY <1>0, <1>1, <1>2, <1>3, <1>10, <2>1, <2>2 DEF Lockout!RecordMemory, Lockout!FallBack
  <1>11. ASSUME NEW a \in Attempts, Lockout!ClearRedis(a) \/ Lockout!ClearMemory(a)
         PROVE  EntriesSound'
    <2>1. /\ guesses' = 0 /\ promised' \in [redis : Nat, memory : Nat]
          /\ {raced', fellBack'} \subseteq BOOLEAN
      <3>1. CASE Lockout!ClearRedis(a)
        BY <1>3, <3>1 DEF Lockout!ClearRedis
      <3>2. CASE Lockout!ClearMemory(a)
        BY <1>3, <3>2 DEF Lockout!ClearMemory, Lockout!FallBack
      <3>. QED
        BY <1>11, <3>1, <3>2
    <2>2. SoundEntry(redis)' /\ SoundEntry(memory)'
      BY <1>0, <1>11 DEF Lockout!ClearRedis, Lockout!ClearMemory
    <2>. QED
      BY <1>0, <1>1, <1>2, <1>3, <1>11, <2>1, <2>2 DEF Lockout!ClearRedis, Lockout!ClearMemory
  <1>12. CASE Lockout!Tick
    <2>1. SoundEntry(redis)' /\ tick' \in 0..LastTick
      BY <1>0, <1>3, <1>12, TimeAssumption DEF Lockout!Tick
    <2>2. /\ guesses' \in Nat /\ promised' \in [redis : Nat, memory : Nat]
          /\ {raced', fellBack'} \subseteq BOOLEAN
      <3>1. Lockout!Due(promised.redis) \in Nat /\ Lockout!Due(promised.memory) \in Nat
        BY <1>0, LockoutTypes DEF Lockout!Due
      <3>. QED
        BY <1>3, <1>12, <3>1 DEF Lockout!Tick
    <2>. QED
      BY <1>0, <1>12, <2>1, <2>2 DEF Lockout!Tick, EntriesSound, Lockout!TypeOK, SoundEntry
  <1>13. CASE Lockout!Sweep
    BY <1>0, <1>13 DEF Lockout!Sweep, EntriesSound, Lockout!TypeOK, SoundEntry
  <1>14. CASE UNCHANGED Lockout!vars
    BY <1>0, <1>14 DEF Lockout!vars, EntriesSound, Lockout!TypeOK
  <1>. QED
    BY <1>5, <1>6, <1>7, <1>8, <1>9, <1>10, <1>11, <1>12, <1>13, <1>14 DEF Lockout!Next

LEMMA OneStoreNext == EntriesSound /\ OneStore /\ [Lockout!Next]_(Lockout!vars) => OneStore'
  <1>. SUFFICES ASSUME EntriesSound, OneStore, [Lockout!Next]_(Lockout!vars) PROVE OneStore'
    OBVIOUS
  <1>. USE DEF OneStore
  <1>1. \A a \in Attempts : attempt[a].op = "set" => withRedis
    BY DEF EntriesSound
  <1>2. ASSUME NEW a \in Attempts,
               Lockout!CheckRedis(a) \/ Lockout!Wrong(a) \/ Lockout!Right(a)
               \/ Lockout!Abandon(a) \/ Lockout!RecordGet(a)
        PROVE  OneStore'
    BY <1>2 DEF Lockout!CheckRedis, Lockout!Wrong, Lockout!Right, Lockout!Abandon,
       Lockout!RecordGet, Lockout!history
  <1>3. ASSUME NEW a \in Attempts,
               Lockout!CheckMemory(a) \/ Lockout!RecordMemory(a) \/ Lockout!ClearMemory(a)
        PROVE  OneStore'
    <2>1. withRedis' = withRedis /\ redis' = redis /\ fellBack' = (fellBack \/ withRedis)
      BY <1>3 DEF Lockout!CheckMemory, Lockout!RecordMemory, Lockout!ClearMemory, Lockout!FallBack
    <2>. QED
      BY <2>1
  <1>4. ASSUME NEW a \in Attempts, Lockout!RecordSet(a) \/ Lockout!ClearRedis(a) PROVE OneStore'
    BY <1>1, <1>4 DEF Lockout!RecordSet, Lockout!ClearRedis
  <1>5. CASE Lockout!Tick
    BY <1>5 DEF Lockout!Tick
  <1>6. CASE Lockout!Sweep
    BY <1>6 DEF Lockout!Sweep
  <1>7. CASE UNCHANGED Lockout!vars
    BY <1>7 DEF Lockout!vars
  <1>. QED
    BY <1>2, <1>3, <1>4, <1>5, <1>6, <1>7 DEF Lockout!Next

(* A tick that drops no entry, and ends no lock of the map, ends no lock.  *)
LEMMA TickKeepsLocks ==
  ASSUME EntriesSound, Lockout!Tick, redis' = redis, ~Lockout!Ends(memory)
  PROVE  /\ Lockout!Locked(redis)' <=> Lockout!Locked(redis)
         /\ Lockout!Locked(memory)' <=> Lockout!Locked(memory)
  <1>1. /\ tick \in Nat /\ tick' = tick + 1 /\ memory' = memory
        /\ redis.until \in Nat /\ redis.at \in Int /\ memory.until \in Nat /\ Duration \in Nat
        /\ redis.until # 0 => redis.until = redis.at + Duration
    BY LockoutTypes, EntryFields, PartsAssumption DEF EntriesSound, Lockout!Tick, SoundEntry
  <1>2. redis # Lockout!None => ~(redis.at + Duration <= tick + 1)
    BY DEF Lockout!Tick, Lockout!Dies
  <1>3. redis = Lockout!None => redis.until = 0
    BY DEF Lockout!None
  <1>4. memory.until # tick + 1
    BY DEF Lockout!Ends
  <1>. QED
    BY <1>1, <1>2, <1>3, <1>4 DEF Lockout!Locked

(* What the sweep drops is locked no more. *)
LEMMA SweptUnlocked ==
  ASSUME EntriesSound, Lockout!Sweep
  PROVE  ~Lockout!Locked(memory)
  <1>1. /\ tick \in Nat /\ memory.until \in Nat /\ memory.at \in Int
        /\ Duration \in Nat /\ IdleTTL \in Nat /\ IdleTTL >= Duration
        /\ memory.until # 0 => memory.until = memory.at + Duration
    BY LockoutTypes, EntryFields, PartsAssumption DEF EntriesSound, SoundEntry
  <1>2. memory.until < tick \/ tick - memory.at > IdleTTL
    BY DEF Lockout!Sweep, Lockout!LoginSwept, Lockout!ScanSwept
  <1>. QED
    BY <1>1, <1>2 DEF Lockout!Locked

LEMMA PromiseKeptNext == EntriesSound /\ PromiseKept /\ [Lockout!Next]_(Lockout!vars) => PromiseKept'
  <1>. SUFFICES ASSUME EntriesSound, PromiseKept, [Lockout!Next]_(Lockout!vars) PROVE PromiseKept'
    OBVIOUS
  <1>0. /\ tick \in Nat /\ SoundEntry(redis) /\ SoundEntry(memory)
        /\ promised \in [redis : Nat, memory : Nat]
        /\ promised.redis \in Nat /\ promised.memory \in Nat
        /\ \A a \in Attempts : attempt[a].op = "set" => SoundEntry(attempt[a].seen)
    BY LockoutTypes DEF EntriesSound
  <1>1. /\ redis.until \in Nat /\ memory.until \in Nat /\ redis.at \in Int /\ memory.at \in Int
        /\ Duration \in Nat /\ Duration > 0
    BY <1>0, PartsAssumption, EntryFields DEF SoundEntry
  <1>2. ASSUME NEW e, SoundEntry(e)
        PROVE  LET new == Lockout!Failed(e) IN
               /\ SoundEntry(new) /\ new.until \in Nat /\ new.at = tick /\ new # Lockout!None
               /\ Lockout!Locked(new) => new.until = tick + Duration
               /\ ~Lockout!Locked(new) => ~Lockout!Locked(e)
    <2>. DEFINE new == Lockout!Failed(e)
    <2>1. SoundEntry(new) /\ (Lockout!Locked(e) => Lockout!Locked(new))
      BY <1>0, <1>2, FailedLocks
    <2>2. new.at = tick
      BY DEF Lockout!Failed
    <2>3. new.until \in Nat /\ (new.until # 0 => new.until = new.at + Duration)
      BY <2>1, EntryFields DEF SoundEntry
    <2>. HIDE DEF new
    <2>4. new # Lockout!None
      BY <1>0, <2>2 DEF Lockout!None
    <2>5. Lockout!Locked(new) => new.until = tick + Duration
      BY <1>0, <2>2, <2>3 DEF Lockout!Locked
    <2>. QED
      BY <2>1, <2>2, <2>3, <2>4, <2>5 DEF new
  <1>3. ASSUME NEW a \in Attempts,
               Lockout!CheckRedis(a) \/ Lockout!Wrong(a) \/ Lockout!Right(a)
               \/ Lockout!Abandon(a) \/ Lockout!RecordGet(a)
        PROVE  PromiseKept'
    BY <1>3 DEF Lockout!CheckRedis, Lockout!Wrong, Lockout!Right, Lockout!Abandon,
       Lockout!RecordGet, Lockout!history, PromiseKept
  <1>4. ASSUME NEW a \in Attempts, Lockout!CheckMemory(a) PROVE PromiseKept'
    <2>1. promised.memory = 0
      BY <1>0, <1>1, <1>4 DEF Lockout!CheckMemory, PromiseKept, Lockout!Locked
    <2>2. memory'.until \in Nat
      BY <1>1, <1>4 DEF Lockout!CheckMemory, Lockout!None
    <2>. QED
      BY <1>4, <2>1, <2>2 DEF Lockout!CheckMemory, PromiseKept
  <1>5. ASSUME NEW a \in Attempts, Lockout!RecordSet(a) PROVE PromiseKept'
    <2>. DEFINE seen == attempt[a].seen
    <2>1. SoundEntry(seen) /\ redis' = Lockout!Failed(seen) /\ tick' = tick /\ memory' = memory
      BY <1>0, <1>5 DEF Lockout!RecordSet
    <2>2. /\ redis'.until \in Nat /\ redis'.at = tick /\ redis' # Lockout!None
          /\ Lockout!Locked(redis') => redis'.until = tick + Duration
          /\ ~Lockout!Locked(redis') => ~Lockout!Locked(seen)
      BY <1>2, <2>1
    <2>3. /\ promised'.redis = IF Lockout!Locked(redis') THEN redis'.until ELSE promised.redis
          /\ promised'.memory = promised.memory
          /\ raced' = (raced \/ seen # redis)
      BY <1>0, <1>5 DEF Lockout!RecordSet, Lockout!Promised
    <2>. HIDE DEF seen
    <2>4. promised.redis <= redis'.at + Duration
      BY <1>0, <1>1, <2>2 DEF PromiseKept
    <2>5. promised'.redis # 0 => promised'.redis > tick
      BY <1>0, <1>1, <2>2, <2>3 DEF PromiseKept, Lockout!Locked
    <2>6. promised'.redis <= redis'.at + Duration /\ promised'.redis <= tick + Duration
      BY <1>0, <1>1, <2>2, <2>3, <2>4 DEF Lockout!Locked
    <2>7. raced' \/ promised'.redis <= redis'.until
      <3>1. SUFFICES ASSUME ~raced, seen = redis PROVE promised'.redis <= redis'.until
        BY <2>3
      <3>2. promised.redis <= redis.until
        BY <3>1 DEF PromiseKept
      <3>. QED
        BY <1>0, <1>1, <2>2, <2>3, <2>5, <3>1, <3>2 DEF Lockout!Locked
    <2>. QED
      BY <2>1, <2>2, <2>3, <2>5, <2>6, <2>7 DEF PromiseKept
  <1>6. ASSUME NEW a \in Attempts, Lockout!RecordMemory(a) PROVE PromiseKept'
    <2>1. memory' = Lockout!Failed(memory) /\ tick' = tick /\ redis' = redis /\ raced' = raced
      BY <1>6 DEF Lockout!RecordMemory
    <2>2. /\ memory'.until \in Nat
          /\ Lockout!Locked(memory') => memory'.until = tick + Duration
          /\ ~Lockout!Locked(memory') => ~Lockout!Locked(memory)
      BY <1>0, <1>2, <2>1
    <2>3. /\ promised'.memory = IF Lockout!Locked(memory') THEN memory'.until ELSE promised.memory
          /\ promised'.redis = promised.redis
      BY <1>0, <1>6 DEF Lockout!RecordMemory, Lockout!Promised
    <2>4. /\ promised'.memory # 0 => promised'.memory > tick
          /\ promised'.memory <= memory'.until
      BY <1>0, <1>1, <2>2, <2>3 DEF PromiseKept, Lockout!Locked
    <2>. QED
      BY <2>1, <2>3, <2>4 DEF PromiseKept
  <1>7. ASSUME NEW a \in Attempts, Lockout!ClearRedis(a) PROVE PromiseKept'
    BY <1>0, <1>1, <1>7 DEF Lockout!ClearRedis, PromiseKept, Lockout!None
  <1>8. ASSUME NEW a \in Attempts, Lockout!ClearMemory(a) PROVE PromiseKept'
    BY <1>0, <1>1, <1>8 DEF Lockout!ClearMemory, PromiseKept, Lockout!None
  <1>9. CASE Lockout!Tick
    <2>1. /\ tick' = tick + 1 /\ memory' = memory
          /\ promised'.redis = Lockout!Due(promised.redis)
          /\ promised'.memory = Lockout!Due(promised.memory)
      BY <1>9 DEF Lockout!Tick
    <2>6. raced' = (raced /\ redis' = redis)
      BY <1>9 DEF Lockout!Tick
    <2>7. redis' = redis \/ (redis' = Lockout!None /\ redis.at + Duration <= tick + 1)
      <3>1. redis' = IF redis # Lockout!None /\ Lockout!Dies(redis) <= tick + 1
                     THEN Lockout!None ELSE redis
        BY <1>9, Zenon DEF Lockout!Tick
      <3>. QED
        BY <3>1 DEF Lockout!Dies
    <2>2. /\ promised'.redis # 0 => promised'.redis = promised.redis /\ promised.redis > tick + 1
          /\ promised'.memory # 0 => promised'.memory = promised.memory /\ promised.memory > tick + 1
          /\ promised'.redis \in Nat /\ promised'.memory \in Nat
      BY <1>0, <2>1 DEF Lockout!Due
    <2>3. promised'.memory <= memory'.until
      BY <1>0, <1>1, <2>1, <2>2 DEF PromiseKept
    <2>4. CASE redis' = redis
      <3>1. raced' \/ promised'.redis <= redis'.until
        <4>1. CASE raced
          BY <2>4, <2>6, <4>1
        <4>2. CASE ~raced
          BY <1>0, <1>1, <2>2, <2>4, <4>2 DEF PromiseKept
        <4>. QED
          BY <4>1, <4>2
      <3>. QED
        BY <1>0, <1>1, <2>1, <2>2, <2>3, <2>4, <3>1 DEF PromiseKept
    <2>5. CASE redis' # redis
      <3>1. promised'.redis = 0
        BY <1>0, <1>1, <2>1, <2>2, <2>5, <2>7 DEF PromiseKept
      <3>2. redis'.until \in Nat
        BY <2>5, <2>7 DEF Lockout!None
      <3>. QED
        BY <1>0, <1>1, <2>1, <2>2, <2>3, <3>1, <3>2 DEF PromiseKept
    <2>. QED
      BY <2>4, <2>5
  <1>10. CASE Lockout!Sweep
    <2>1. promised.memory = 0
      BY <1>0, <1>1, <1>10, SweptUnlocked DEF PromiseKept, Lockout!Locked
    <2>2. memory'.until \in Nat
      BY <1>10 DEF Lockout!Sweep, Lockout!None
    <2>. QED
      BY <1>10, <2>1, <2>2 DEF Lockout!Sweep, PromiseKept
  <1>11. CASE UNCHANGED Lockout!vars
    BY <1>11 DEF Lockout!vars, PromiseKept
  <1>. QED
    BY <1>3, <1>4, <1>5, <1>6, <1>7, <1>8, <1>9, <1>10, <1>11 DEF Lockout!Next

(* What a request is in the middle of decides which set it is in. *)
LEMMA AttemptSets ==
  ASSUME NEW a \in Attempts, NEW state, Lockout!TypeOK, Lockout!Go(a, state)
  PROVE  /\ Verifying' = IF state.op = "verify" THEN Verifying \cup {a} ELSE Verifying \ {a}
         /\ Recording' = IF state.op \in {"record", "set"} THEN Recording \cup {a}
                         ELSE Recording \ {a}
  <1>1. \A b \in Attempts : attempt'[b] = IF b = a THEN state ELSE attempt[b]
    BY DEF Lockout!Go, Lockout!TypeOK
  <1>. QED
    BY <1>1 DEF Verifying, Recording

LEMMA AttemptCounts ==
  ASSUME NEW V \in SUBSET Attempts, NEW R \in SUBSET Attempts, V \cap R = {}
  PROVE  /\ IsFiniteSet(V) /\ IsFiniteSet(R)
         /\ Cardinality(V) \in Nat /\ Cardinality(R) \in Nat /\ Cardinality(Attempts) \in Nat
         /\ Cardinality(V) + Cardinality(R) <= Cardinality(Attempts)
  <1>1. IsFiniteSet(Attempts) /\ IsFiniteSet(V) /\ IsFiniteSet(R)
    BY PartsAssumption, FS_Subset
  <1>2. /\ Cardinality(V) \in Nat /\ Cardinality(R) \in Nat
        /\ Cardinality(Attempts) \in Nat
    BY <1>1, FS_CardinalityType
  <1>3. Cardinality(V \cup R) = Cardinality(V) + Cardinality(R)
    <2>1. Cardinality(V \cap R) = 0
      BY FS_EmptySet
    <2>2. Cardinality(V \cup R) = Cardinality(V) + Cardinality(R) - Cardinality(V \cap R)
      BY <1>1, FS_Union
    <2>. QED
      BY <1>2, <2>1, <2>2
  <1>4. Cardinality(V \cup R) <= Cardinality(Attempts)
    BY <1>1, FS_Subset
  <1>. QED
    BY <1>1, <1>2, <1>3, <1>4

LEMMA AttemptsDisjoint ==
  Verifying \in SUBSET Attempts /\ Recording \in SUBSET Attempts /\ Verifying \cap Recording = {}
  BY DEF Verifying, Recording

LEMMA AllowanceType ==
  ASSUME NEW e, SoundEntry(e)
  PROVE  Allowance(e) \in 0..(MaxAttempts - 1)
  <1>1. e.count \in Nat /\ MaxAttempts \in Nat /\ MaxAttempts > 0
    BY PartsAssumption, EntryFields DEF SoundEntry
  <1>. QED
    BY <1>1 DEF Allowance

(* Where the one store records a failure, the bound moves from the count   *)
(* to the lock when the limit is reached. *)
LEMMA FailureKeepsBound ==
  ASSUME EntriesSound, GuessesBounded, ~raced, ~fellBack, NEW a \in Recording,
         Store' = Lockout!Failed(Store), tick' = tick, guesses' = guesses,
         Verifying' = Verifying, Recording' = Recording \ {a}
  PROVE  GuessesBounded'
  <1>. DEFINE v == Cardinality(Verifying)
              r == Cardinality(Recording)
              all == Cardinality(Attempts)
              new == Lockout!Failed(Store)
  <1>1. SoundEntry(Store) /\ tick \in Nat /\ guesses \in Nat
    BY LockoutTypes DEF EntriesSound, Store
  <1>2. /\ v \in Nat /\ r \in Nat /\ all \in Nat /\ v + r <= all
        /\ Cardinality(Recording') = r - 1 /\ Cardinality(Verifying') = v
    <2>1. IsFiniteSet(Recording) /\ v \in Nat /\ r \in Nat /\ all \in Nat /\ v + r <= all
      BY AttemptCounts, AttemptsDisjoint
    <2>2. Cardinality(Recording \ {a}) = r - 1
      BY <2>1, FS_RemoveElement
    <2>. QED
      BY <2>1, <2>2
  <1>3. /\ SoundEntry(new)
        /\ IF Store.count + 1 >= MaxAttempts THEN Lockout!Locked(new)
           ELSE ~Lockout!Locked(new) /\ new.count = Store.count + 1 /\ new.count < MaxAttempts
        /\ Lockout!Locked(Store) => Lockout!Locked(new)
    BY <1>1, FailedLocks
  <1>4. Lockout!Locked(Store)' <=> Lockout!Locked(new)
    BY DEF Lockout!Locked
  <1>5. /\ MaxAttempts \in Nat /\ MaxAttempts > 0 /\ Store.count \in Nat
        /\ Allowance(Store) \in 0..(MaxAttempts - 1)
    BY <1>1, PartsAssumption, EntryFields, AllowanceType DEF SoundEntry
  <1>6. IF Lockout!Locked(Store) THEN guesses + v <= MaxAttempts - 1 + all
        ELSE guesses <= Allowance(Store) + r
    BY DEF GuessesBounded
  <1>. HIDE DEF new, v, r, all
  <1>7. CASE Lockout!Locked(new)
    <2>1. guesses + v <= MaxAttempts - 1 + all
      BY <1>1, <1>2, <1>5, <1>6
    <2>. QED
      BY <1>2, <1>4, <1>7, <2>1 DEF GuessesBounded, v, all
  <1>8. CASE ~Lockout!Locked(new)
    <2>1. Allowance(new) = Store.count + 1 /\ Allowance(Store) = Store.count
      BY <1>3, <1>5, <1>8 DEF Allowance
    <2>2. guesses <= Allowance(new) + (r - 1)
      BY <1>1, <1>2, <1>3, <1>5, <1>6, <1>8, <2>1
    <2>. QED
      BY <1>2, <1>4, <1>8, <2>2 DEF GuessesBounded, new
  <1>. QED
    BY <1>7, <1>8

(* A key that is forgotten is within the bound again. *)
LEMMA ForgottenBounded ==
  ASSUME EntriesSound', guesses' = 0
  PROVE  GuessesBounded'
  <1>1. SoundEntry(Store')
    BY DEF EntriesSound, Store
  <1>2. Allowance(Store') \in Nat /\ MaxAttempts \in Nat /\ MaxAttempts > 0
    BY <1>1, AllowanceType, PartsAssumption
  <1>3. /\ Cardinality(Verifying') \in Nat /\ Cardinality(Recording') \in Nat
        /\ Cardinality(Verifying') <= Cardinality(Attempts) /\ Cardinality(Attempts) \in Nat
    <2>1. /\ Verifying' \in SUBSET Attempts /\ Recording' \in SUBSET Attempts
          /\ Verifying' \cap Recording' = {}
      BY DEF Verifying, Recording
    <2>2. /\ Cardinality(Verifying') \in Nat /\ Cardinality(Recording') \in Nat
          /\ Cardinality(Attempts) \in Nat
          /\ Cardinality(Verifying') + Cardinality(Recording') <= Cardinality(Attempts)
      BY <2>1, AttemptCounts
    <2>. QED
      BY <2>2
  <1>. QED
    BY <1>2, <1>3 DEF GuessesBounded

(* A request that goes on without a failure recorded, while the one store  *)
(* stays as it is. *)
LEMMA MoveKeepsBound ==
  ASSUME EntriesSound, GuessesBounded, ~raced, ~fellBack,
         Store' = Store, tick' = tick, guesses' \in Nat,
         \/ /\ guesses' <= guesses
            /\ Cardinality(Verifying') <= Cardinality(Verifying) \/ ~Lockout!Locked(Store)
            /\ Cardinality(Recording') = Cardinality(Recording)
         \/ /\ guesses' <= guesses + 1
            /\ Cardinality(Verifying') = Cardinality(Verifying) - 1
            /\ Cardinality(Recording') = Cardinality(Recording) + 1
  PROVE  GuessesBounded'
  <1>1. guesses \in Nat /\ SoundEntry(Store)
    BY LockoutTypes DEF EntriesSound, Store
  <1>2. Allowance(Store) \in Nat /\ MaxAttempts \in Nat
    BY <1>1, AllowanceType, PartsAssumption
  <1>3. /\ Cardinality(Verifying) \in Nat /\ Cardinality(Recording) \in Nat
        /\ Cardinality(Attempts) \in Nat
    BY AttemptCounts, AttemptsDisjoint
  <1>4. Cardinality(Verifying') \in Nat
    <2>1. /\ Verifying' \in SUBSET Attempts /\ Recording' \in SUBSET Attempts
          /\ Verifying' \cap Recording' = {}
      BY DEF Verifying, Recording
    <2>. QED
      BY <2>1, AttemptCounts
  <1>5. Lockout!Locked(Store)' <=> Lockout!Locked(Store)
    BY DEF Lockout!Locked
  <1>6. IF Lockout!Locked(Store)
        THEN guesses + Cardinality(Verifying) <= MaxAttempts - 1 + Cardinality(Attempts)
        ELSE guesses <= Allowance(Store) + Cardinality(Recording)
    BY DEF GuessesBounded
  <1>7. IF Lockout!Locked(Store)
        THEN guesses' + Cardinality(Verifying') <= MaxAttempts - 1 + Cardinality(Attempts)
        ELSE guesses' <= Allowance(Store) + Cardinality(Recording')
    BY <1>1, <1>2, <1>3, <1>4, <1>6
  <1>. QED
    BY <1>5, <1>7 DEF GuessesBounded

LEMMA GuessesBoundedNext ==
  /\ EntriesSound /\ OneStore /\ GuessesBounded /\ EntriesSound'
  /\ [Lockout!Next]_(Lockout!vars)
  => GuessesBounded'
  <1>. SUFFICES ASSUME EntriesSound, OneStore, GuessesBounded, EntriesSound',
                       [Lockout!Next]_(Lockout!vars), ~raced', ~fellBack'
                PROVE  GuessesBounded'
    BY DEF GuessesBounded
  <1>0. /\ Lockout!TypeOK /\ Lockout!TypeOK'
        /\ guesses \in Nat /\ guesses' \in Nat /\ tick \in Nat /\ SoundEntry(redis) /\ SoundEntry(memory)
        /\ IsFiniteSet(Verifying) /\ IsFiniteSet(Recording)
        /\ Cardinality(Verifying) \in Nat /\ Cardinality(Recording) \in Nat
        /\ \A a \in Attempts : attempt[a].op = "set" => withRedis
    BY LockoutTypes, AttemptCounts, AttemptsDisjoint DEF EntriesSound, Lockout!TypeOK
  <1>1. ASSUME NEW a \in Attempts, Lockout!CheckRedis(a) PROVE GuessesBounded'
    <2>1. a \notin Recording /\ a \notin Verifying
      BY <1>0, <1>1, AttemptFields DEF Lockout!CheckRedis, Recording, Verifying
    <2>2. Verifying' = Verifying \cup {a} /\ Recording' = Recording
      BY <1>0, <1>1, <2>1, AttemptSets DEF Lockout!CheckRedis
    <2>3. /\ ~raced /\ ~fellBack /\ Store' = Store /\ tick' = tick /\ guesses' = guesses
          /\ ~Lockout!Locked(Store)
      BY <1>1 DEF Lockout!CheckRedis, Lockout!history, Store
    <2>. QED
      BY <1>0, <2>2, <2>3, MoveKeepsBound
  <1>2. ASSUME NEW a \in Attempts, Lockout!CheckMemory(a) PROVE GuessesBounded'
    <2>1. a \notin Recording /\ a \notin Verifying
      BY <1>0, <1>2, AttemptFields DEF Lockout!CheckMemory, Recording, Verifying
    <2>2. Verifying' = Verifying \cup {a} /\ Recording' = Recording
      BY <1>0, <1>2, <2>1, AttemptSets DEF Lockout!CheckMemory
    <2>3. /\ ~raced /\ ~fellBack /\ ~withRedis /\ ~withRedis' /\ tick' = tick /\ guesses' = guesses
          /\ ~Lockout!Locked(memory)
          /\ memory' = IF Lockout!Lapsed(memory) THEN Lockout!None ELSE memory
      BY <1>2 DEF Lockout!CheckMemory, Lockout!FallBack
    <2>4. CASE memory' = memory
      BY <1>0, <2>2, <2>3, <2>4, MoveKeepsBound DEF Store
    <2>5. CASE memory' = Lockout!None /\ Lockout!Lapsed(memory)
      <3>1. Allowance(memory) = 0 /\ Allowance(memory') = 0
        BY <1>0, <2>5, PartsAssumption DEF Lockout!Lapsed, SoundEntry, Allowance, Lockout!None
      <3>2. guesses <= 0 + Cardinality(Recording)
        BY <2>3, <3>1 DEF GuessesBounded, Store
      <3>3. ~Lockout!Locked(memory)'
        BY <1>0, <2>3, <2>5, NoneSound DEF Lockout!Locked, Lockout!None
      <3>. QED
        BY <2>2, <2>3, <3>1, <3>2, <3>3 DEF GuessesBounded, Store
    <2>. QED
      BY <2>3, <2>4, <2>5
  <1>3. ASSUME NEW a \in Attempts, Lockout!Wrong(a) PROVE GuessesBounded'
    <2>1. a \in Verifying /\ a \notin Recording
      BY <1>3 DEF Lockout!Wrong, Recording, Verifying
    <2>2. Verifying' = Verifying \ {a} /\ Recording' = Recording \cup {a}
      BY <1>0, <1>3, AttemptSets DEF Lockout!Wrong
    <2>3. /\ Cardinality(Verifying') = Cardinality(Verifying) - 1
          /\ Cardinality(Recording') = Cardinality(Recording) + 1
      BY <1>0, <2>1, <2>2, FS_AddElement, FS_RemoveElement
    <2>4. guesses' <= guesses + 1
      BY <1>0, <1>3, GuessCapType DEF Lockout!Wrong, Lockout!Least
    <2>5. ~raced /\ ~fellBack /\ Store' = Store /\ tick' = tick
      BY <1>3 DEF Lockout!Wrong, Store
    <2>. QED
      BY <1>0, <2>3, <2>4, <2>5, MoveKeepsBound
  <1>4. ASSUME NEW a \in Attempts, Lockout!Right(a) \/ Lockout!Abandon(a) PROVE GuessesBounded'
    <2>1. a \in Verifying /\ a \notin Recording
      BY <1>4 DEF Lockout!Right, Lockout!Abandon, Recording, Verifying
    <2>2. Verifying' = Verifying \ {a} /\ Recording' = Recording
      <3>1. PICK state \in {[op |-> "clear"], Lockout!Idle} : Lockout!Go(a, state)
        BY <1>4 DEF Lockout!Right, Lockout!Abandon
      <3>2. state.op \in {"clear", "idle"}
        BY DEF Lockout!Idle
      <3>. QED
        BY <1>0, <2>1, <3>1, <3>2, AttemptSets
    <2>3. Cardinality(Verifying') <= Cardinality(Verifying)
      <3>1. Cardinality(Verifying \ {a}) = Cardinality(Verifying) - 1
        BY <1>0, <2>1, FS_RemoveElement
      <3>. QED
        BY <1>0, <2>2, <3>1
    <2>4. ~raced /\ ~fellBack /\ Store' = Store /\ tick' = tick /\ guesses' = guesses
      BY <1>4 DEF Lockout!Right, Lockout!Abandon, Lockout!history, Store
    <2>. QED
      BY <1>0, <2>2, <2>3, <2>4, MoveKeepsBound
  <1>5. ASSUME NEW a \in Attempts, Lockout!RecordGet(a) PROVE GuessesBounded'
    <2>1. a \notin Verifying /\ a \in Recording
      BY <1>5 DEF Lockout!RecordGet, Recording, Verifying
    <2>2. Verifying' = Verifying /\ Recording' = Recording
      BY <1>0, <1>5, <2>1, AttemptSets DEF Lockout!RecordGet
    <2>3. ~raced /\ ~fellBack /\ Store' = Store /\ tick' = tick /\ guesses' = guesses
      BY <1>5 DEF Lockout!RecordGet, Lockout!history, Store
    <2>. QED
      BY <1>0, <2>2, <2>3, MoveKeepsBound
  <1>6. ASSUME NEW a \in Attempts, Lockout!RecordSet(a) PROVE GuessesBounded'
    <2>1. a \notin Verifying /\ a \in Recording
      BY <1>6 DEF Lockout!RecordSet, Recording, Verifying
    <2>2. Verifying' = Verifying /\ Recording' = Recording \ {a}
      BY <1>0, <1>6, <2>1, AttemptSets DEF Lockout!RecordSet, Lockout!Idle
    <2>3. /\ ~raced /\ ~fellBack /\ tick' = tick /\ guesses' = guesses
          /\ Store' = Lockout!Failed(Store)
      BY <1>0, <1>6 DEF Lockout!RecordSet, Store
    <2>. QED
      BY <2>1, <2>2, <2>3, FailureKeepsBound
  <1>7. ASSUME NEW a \in Attempts, Lockout!RecordMemory(a) PROVE GuessesBounded'
    <2>1. a \notin Verifying /\ a \in Recording
      BY <1>7 DEF Lockout!RecordMemory, Recording, Verifying
    <2>2. Verifying' = Verifying /\ Recording' = Recording \ {a}
      <3>1. Lockout!Go(a, Lockout!Idle) /\ Lockout!Idle.op = "idle"
        BY <1>7 DEF Lockout!RecordMemory, Lockout!Idle
      <3>. QED
        BY <1>0, <2>1, <3>1, AttemptSets
    <2>3. /\ ~raced /\ ~fellBack /\ tick' = tick /\ guesses' = guesses
          /\ Store' = Lockout!Failed(Store)
      BY <1>7 DEF Lockout!RecordMemory, Lockout!FallBack, Store
    <2>. QED
      BY <2>1, <2>2, <2>3, FailureKeepsBound
  <1>8. ASSUME NEW a \in Attempts, Lockout!ClearRedis(a) \/ Lockout!ClearMemory(a)
        PROVE  GuessesBounded'
    BY <1>8, ForgottenBounded DEF Lockout!ClearRedis, Lockout!ClearMemory
  <1>9. CASE Lockout!Tick
    <2>1. CASE redis' = redis /\ ~Lockout!Ends(memory)
      <3>1. Store' = Store /\ (Lockout!Locked(Store)' <=> Lockout!Locked(Store))
        <4>1. UNCHANGED <<withRedis, memory>>
          BY <1>9 DEF Lockout!Tick
        <4>2. /\ Lockout!Locked(redis)' <=> Lockout!Locked(redis)
              /\ Lockout!Locked(memory)' <=> Lockout!Locked(memory)
          BY <1>9, <2>1, TickKeepsLocks
        <4>. QED
          BY <2>1, <4>1, <4>2 DEF Store
      <3>3. UNCHANGED <<attempt, guesses>> /\ ~raced /\ ~fellBack
        <4>1. /\ attempt' = attempt /\ fellBack' = fellBack
              /\ raced' = (raced /\ redis' = redis)
          BY <1>9, Zenon DEF Lockout!Tick
        <4>2. guesses' = guesses
          BY <1>9, <2>1 DEF Lockout!Tick
        <4>. QED
          BY <2>1, <4>1, <4>2
      <3>2. Verifying' = Verifying /\ Recording' = Recording
        BY <3>3 DEF Verifying, Recording
      <3>. QED
        BY <3>1, <3>2, <3>3 DEF GuessesBounded
    <2>2. CASE ~(redis' = redis /\ ~Lockout!Ends(memory))
      BY <1>9, <2>2, ForgottenBounded DEF Lockout!Tick
    <2>. QED
      BY <2>1, <2>2
  <1>10. CASE Lockout!Sweep
    BY <1>10, ForgottenBounded DEF Lockout!Sweep
  <1>11. CASE UNCHANGED Lockout!vars
    BY <1>11 DEF Lockout!vars, GuessesBounded, Store, Verifying, Recording, Lockout!Locked
  <1>. QED
    BY <1>1, <1>2, <1>3, <1>4, <1>5, <1>6, <1>7, <1>8, <1>9, <1>10, <1>11 DEF Lockout!Next

LEMMA BoundedGuesses ==
  ASSUME EntriesSound, GuessesBounded
  PROVE  raced \/ fellBack \/ guesses <= MaxAttempts - 1 + Cardinality(Attempts)
  <1>1. guesses \in Nat /\ SoundEntry(Store)
    BY LockoutTypes DEF EntriesSound, Store
  <1>2. Allowance(Store) \in 0..(MaxAttempts - 1) /\ MaxAttempts \in Nat
    BY <1>1, AllowanceType, PartsAssumption
  <1>3. /\ Cardinality(Verifying) \in Nat /\ Cardinality(Recording) \in Nat
        /\ Cardinality(Attempts) \in Nat
        /\ Cardinality(Verifying) + Cardinality(Recording) <= Cardinality(Attempts)
    BY AttemptCounts, AttemptsDisjoint
  <1>. QED
    BY <1>1, <1>2, <1>3 DEF GuessesBounded

(* What has been promised is locked. *)
LEMMA LocksPromised ==
  ASSUME EntriesSound, PromiseKept
  PROVE  /\ tick < promised.redis => Lockout!Locked(redis) \/ raced
         /\ tick < promised.memory => Lockout!Locked(memory)
  <1>1. /\ tick \in Nat /\ redis.until \in Nat /\ memory.until \in Nat
        /\ promised.redis \in Nat /\ promised.memory \in Nat
    BY LockoutTypes, EntryFields
       DEF EntriesSound
  <1>. QED
    BY <1>1 DEF PromiseKept, Lockout!Locked

LockoutInv == EntriesSound /\ PromiseKept /\ OneStore /\ GuessesBounded

(* The lockout by itself: a lock holds in its store, and comes in time. *)
THEOREM LockoutAlwaysHolds == Lockout!Spec => []Lockout!LockoutHolds
  <1>1. LockoutInv => Lockout!LockoutHolds
    BY BoundedGuesses, LocksPromised, LockoutCardinality DEF LockoutInv, Lockout!LockoutHolds
  <1>2. LockoutInv /\ [Lockout!Next]_(Lockout!vars) => LockoutInv'
    BY EntriesSoundNext, PromiseKeptNext, OneStoreNext, GuessesBoundedNext DEF LockoutInv
  <1>3. Lockout!Init => LockoutInv
    BY EntriesSoundInit DEF LockoutInv
  <1>. QED
    BY <1>1, <1>2, <1>3, PTL DEF Lockout!Spec

(* A lock holds in the store that set it for its time, whatever requests   *)
(* overlap it or turn to the other store; and however many requests try at *)
(* once, while one store answers no more than MaxAttempts - 1 failures and *)
(* one of each request come before it, for every number of requests and    *)
(* every limit and duration.                                               *)
THEOREM PartsLockoutHolds == PartsSpec => []LockoutHolds
  <1>1. Lockout!LockoutHolds => LockoutHolds
    BY DEF LockoutHolds
  <1>. QED
    BY <1>1, PartsAlone, LockoutAlwaysHolds, PTL

-----------------------------------------------------------------------------
(* The codes. While the requests of admins do not overlap, the one that is *)
(* about to create a code has seen every code that it is to replace; and a *)
(* scan that is about to clock has been counted, or missed.                *)

Busy == {a \in Handlers : admin[a] # QrCodes!Idle}

RotatingDated == \A i \in rotating :
  codes[i] # QrCodes!NoCode /\ codes[i].expiresAt # QrCodes!Never

SeenExist == \A a \in Handlers : admin[a].op \in {"generate", "replace"} =>
  \A i \in admin[a].seen : codes[i] # QrCodes!NoCode

CodesSound == QrCodes!TypeOK /\ RotatingDated /\ SeenExist

ReplacedSeen ==
  /\ \A a, b \in Busy : a = b
  /\ \A a \in Busy :
       /\ admin[a].op = "generate" => QrCodes!Dated \subseteq admin[a].seen
       /\ admin[a].op = "static" => QrCodes!Static = {}
       /\ admin[a].op = "replace" => QrCodes!Static \subseteq admin[a].seen
  /\ \A i, j \in rotating \cap QrCodes!Active : i = j
  /\ \A i, j \in QrCodes!Static : i = j

AdminsSound ==
  /\ admin \in [Handlers -> QrCodes!AdminStates] /\ crowded \in BOOLEAN
  /\ RotatingDated /\ SeenExist /\ (crowded \/ ReplacedSeen)

Pending(i) == {s \in Scans : scan[s].op = "clock" /\ scan[s].code = i}

ScansCounted == \A i \in QrCodes!Ids :
  IF codes[i] = QrCodes!NoCode
  THEN clocked[i] = 0 /\ \A s \in Scans : scan[s] # QrCodes!Idle => scan[s].code # i
  ELSE clocked[i] + Cardinality(Pending(i)) <= codes[i].scanCount + uncounted[i]

CodesInv == CodesSound /\ (crowded \/ ReplacedSeen) /\ ScansCounted

LEMMA CodeFields ==
  ASSUME NEW c \in QrCodes!Code
  PROVE  /\ c.status \in {"ACTIVE", "REVOKED"} /\ c.expiresAt \in Nat /\ c.scanCount \in Nat
         /\ c # QrCodes!NoCode
         /\ LET r == [c EXCEPT !.status = "REVOKED"] IN
            /\ r \in QrCodes!Code /\ r.status = "REVOKED" /\ r.expiresAt = c.expiresAt
            /\ r.scanCount = c.scanCount
         /\ LET n == [c EXCEPT !.scanCount = @ + 1] IN
            /\ n \in QrCodes!Code /\ n.status = c.status /\ n.expiresAt = c.expiresAt
            /\ n.scanCount = c.scanCount + 1
  <1>1. c.status \in {"ACTIVE", "REVOKED"} /\ c.expiresAt \in Nat /\ c.scanCount \in Nat
    BY DEF QrCodes!Code
  <1>2. QrCodes!NoCode.status = "none"
    BY DEF QrCodes!NoCode
  <1>3. LET r == [c EXCEPT !.status = "REVOKED"] IN
            /\ r \in QrCodes!Code /\ r.status = "REVOKED" /\ r.expiresAt = c.expiresAt
            /\ r.scanCount = c.scanCount
    BY DEF QrCodes!Code
  <1>4. LET n == [c EXCEPT !.scanCount = @ + 1] IN
            /\ n \in QrCodes!Code /\ n.status = c.status /\ n.expiresAt = c.expiresAt
            /\ n.scanCount = c.scanCount + 1
    BY DEF QrCodes!Code
  <1>. QED
    BY <1>1, <1>2, <1>3, <1>4

(* What the types say of the rows. *)
LEMMA CodeRows ==
  ASSUME QrCodes!TypeOK
  PROVE  /\ today \in Nat /\ today > 0
         /\ \A i \in QrCodes!Ids : codes[i] = QrCodes!NoCode \/ codes[i] \in QrCodes!Code
         /\ \A i \in QrCodes!Active : i \in QrCodes!Ids /\ codes[i] \in QrCodes!Code
         /\ DOMAIN codes = QrCodes!Ids
  <1>1. today \in Nat /\ today > 0
    BY PartsAssumption DEF QrCodes!TypeOK
  <1>2. codes \in [QrCodes!Ids -> QrCodes!Code \cup {QrCodes!NoCode}]
    BY DEF QrCodes!TypeOK
  <1>3. QrCodes!NoCode.status = "none"
    BY DEF QrCodes!NoCode
  <1>. QED
    BY <1>1, <1>2, <1>3 DEF QrCodes!Active

(* A code is created and those that were seen are revoked. *)
Replaced(gone, i, e) ==
  /\ codes' \in [QrCodes!Ids -> QrCodes!Code \cup {QrCodes!NoCode}]
  /\ QrCodes!Active' = {i} \cup (QrCodes!Active \ gone)
  /\ i \notin QrCodes!Active /\ i \notin rotating
  /\ codes'[i].expiresAt = e /\ codes'[i].scanCount = 0
  /\ codes[i] = QrCodes!NoCode
  /\ \A j \in QrCodes!Ids : codes'[j] = QrCodes!NoCode <=> j # i /\ codes[j] = QrCodes!NoCode
  /\ \A j \in QrCodes!Ids \ {i} : codes[j] # QrCodes!NoCode =>
       /\ codes'[j].expiresAt = codes[j].expiresAt
       /\ codes'[j].scanCount = codes[j].scanCount

LEMMA CodeReplaced ==
  ASSUME CodesSound, NEW gone \in SUBSET QrCodes!Ids, NEW i \in QrCodes!Ids, NEW e \in Nat,
         \A j \in gone : codes[j] # QrCodes!NoCode,
         QrCodes!New(i), QrCodes!Replace(gone, i, e)
  PROVE  Replaced(gone, i, e)
  <1>. DEFINE new == [status |-> "ACTIVE", expiresAt |-> e, scanCount |-> 0]
              Revoked(c) == [c EXCEPT !.status = "REVOKED"]
  <1>1. /\ \A j \in QrCodes!Ids : codes[j] = QrCodes!NoCode \/ codes[j] \in QrCodes!Code
        /\ \A j \in QrCodes!Active : codes[j] \in QrCodes!Code
    BY CodeRows DEF CodesSound
  <1>2. codes' = [j \in QrCodes!Ids |->
          IF j = i THEN new ELSE IF j \in gone THEN Revoked(codes[j]) ELSE codes[j]]
    BY DEF QrCodes!Replace
  <1>3. new \in QrCodes!Code /\ new.status = "ACTIVE" /\ new.expiresAt = e /\ new.scanCount = 0
    BY DEF QrCodes!Code
  <1>4. \A c \in QrCodes!Code :
          /\ c # QrCodes!NoCode
          /\ Revoked(c) \in QrCodes!Code /\ Revoked(c).status = "REVOKED"
          /\ Revoked(c).expiresAt = c.expiresAt /\ Revoked(c).scanCount = c.scanCount
    BY CodeFields
  <1>5. \A j \in gone : codes[j] \in QrCodes!Code
    BY <1>1
  <1>6. codes[i] = QrCodes!NoCode /\ QrCodes!NoCode.status = "none"
    BY DEF QrCodes!New, QrCodes!NoCode
  <1>. HIDE DEF new, Revoked
  <1>7. /\ codes'[i] = new
        /\ \A j \in QrCodes!Ids \ {i} :
             codes'[j] = IF j \in gone THEN Revoked(codes[j]) ELSE codes[j]
    BY <1>2
  <1>8. \A j \in QrCodes!Ids : codes'[j] = QrCodes!NoCode \/ codes'[j] \in QrCodes!Code
    BY <1>1, <1>3, <1>4, <1>5, <1>7
  <1>9. codes' \in [QrCodes!Ids -> QrCodes!Code \cup {QrCodes!NoCode}]
    BY <1>2, <1>7, <1>8
  <1>10. i \notin QrCodes!Active /\ i \notin rotating
    BY <1>6 DEF QrCodes!Active, CodesSound, RotatingDated
  <1>11. \A j \in QrCodes!Ids \ {i} :
           /\ codes'[j].status = "ACTIVE" <=> j \notin gone /\ codes[j].status = "ACTIVE"
           /\ codes'[j] = QrCodes!NoCode <=> codes[j] = QrCodes!NoCode
           /\ codes[j] # QrCodes!NoCode => /\ codes'[j].expiresAt = codes[j].expiresAt
                                           /\ codes'[j].scanCount = codes[j].scanCount
    BY <1>1, <1>4, <1>5, <1>7
  <1>12. QrCodes!Active' = {i} \cup (QrCodes!Active \ gone)
    BY <1>3, <1>7, <1>11 DEF QrCodes!Active
  <1>. QED
    BY <1>3, <1>4, <1>6, <1>7, <1>9, <1>10, <1>11, <1>12 DEF Replaced

LEMMA CodesInvInit == QrCodes!Init => CodesInv
  <1>. SUFFICES ASSUME QrCodes!Init PROVE CodesInv
    OBVIOUS
  <1>1. \A i \in QrCodes!Ids : codes[i] = QrCodes!NoCode /\ codes[i].status = "none"
    BY DEF QrCodes!Init, QrCodes!NoCode
  <1>2. QrCodes!Active = {}
    BY <1>1 DEF QrCodes!Active
  <1>3. Busy = {} /\ \A a \in Handlers : admin[a].op = "idle"
    BY DEF QrCodes!Init, Busy, QrCodes!Idle
  <1>4. QrCodes!TypeOK
    <2>1. today \in 1..LastDay
      BY PartsAssumption DEF QrCodes!Init
    <2>2. codes \in [QrCodes!Ids -> QrCodes!Code \cup {QrCodes!NoCode}]
      BY DEF QrCodes!Init
    <2>3. admin \in [Handlers -> QrCodes!AdminStates] /\ scan \in [Scans -> QrCodes!ScanStates]
      BY DEF QrCodes!Init, QrCodes!AdminStates, QrCodes!ScanStates
    <2>4. /\ rotating \subseteq QrCodes!Ids /\ crowded \in BOOLEAN
          /\ clocked \in [QrCodes!Ids -> Nat] /\ uncounted \in [QrCodes!Ids -> Nat]
      BY DEF QrCodes!Init
    <2>. QED
      BY <2>1, <2>2, <2>3, <2>4 DEF QrCodes!TypeOK
  <1>5. CodesSound
    BY <1>3, <1>4 DEF CodesSound, RotatingDated, SeenExist, QrCodes!Init
  <1>6. ReplacedSeen
    BY <1>2, <1>3 DEF ReplacedSeen, QrCodes!Static
  <1>7. ScansCounted
    BY <1>1 DEF ScansCounted, QrCodes!Init
  <1>. QED
    BY <1>5, <1>6, <1>7 DEF CodesInv

(* What the states of an admin's request say. *)
LEMMA AdminFields ==
  /\ \A o \in QrCodes!AdminStates :
       /\ o.op \in {"idle", "generate", "static", "regenerate", "replace"}
       /\ o.op \in {"generate", "replace"} => o.seen \in SUBSET QrCodes!Ids
       /\ o.op \in {"static", "regenerate", "replace"} => o.expiresAt \in Nat
       /\ o.op = "idle" <=> o = QrCodes!Idle
  /\ QrCodes!Idle \in QrCodes!AdminStates
  /\ \A seen \in SUBSET QrCodes!Ids, e \in Nat :
       /\ [op |-> "generate", seen |-> seen] \in QrCodes!AdminStates
       /\ [op |-> "static", expiresAt |-> e] \in QrCodes!AdminStates
       /\ [op |-> "regenerate", expiresAt |-> e] \in QrCodes!AdminStates
       /\ [op |-> "replace", expiresAt |-> e, seen |-> seen] \in QrCodes!AdminStates
  BY DEF QrCodes!AdminStates, QrCodes!Idle

LEMMA AdminMoves ==
  ASSUME QrCodes!TypeOK, NEW a \in Handlers, NEW state \in QrCodes!AdminStates,
         admin' = [admin EXCEPT ![a] = state]
  PROVE  /\ admin' \in [Handlers -> QrCodes!AdminStates]
         /\ admin'[a] = state /\ \A b \in Handlers \ {a} : admin'[b] = admin[b]
         /\ Busy' = IF state = QrCodes!Idle THEN Busy \ {a} ELSE Busy \cup {a}
  BY DEF QrCodes!TypeOK, Busy

(* Nothing new becomes active and no request moves on. *)
LEMMA CodesKeep ==
  ASSUME CodesSound, crowded \/ ReplacedSeen,
         today' >= today, today' \in Nat, QrCodes!Active' \subseteq QrCodes!Active,
         \A i \in QrCodes!Ids : codes[i] # QrCodes!NoCode =>
           codes'[i] # QrCodes!NoCode /\ codes'[i].expiresAt = codes[i].expiresAt,
         rotating' = rotating, crowded' = crowded,
         \A b \in Handlers : admin'[b] \in {admin[b], QrCodes!Idle}
  PROVE  RotatingDated' /\ SeenExist' /\ (crowded' \/ ReplacedSeen')
  <1>1. \A b \in Handlers : admin'[b] = admin[b] \/ (admin'[b].op = "idle" /\ admin'[b] = QrCodes!Idle)
    BY DEF QrCodes!Idle
  <1>2. rotating \subseteq QrCodes!Ids /\ today \in Nat
    BY CodeRows DEF CodesSound, QrCodes!TypeOK
  <1>3. \A b \in Handlers : admin[b] \in QrCodes!AdminStates
    BY DEF CodesSound, QrCodes!TypeOK
  <1>4. RotatingDated'
    BY <1>2 DEF CodesSound, RotatingDated
  <1>5. SeenExist'
    <2>. SUFFICES ASSUME NEW a \in Handlers, admin'[a].op \in {"generate", "replace"},
                         NEW i \in admin'[a].seen
                  PROVE  codes'[i] # QrCodes!NoCode
      BY DEF SeenExist
    <2>1. admin'[a] = admin[a]
      BY <1>1
    <2>2. i \in QrCodes!Ids /\ codes[i] # QrCodes!NoCode
      BY <1>3, <2>1, AdminFields DEF CodesSound, SeenExist
    <2>. QED
      BY <2>2
  <1>6. ASSUME ReplacedSeen PROVE ReplacedSeen'
    <2>1. Busy' \subseteq Busy /\ \A a \in Busy' : admin'[a] = admin[a]
      BY <1>1 DEF Busy
    <2>2. \A i \in QrCodes!Active' : /\ i \in QrCodes!Active /\ codes'[i].expiresAt = codes[i].expiresAt
                                     /\ codes[i].expiresAt \in Nat
      BY CodeRows, CodeFields DEF CodesSound
    <2>3. QrCodes!Static' \subseteq QrCodes!Static
      BY <1>2, <2>2 DEF QrCodes!Static
    <2>4. QrCodes!Dated' \subseteq QrCodes!Dated
      BY <2>2 DEF QrCodes!Dated
    <2>. QED
      BY <1>6, <2>1, <2>3, <2>4 DEF ReplacedSeen
  <1>. QED
    BY <1>4, <1>5, <1>6

(* A request begins: the codes stay. *)
LEMMA CodesStart ==
  ASSUME CodesSound, crowded \/ ReplacedSeen, NEW a \in Handlers,
         NEW state \in QrCodes!AdminStates, state # QrCodes!Idle, QrCodes!Start(a, state),
         UNCHANGED <<today, codes, rotating>>,
         state.op = "generate" => state.seen = QrCodes!Dated,
         state.op = "static" => QrCodes!Static = {},
         state.op # "replace"
  PROVE  AdminsSound'
  <1>1. /\ admin' \in [Handlers -> QrCodes!AdminStates]
        /\ admin'[a] = state /\ \A b \in Handlers \ {a} : admin'[b] = admin[b]
        /\ Busy' = Busy \cup {a}
    BY AdminMoves DEF QrCodes!Start, CodesSound
  <1>2. crowded' \in BOOLEAN /\ (crowded' \/ (~crowded /\ Busy = {}))
    BY DEF QrCodes!Start, Busy, CodesSound, QrCodes!TypeOK
  <1>3. RotatingDated'
    BY DEF CodesSound, RotatingDated
  <1>4. /\ QrCodes!Active' = QrCodes!Active /\ QrCodes!Dated' = QrCodes!Dated
        /\ QrCodes!Static' = QrCodes!Static
    BY DEF QrCodes!Active, QrCodes!Dated, QrCodes!Static
  <1>5. SeenExist'
    <2>1. \A i \in QrCodes!Dated : codes[i] # QrCodes!NoCode
      BY CodeRows, CodeFields DEF CodesSound, QrCodes!Dated
    <2>. QED
      BY <1>1, <2>1 DEF SeenExist, CodesSound
  <1>6. ASSUME ReplacedSeen, Busy = {} PROVE ReplacedSeen'
    BY <1>1, <1>4, <1>6 DEF ReplacedSeen
  <1>. QED
    BY <1>1, <1>2, <1>3, <1>5, <1>6 DEF AdminsSound

(* A code is created, of those that last or not, and those seen are        *)
(* revoked. *)
LEMMA CodesCreate ==
  ASSUME CodesSound, crowded \/ ReplacedSeen, NEW a \in Handlers, NEW i \in QrCodes!Ids,
         NEW gone \in SUBSET QrCodes!Ids, NEW e \in Nat,
         \A j \in gone : codes[j] # QrCodes!NoCode,
         QrCodes!New(i), QrCodes!Replace(gone, i, e), QrCodes!End(a), today' = today,
         crowded' = crowded, admin[a] # QrCodes!Idle,
         \/ admin[a].op = "generate" /\ gone = admin[a].seen /\ e = today + 1
            /\ rotating' = rotating \cup {i}
         \/ admin[a].op = "static" /\ gone = {} /\ rotating' = rotating
         \/ admin[a].op = "replace" /\ gone = admin[a].seen /\ rotating' = rotating
  PROVE  AdminsSound' /\ codes' \in [QrCodes!Ids -> QrCodes!Code \cup {QrCodes!NoCode}]
  <1>1. /\ codes' \in [QrCodes!Ids -> QrCodes!Code \cup {QrCodes!NoCode}]
        /\ QrCodes!Active' = {i} \cup (QrCodes!Active \ gone)
        /\ i \notin QrCodes!Active /\ i \notin rotating
        /\ codes'[i].expiresAt = e
        /\ \A j \in QrCodes!Ids : codes'[j] = QrCodes!NoCode <=> j # i /\ codes[j] = QrCodes!NoCode
        /\ \A j \in QrCodes!Ids \ {i} : codes[j] # QrCodes!NoCode =>
             codes'[j].expiresAt = codes[j].expiresAt
    <2>1. Replaced(gone, i, e)
      BY CodeReplaced
    <2>. QED
      BY <2>1 DEF Replaced
  <1>2. /\ admin' \in [Handlers -> QrCodes!AdminStates]
        /\ admin'[a] = QrCodes!Idle /\ \A b \in Handlers \ {a} : admin'[b] = admin[b]
        /\ Busy' = Busy \ {a} /\ a \in Busy
    BY AdminMoves, AdminFields DEF QrCodes!End, CodesSound, Busy
  <1>3. rotating \subseteq QrCodes!Ids /\ today \in Nat /\ today > 0
    BY CodeRows DEF CodesSound, QrCodes!TypeOK
  <1>4. RotatingDated'
    <2>1. rotating' = rotating \/ (rotating' = rotating \cup {i} /\ e = today + 1)
      OBVIOUS
    <2>2. \A j \in rotating : codes'[j] # QrCodes!NoCode /\ codes'[j].expiresAt # QrCodes!Never
      BY <1>1, <1>3 DEF CodesSound, RotatingDated
    <2>3. codes'[i] # QrCodes!NoCode /\ (e = today + 1 => codes'[i].expiresAt # QrCodes!Never)
      BY <1>1, <1>3 DEF QrCodes!Never
    <2>. QED
      BY <2>1, <2>2, <2>3 DEF RotatingDated
  <1>5. SeenExist'
    <2>. SUFFICES ASSUME NEW b \in Handlers, admin'[b].op \in {"generate", "replace"},
                         NEW j \in admin'[b].seen
                  PROVE  codes'[j] # QrCodes!NoCode
      BY DEF SeenExist
    <2>1. b # a /\ admin'[b] = admin[b]
      BY <1>2 DEF QrCodes!Idle
    <2>2. admin[b] \in QrCodes!AdminStates
      BY DEF CodesSound, QrCodes!TypeOK
    <2>3. j \in QrCodes!Ids /\ codes[j] # QrCodes!NoCode
      BY <2>1, <2>2, AdminFields DEF CodesSound, SeenExist
    <2>. QED
      BY <1>1, <2>3
  <1>6. ASSUME ReplacedSeen PROVE ReplacedSeen'
    <2>1. Busy' = {}
      BY <1>2, <1>6 DEF ReplacedSeen
    <2>2. \A j \in QrCodes!Active \ gone : /\ j \in QrCodes!Ids /\ j # i
                                           /\ codes'[j].expiresAt = codes[j].expiresAt
                                           /\ codes[j].expiresAt \in Nat
      BY <1>1, CodeRows, CodeFields DEF CodesSound
    <2>3. QrCodes!Static' \subseteq {i} \cup (QrCodes!Static \ gone)
      BY <1>1, <2>2 DEF QrCodes!Static
    <2>4. QrCodes!Dated \cap rotating = QrCodes!Active \cap rotating
      BY DEF QrCodes!Dated, CodesSound, RotatingDated
    <2>5. CASE admin[a].op = "generate"
      <3>1. rotating' \cap QrCodes!Active' \subseteq {i}
        BY <1>1, <1>2, <1>6, <2>4, <2>5 DEF ReplacedSeen
      <3>2. i \notin QrCodes!Static'
        BY <1>1, <1>3, <2>5 DEF QrCodes!Static, QrCodes!Never
      <3>. QED
        BY <1>6, <2>1, <2>3, <3>1, <3>2 DEF ReplacedSeen
    <2>6. CASE admin[a].op # "generate"
      <3>1. rotating' \cap QrCodes!Active' \subseteq rotating \cap QrCodes!Active
        BY <1>1, <2>6
      <3>2. QrCodes!Static \subseteq gone
        BY <1>2, <1>6, <2>6 DEF ReplacedSeen
      <3>. QED
        BY <1>6, <2>1, <2>3, <3>1, <3>2 DEF ReplacedSeen
    <2>. QED
      BY <2>5, <2>6
  <1>. QED
    BY <1>1, <1>2, <1>4, <1>5, <1>6 DEF AdminsSound, CodesSound, QrCodes!TypeOK

LEMMA ScanFields ==
  /\ \A o \in QrCodes!ScanStates :
       /\ o.op \in {"idle", "count", "clock"}
       /\ o.op = "idle" <=> o = QrCodes!Idle
       /\ o # QrCodes!Idle => /\ o.code \in QrCodes!Ids
                              /\ [o EXCEPT !.op = "clock"] \in QrCodes!ScanStates
                              /\ [o EXCEPT !.op = "clock"].op = "clock"
                              /\ [o EXCEPT !.op = "clock"].code = o.code
  /\ QrCodes!Idle \in QrCodes!ScanStates
  /\ \A i \in QrCodes!Ids, route \in {"kiosk", "app"} :
       [op |-> "count", code |-> i, route |-> route] \in QrCodes!ScanStates
  BY DEF QrCodes!ScanStates, QrCodes!Idle

LEMMA ScanMoves ==
  ASSUME QrCodes!TypeOK, NEW s \in Scans, NEW state \in QrCodes!ScanStates,
         scan' = [scan EXCEPT ![s] = state]
  PROVE  /\ scan' \in [Scans -> QrCodes!ScanStates]
         /\ scan'[s] = state /\ \A t \in Scans \ {s} : scan'[t] = scan[t]
  BY DEF QrCodes!TypeOK

(* A scan in progress is of a code that exists. *)
LEMMA ScannedExist ==
  ASSUME CodesInv, NEW s \in Scans, scan[s] # QrCodes!Idle
  PROVE  /\ scan[s] \in QrCodes!ScanStates /\ scan[s].code \in QrCodes!Ids
         /\ codes[scan[s].code] \in QrCodes!Code
  <1>1. scan[s] \in QrCodes!ScanStates /\ QrCodes!TypeOK
    BY DEF CodesInv, CodesSound, QrCodes!TypeOK
  <1>2. scan[s].code \in QrCodes!Ids
    BY <1>1, ScanFields
  <1>3. codes[scan[s].code] # QrCodes!NoCode
    BY <1>2 DEF CodesInv, ScansCounted
  <1>. QED
    BY <1>1, <1>2, <1>3, CodeRows

(* What stays of the rows when one is counted, or all are revoked. *)
SameCodes ==
  /\ codes' \in [QrCodes!Ids -> QrCodes!Code \cup {QrCodes!NoCode}]
  /\ QrCodes!Active' \subseteq QrCodes!Active
  /\ \A i \in QrCodes!Ids :
       /\ codes'[i] = QrCodes!NoCode <=> codes[i] = QrCodes!NoCode
       /\ codes[i] # QrCodes!NoCode => codes'[i].expiresAt = codes[i].expiresAt

LEMMA CodesCounted ==
  ASSUME QrCodes!TypeOK, NEW i \in QrCodes!Ids, codes[i] \in QrCodes!Code,
         codes' = [codes EXCEPT ![i].scanCount = @ + 1]
  PROVE  /\ SameCodes /\ codes'[i].scanCount = codes[i].scanCount + 1
         /\ \A j \in QrCodes!Ids \ {i} : codes'[j] = codes[j]
  <1>. DEFINE n == [codes[i] EXCEPT !.scanCount = @ + 1]
  <1>1. /\ n \in QrCodes!Code /\ n.status = codes[i].status /\ n.expiresAt = codes[i].expiresAt
        /\ n.scanCount = codes[i].scanCount + 1 /\ n # QrCodes!NoCode
        /\ codes[i] # QrCodes!NoCode
    BY CodeFields
  <1>2. codes' = [codes EXCEPT ![i] = n]
    OBVIOUS
  <1>. HIDE DEF n
  <1>3. codes'[i] = n /\ \A j \in QrCodes!Ids \ {i} : codes'[j] = codes[j]
    BY <1>2 DEF QrCodes!TypeOK
  <1>4. codes' \in [QrCodes!Ids -> QrCodes!Code \cup {QrCodes!NoCode}]
    BY <1>1, <1>2 DEF QrCodes!TypeOK
  <1>5. QrCodes!Active' \subseteq QrCodes!Active
    BY <1>1, <1>3 DEF QrCodes!Active
  <1>. QED
    BY <1>1, <1>3, <1>4, <1>5 DEF SameCodes

LEMMA CodesRevoked ==
  ASSUME QrCodes!TypeOK, QrCodes!Revoke
  PROVE  /\ SameCodes
         /\ \A i \in QrCodes!Ids :
              codes[i] # QrCodes!NoCode => codes'[i].scanCount = codes[i].scanCount
  <1>. DEFINE R(c) == [c EXCEPT !.status = "REVOKED"]
  <1>1. codes' = [i \in QrCodes!Ids |-> IF i \in QrCodes!Active THEN R(codes[i]) ELSE codes[i]]
    BY DEF QrCodes!Revoke
  <1>2. \A i \in QrCodes!Active :
          /\ R(codes[i]) \in QrCodes!Code /\ R(codes[i]).status = "REVOKED"
          /\ R(codes[i]).expiresAt = codes[i].expiresAt
          /\ R(codes[i]).scanCount = codes[i].scanCount
          /\ R(codes[i]) # QrCodes!NoCode /\ codes[i] # QrCodes!NoCode
    BY CodeRows, CodeFields
  <1>3. \A i \in QrCodes!Ids : codes[i] = QrCodes!NoCode \/ codes[i] \in QrCodes!Code
    BY CodeRows
  <1>. HIDE DEF R
  <1>4. \A i \in QrCodes!Ids : codes'[i] = IF i \in QrCodes!Active THEN R(codes[i]) ELSE codes[i]
    BY <1>1
  <1>5. codes' \in [QrCodes!Ids -> QrCodes!Code \cup {QrCodes!NoCode}]
    BY <1>1, <1>2, <1>3
  <1>6. QrCodes!Active' \subseteq QrCodes!Active
    BY <1>4 DEF QrCodes!Active
  <1>. QED
    BY <1>2, <1>4, <1>5, <1>6 DEF SameCodes

(* The scans and the revocation leave requests and days alone. *)
LEMMA CodesKeepTyped ==
  ASSUME CodesInv, SameCodes, today' \in {today, today + 1} \cap 1..LastDay,
         scan' \in [Scans -> QrCodes!ScanStates],
         UNCHANGED <<rotating, crowded>>,
         \A b \in Handlers : admin'[b] \in {admin[b], QrCodes!Idle},
         admin' \in [Handlers -> QrCodes!AdminStates],
         clocked' \in [QrCodes!Ids -> Nat], uncounted' \in [QrCodes!Ids -> Nat]
  PROVE  CodesSound' /\ (crowded' \/ ReplacedSeen')
  <1>1. QrCodes!TypeOK'
    BY DEF QrCodes!TypeOK, SameCodes, CodesInv, CodesSound
  <1>2. today \in Nat /\ today' \in Nat /\ today' >= today
    BY CodeRows DEF CodesInv, CodesSound
  <1>3. RotatingDated' /\ SeenExist' /\ (crowded' \/ ReplacedSeen')
    BY <1>2, CodesKeep DEF SameCodes, CodesInv
  <1>. QED
    BY <1>1, <1>3 DEF CodesSound

LEMMA CodesSoundNext ==
  CodesInv /\ [QrCodes!Next]_(QrCodes!vars) => CodesSound' /\ (crowded' \/ ReplacedSeen')
  <1>. SUFFICES ASSUME CodesInv, [QrCodes!Next]_(QrCodes!vars)
                PROVE  CodesSound' /\ (crowded' \/ ReplacedSeen')
    OBVIOUS
  <1>. USE DEF QrCodes!history
  <1>1. /\ CodesSound /\ QrCodes!TypeOK /\ RotatingDated /\ SeenExist /\ (crowded \/ ReplacedSeen)
        /\ today \in 1..LastDay /\ today \in Nat
        /\ codes \in [QrCodes!Ids -> QrCodes!Code \cup {QrCodes!NoCode}]
        /\ admin \in [Handlers -> QrCodes!AdminStates] /\ scan \in [Scans -> QrCodes!ScanStates]
        /\ clocked \in [QrCodes!Ids -> Nat] /\ uncounted \in [QrCodes!Ids -> Nat]
        /\ rotating \subseteq QrCodes!Ids /\ crowded \in BOOLEAN
    BY DEF CodesInv, CodesSound, QrCodes!TypeOK
  <1>2. ASSUME NEW days \in StaticDays PROVE QrCodes!Expiry(days) \in Nat
    BY <1>1, <1>2, PartsAssumption DEF QrCodes!Expiry, QrCodes!Never
  <1>3. ASSUME NEW a \in Handlers,
               \/ QrCodes!GenerateRevoke(a)
               \/ \E days \in StaticDays :
                    QrCodes!GenerateStaticFind(a, days) \/ QrCodes!RegenerateExpiry(a, days)
        PROVE  CodesSound' /\ (crowded' \/ ReplacedSeen')
    <2>1. ASSUME QrCodes!GenerateRevoke(a) PROVE AdminsSound'
      <3>1. QrCodes!Dated \in SUBSET QrCodes!Ids
        BY DEF QrCodes!Dated, QrCodes!Active
      <3>. DEFINE state == [op |-> "generate", seen |-> QrCodes!Dated]
      <3>2. /\ state \in QrCodes!AdminStates /\ state # QrCodes!Idle
            /\ state.op = "generate" /\ state.seen = QrCodes!Dated
        BY <3>1, AdminFields
      <3>3. QrCodes!Start(a, state) /\ UNCHANGED <<today, codes, rotating>>
        BY <2>1 DEF QrCodes!GenerateRevoke
      <3>. HIDE DEF state
      <3>. QED
        BY <1>1, <3>2, <3>3, CodesStart
    <2>2. ASSUME NEW days \in StaticDays, QrCodes!GenerateStaticFind(a, days) PROVE AdminsSound'
      <3>. DEFINE state == [op |-> "static", expiresAt |-> QrCodes!Expiry(days)]
      <3>1. state \in QrCodes!AdminStates /\ state # QrCodes!Idle /\ state.op = "static"
        BY <1>2, AdminFields
      <3>2. /\ QrCodes!Start(a, state) /\ UNCHANGED <<today, codes, rotating>>
            /\ QrCodes!Static = {}
        BY <2>2 DEF QrCodes!GenerateStaticFind
      <3>. HIDE DEF state
      <3>. QED
        BY <1>1, <3>1, <3>2, CodesStart
    <2>3. ASSUME NEW days \in StaticDays, QrCodes!RegenerateExpiry(a, days) PROVE AdminsSound'
      <3>. DEFINE state == [op |-> "regenerate", expiresAt |-> QrCodes!Expiry(days)]
      <3>1. state \in QrCodes!AdminStates /\ state # QrCodes!Idle /\ state.op = "regenerate"
        BY <1>2, AdminFields
      <3>2. QrCodes!Start(a, state) /\ UNCHANGED <<today, codes, rotating>>
        BY <2>3 DEF QrCodes!RegenerateExpiry
      <3>. HIDE DEF state
      <3>. QED
        BY <1>1, <3>1, <3>2, CodesStart
    <2>4. AdminsSound'
      BY <1>3, <2>1, <2>2, <2>3
    <2>5. UNCHANGED <<today, codes, scan, rotating, clocked, uncounted>>
      BY <1>3 DEF QrCodes!GenerateRevoke, QrCodes!GenerateStaticFind, QrCodes!RegenerateExpiry
    <2>. QED
      BY <1>1, <2>4, <2>5 DEF AdminsSound, CodesSound, QrCodes!TypeOK
  <1>4. ASSUME NEW a \in Handlers,
               \/ QrCodes!GenerateCreate(a) \/ QrCodes!GenerateStaticCreate(a)
               \/ QrCodes!RegenerateCreate(a)
        PROVE  CodesSound' /\ (crowded' \/ ReplacedSeen')
    <2>. DEFINE o == admin[a]
    <2>1. /\ o \in QrCodes!AdminStates /\ o.op \in {"generate", "static", "replace"}
          /\ o # QrCodes!Idle
      BY <1>1, <1>4, AdminFields DEF QrCodes!GenerateCreate, QrCodes!GenerateStaticCreate,
         QrCodes!RegenerateCreate
    <2>2. /\ o.op \in {"generate", "replace"} => /\ o.seen \in SUBSET QrCodes!Ids
                                                /\ \A j \in o.seen : codes[j] # QrCodes!NoCode
          /\ o.op \in {"static", "replace"} => o.expiresAt \in Nat
      BY <1>1, <2>1, AdminFields DEF SeenExist
    <2>3. ASSUME QrCodes!GenerateCreate(a)
          PROVE  AdminsSound' /\ codes' \in [QrCodes!Ids -> QrCodes!Code \cup {QrCodes!NoCode}]
      <3>1. PICK i \in QrCodes!Ids : /\ QrCodes!New(i) /\ QrCodes!Replace(o.seen, i, today + 1)
                                     /\ rotating' = rotating \cup {i}
        BY <2>3 DEF QrCodes!GenerateCreate
      <3>2. /\ o.op = "generate" /\ QrCodes!End(a) /\ today' = today /\ crowded' = crowded
            /\ today + 1 \in Nat
        BY <1>1, <2>3 DEF QrCodes!GenerateCreate
      <3>. QED
        BY <1>1, <2>1, <2>2, <3>1, <3>2, CodesCreate
    <2>4. ASSUME QrCodes!GenerateStaticCreate(a)
          PROVE  AdminsSound' /\ codes' \in [QrCodes!Ids -> QrCodes!Code \cup {QrCodes!NoCode}]
      <3>1. PICK i \in QrCodes!Ids : QrCodes!New(i) /\ QrCodes!Replace({}, i, o.expiresAt)
        BY <2>4 DEF QrCodes!GenerateStaticCreate
      <3>2. /\ o.op = "static" /\ QrCodes!End(a) /\ today' = today /\ crowded' = crowded
            /\ rotating' = rotating /\ {} \in SUBSET QrCodes!Ids
        BY <1>1, <2>4 DEF QrCodes!GenerateStaticCreate
      <3>. QED
        BY <1>1, <2>1, <2>2, <3>1, <3>2, CodesCreate
    <2>5. ASSUME QrCodes!RegenerateCreate(a)
          PROVE  AdminsSound' /\ codes' \in [QrCodes!Ids -> QrCodes!Code \cup {QrCodes!NoCode}]
      <3>1. PICK i \in QrCodes!Ids : QrCodes!New(i) /\ QrCodes!Replace(o.seen, i, o.expiresAt)
        BY <2>5 DEF QrCodes!RegenerateCreate
      <3>2. /\ o.op = "replace" /\ QrCodes!End(a) /\ today' = today /\ crowded' = crowded
            /\ rotating' = rotating
        BY <1>1, <2>5 DEF QrCodes!RegenerateCreate
      <3>. QED
        BY <1>1, <2>1, <2>2, <3>1, <3>2, CodesCreate
    <2>6. AdminsSound' /\ codes' \in [QrCodes!Ids -> QrCodes!Code \cup {QrCodes!NoCode}]
      BY <1>4, <2>3, <2>4, <2>5
    <2>7. /\ UNCHANGED <<today, scan, crowded, clocked, uncounted>>
          /\ rotating' \subseteq QrCodes!Ids
      BY <1>1, <1>4 DEF QrCodes!GenerateCreate, QrCodes!GenerateStaticCreate,
         QrCodes!RegenerateCreate
    <2>. QED
      BY <1>1, <2>6, <2>7 DEF AdminsSound, CodesSound, QrCodes!TypeOK
  <1>5. ASSUME NEW a \in Handlers, QrCodes!RegenerateRevoke(a)
        PROVE  CodesSound' /\ (crowded' \/ ReplacedSeen')
    <2>. DEFINE state == [op |-> "replace", expiresAt |-> admin[a].expiresAt,
                          seen |-> QrCodes!Static]
    <2>1. /\ admin[a].op = "regenerate" /\ admin' = [admin EXCEPT ![a] = state]
          /\ UNCHANGED <<today, codes, scan, rotating, crowded, clocked, uncounted>>
      BY <1>5 DEF QrCodes!RegenerateRevoke
    <2>2. QrCodes!Static \in SUBSET QrCodes!Ids /\ admin[a].expiresAt \in Nat /\ a \in Busy
      BY <1>1, <2>1, AdminFields DEF QrCodes!Static, QrCodes!Active, Busy
    <2>3. /\ state \in QrCodes!AdminStates /\ state # QrCodes!Idle
          /\ state.op = "replace" /\ state.seen = QrCodes!Static
      BY <2>2, AdminFields
    <2>. HIDE DEF state
    <2>4. /\ admin' \in [Handlers -> QrCodes!AdminStates]
          /\ admin'[a] = state /\ \A b \in Handlers \ {a} : admin'[b] = admin[b]
          /\ Busy' = Busy \cup {a}
      BY <1>1, <2>1, <2>3, AdminMoves
    <2>5. \A i \in QrCodes!Static : codes[i] # QrCodes!NoCode
      BY <1>1, CodeRows, CodeFields DEF QrCodes!Static
    <2>6. /\ QrCodes!Active' = QrCodes!Active /\ QrCodes!Dated' = QrCodes!Dated
          /\ QrCodes!Static' = QrCodes!Static
      BY <2>1 DEF QrCodes!Active, QrCodes!Dated, QrCodes!Static
    <2>7. RotatingDated' /\ SeenExist'
      <3>1. codes' = codes /\ rotating' = rotating
        BY <2>1
      <3>2. RotatingDated'
        BY <1>1, <3>1 DEF RotatingDated
      <3>3. \A b \in Handlers : admin'[b].op \in {"generate", "replace"} =>
              \A i \in admin'[b].seen : codes[i] # QrCodes!NoCode
        BY <1>1, <2>3, <2>4, <2>5 DEF SeenExist
      <3>. QED
        BY <3>1, <3>2, <3>3 DEF SeenExist
    <2>8. ASSUME ReplacedSeen PROVE ReplacedSeen'
      BY <2>1, <2>2, <2>3, <2>4, <2>6, <2>8 DEF ReplacedSeen
    <2>. QED
      BY <1>1, <2>1, <2>4, <2>7, <2>8 DEF CodesSound, QrCodes!TypeOK
  <1>6. SameCodes /\ scan' \in [Scans -> QrCodes!ScanStates] /\ clocked' \in [QrCodes!Ids -> Nat]
        /\ uncounted' \in [QrCodes!Ids -> Nat] /\ UNCHANGED <<rotating, crowded, today, admin>>
        => CodesSound' /\ (crowded' \/ ReplacedSeen')
    BY <1>1, CodesKeepTyped
  <1>7. UNCHANGED codes => SameCodes
    BY <1>1 DEF SameCodes, QrCodes!Active
  <1>8. CASE QrCodes!Revoke
    BY <1>1, <1>6, <1>8, CodesRevoked DEF QrCodes!Revoke
  <1>9. ASSUME NEW a \in Handlers, QrCodes!Fail(a)
        PROVE  CodesSound' /\ (crowded' \/ ReplacedSeen')
    <2>1. /\ admin' \in [Handlers -> QrCodes!AdminStates]
          /\ \A b \in Handlers : admin'[b] \in {admin[b], QrCodes!Idle}
      BY <1>1, <1>9, AdminMoves, AdminFields DEF QrCodes!Fail, QrCodes!End
    <2>. QED
      BY <1>1, <1>7, <1>9, <2>1, CodesKeepTyped DEF QrCodes!Fail
  <1>10. ASSUME NEW s \in Scans, NEW i \in QrCodes!Ids, NEW route \in {"kiosk", "app"},
                QrCodes!Validate(s, i, route)
         PROVE  CodesSound' /\ (crowded' \/ ReplacedSeen')
    <2>1. scan' \in [Scans -> QrCodes!ScanStates]
      BY <1>1, <1>10, ScanFields, ScanMoves DEF QrCodes!Validate
    <2>. QED
      BY <1>1, <1>6, <1>7, <1>10, <2>1 DEF QrCodes!Validate
  <1>11. ASSUME NEW s \in Scans, QrCodes!Count(s)
         PROVE  CodesSound' /\ (crowded' \/ ReplacedSeen')
    <2>1. /\ scan[s] \in QrCodes!ScanStates /\ scan[s].code \in QrCodes!Ids
          /\ codes[scan[s].code] \in QrCodes!Code /\ scan[s] # QrCodes!Idle
      BY <1>11, ScannedExist DEF QrCodes!Count, QrCodes!Idle
    <2>2. scan' \in [Scans -> QrCodes!ScanStates]
      BY <1>1, <1>11, <2>1, ScanFields, ScanMoves DEF QrCodes!Count
    <2>3. SameCodes
      BY <1>1, <1>7, <1>11, <2>1, CodesCounted DEF QrCodes!Count
    <2>4. uncounted' \in [QrCodes!Ids -> Nat]
      BY <1>1, <1>11, <2>1 DEF QrCodes!Count
    <2>5. UNCHANGED <<today, admin, rotating, crowded, clocked>>
      BY <1>11 DEF QrCodes!Count
    <2>. QED
      BY <1>1, <1>6, <2>2, <2>3, <2>4, <2>5
  <1>12. ASSUME NEW s \in Scans, QrCodes!Clock(s)
         PROVE  CodesSound' /\ (crowded' \/ ReplacedSeen')
    <2>1. scan[s] # QrCodes!Idle
      BY <1>12 DEF QrCodes!Clock, QrCodes!Idle
    <2>2. scan' \in [Scans -> QrCodes!ScanStates] /\ scan[s].code \in QrCodes!Ids
      BY <1>1, <1>12, <2>1, ScannedExist, ScanFields, ScanMoves DEF QrCodes!Clock
    <2>3. clocked' \in [QrCodes!Ids -> Nat]
      BY <1>1, <1>12, <2>2 DEF QrCodes!Clock
    <2>. QED
      BY <1>1, <1>6, <1>7, <1>12, <2>2, <2>3 DEF QrCodes!Clock
  <1>13. ASSUME NEW s \in Scans, QrCodes!Refuse(s)
         PROVE  CodesSound' /\ (crowded' \/ ReplacedSeen')
    <2>1. scan' \in [Scans -> QrCodes!ScanStates]
      BY <1>1, <1>13, ScanFields, ScanMoves DEF QrCodes!Refuse
    <2>. QED
      BY <1>1, <1>6, <1>7, <1>13, <2>1 DEF QrCodes!Refuse
  <1>14. CASE QrCodes!NextDay
    <2>1. /\ today' = today + 1 /\ today' \in 1..LastDay
          /\ UNCHANGED <<codes, admin, scan, rotating, crowded, clocked, uncounted>>
      BY <1>1, <1>14, PartsAssumption DEF QrCodes!NextDay
    <2>. QED
      BY <1>1, <1>7, <2>1, CodesKeepTyped
  <1>15. CASE UNCHANGED QrCodes!vars
    BY <1>1, <1>6, <1>7, <1>15 DEF QrCodes!vars
  <1>. QED
    BY <1>3, <1>4, <1>5, <1>8, <1>9, <1>10, <1>11, <1>12, <1>13, <1>14, <1>15 DEF QrCodes!Next

(* Every clocking shows in the count of its code, or among the uncounted.  *)
LEMMA PendingCount ==
  ASSUME NEW i
  PROVE  /\ IsFiniteSet(Pending(i)) /\ Cardinality(Pending(i)) \in Nat
         /\ IsFiniteSet(Pending(i)') /\ Cardinality(Pending(i)') \in Nat
         /\ Pending(i)' \subseteq Pending(i) => Cardinality(Pending(i)') <= Cardinality(Pending(i))
         /\ \A s \in Pending(i) :
              Pending(i)' = Pending(i) \ {s} => Cardinality(Pending(i)') = Cardinality(Pending(i)) - 1
         /\ \A s \in Scans : Pending(i)' \subseteq Pending(i) \cup {s} =>
              Cardinality(Pending(i)') <= Cardinality(Pending(i)) + 1
  <1>1. IsFiniteSet(Pending(i)) /\ IsFiniteSet(Pending(i)')
    <2>1. IsFiniteSet(Scans) /\ Pending(i) \subseteq Scans /\ Pending(i)' \subseteq Scans
      BY PartsAssumption DEF Pending
    <2>. QED
      BY <2>1, FS_Subset
  <1>2. Cardinality(Pending(i)) \in Nat /\ Cardinality(Pending(i)') \in Nat
    BY <1>1, FS_CardinalityType
  <1>3. Pending(i)' \subseteq Pending(i) => Cardinality(Pending(i)') <= Cardinality(Pending(i))
    BY <1>1, FS_Subset
  <1>4. ASSUME NEW s \in Pending(i), Pending(i)' = Pending(i) \ {s}
        PROVE  Cardinality(Pending(i)') = Cardinality(Pending(i)) - 1
    <2>1. Cardinality(Pending(i) \ {s}) = Cardinality(Pending(i)) - 1
      BY <1>1, FS_RemoveElement
    <2>. QED
      BY <1>4, <2>1
  <1>5. ASSUME NEW s \in Scans, Pending(i)' \subseteq Pending(i) \cup {s}
        PROVE  Cardinality(Pending(i)') <= Cardinality(Pending(i)) + 1
    <2>1. /\ IsFiniteSet(Pending(i) \cup {s})
          /\ Cardinality(Pending(i) \cup {s}) \in {Cardinality(Pending(i)), Cardinality(Pending(i)) + 1}
      BY <1>1, FS_AddElement
    <2>2. Cardinality(Pending(i)') <= Cardinality(Pending(i) \cup {s})
      BY <1>5, <2>1, FS_Subset
    <2>. QED
      BY <1>2, <2>1, <2>2
  <1>. QED
    BY <1>1, <1>2, <1>3, <1>4, <1>5

LEMMA ScansKeepCount ==
  ASSUME CodesInv, UNCHANGED <<clocked, uncounted>>,
         \A s \in Scans : \/ scan'[s] \in {scan[s], QrCodes!Idle}
                          \/ /\ scan'[s].op = "count"
                             /\ codes[scan'[s].code] # QrCodes!NoCode,
         \A i \in QrCodes!Ids :
           IF codes[i] = QrCodes!NoCode
           THEN codes'[i] = QrCodes!NoCode \/ codes'[i].scanCount = 0
           ELSE codes'[i] # QrCodes!NoCode /\ codes'[i].scanCount = codes[i].scanCount
  PROVE  ScansCounted'
  <1>. SUFFICES ASSUME NEW i \in QrCodes!Ids
                PROVE  IF codes'[i] = QrCodes!NoCode
                       THEN clocked[i] = 0 /\ \A s \in Scans :
                              scan'[s] # QrCodes!Idle => scan'[s].code # i
                       ELSE clocked[i] + Cardinality(Pending(i)') <= codes'[i].scanCount + uncounted[i]
    BY DEF ScansCounted, Pending
  <1>1. /\ clocked[i] \in Nat /\ uncounted[i] \in Nat
        /\ codes[i] = QrCodes!NoCode \/ codes[i].scanCount \in Nat
    BY CodeRows, CodeFields DEF CodesInv, CodesSound, QrCodes!TypeOK
  <1>2. QrCodes!Idle.op = "idle"
    BY DEF QrCodes!Idle
  <1>3. Pending(i)' \subseteq Pending(i)
    BY <1>2 DEF Pending
  <1>4. /\ Cardinality(Pending(i)) \in Nat /\ Cardinality(Pending(i)') \in Nat
        /\ Cardinality(Pending(i)') <= Cardinality(Pending(i))
    BY <1>3, PendingCount
  <1>5. CASE codes[i] = QrCodes!NoCode
    <2>1. clocked[i] = 0 /\ \A s \in Scans : scan[s] # QrCodes!Idle => scan[s].code # i
      BY <1>5 DEF CodesInv, ScansCounted
    <2>2. \A s \in Scans : scan'[s] # QrCodes!Idle => scan'[s].code # i
      BY <1>5, <2>1
    <2>3. Pending(i)' = {}
      BY <1>2, <2>2 DEF Pending
    <2>4. Cardinality(Pending(i)') = 0
      BY <2>3, FS_EmptySet
    <2>. QED
      BY <1>1, <1>5, <2>1, <2>2, <2>4
  <1>6. CASE codes[i] # QrCodes!NoCode
    <2>1. clocked[i] + Cardinality(Pending(i)) <= codes[i].scanCount + uncounted[i]
      BY <1>6 DEF CodesInv, ScansCounted
    <2>. QED
      BY <1>1, <1>4, <1>6, <2>1
  <1>. QED
    BY <1>5, <1>6

LEMMA ScansCountedNext == CodesInv /\ [QrCodes!Next]_(QrCodes!vars) => ScansCounted'
  <1>. SUFFICES ASSUME CodesInv, [QrCodes!Next]_(QrCodes!vars) PROVE ScansCounted'
    OBVIOUS
  <1>. USE DEF QrCodes!history
  <1>1. /\ CodesSound /\ QrCodes!TypeOK /\ SeenExist /\ today \in Nat
        /\ admin \in [Handlers -> QrCodes!AdminStates] /\ scan \in [Scans -> QrCodes!ScanStates]
        /\ clocked \in [QrCodes!Ids -> Nat] /\ uncounted \in [QrCodes!Ids -> Nat]
        /\ \A i \in QrCodes!Ids : codes[i] = QrCodes!NoCode \/ codes[i] \in QrCodes!Code
    BY CodeRows DEF CodesInv, CodesSound, QrCodes!TypeOK
  <1>2. CASE UNCHANGED <<codes, scan, clocked, uncounted>>
    BY <1>1, <1>2, CodeFields, ScansKeepCount
  <1>3. CASE QrCodes!Revoke
    <2>1. \A i \in QrCodes!Ids :
            IF codes[i] = QrCodes!NoCode THEN codes'[i] = QrCodes!NoCode
            ELSE codes'[i] # QrCodes!NoCode /\ codes'[i].scanCount = codes[i].scanCount
      BY <1>1, <1>3, CodesRevoked DEF SameCodes
    <2>2. UNCHANGED <<scan, clocked, uncounted>>
      BY <1>3 DEF QrCodes!Revoke
    <2>. QED
      BY <2>1, <2>2, ScansKeepCount
  <1>4. ASSUME NEW gone \in SUBSET QrCodes!Ids, NEW i \in QrCodes!Ids, NEW e \in Nat,
               \A j \in gone : codes[j] # QrCodes!NoCode,
               QrCodes!New(i), QrCodes!Replace(gone, i, e), UNCHANGED <<scan, clocked, uncounted>>
        PROVE  ScansCounted'
    <2>1. Replaced(gone, i, e)
      BY <1>1, <1>4, CodeReplaced
    <2>2. \A j \in QrCodes!Ids :
            IF codes[j] = QrCodes!NoCode
            THEN codes'[j] = QrCodes!NoCode \/ codes'[j].scanCount = 0
            ELSE codes'[j] # QrCodes!NoCode /\ codes'[j].scanCount = codes[j].scanCount
      BY <2>1 DEF Replaced
    <2>. QED
      BY <1>4, <2>2, ScansKeepCount
  <1>5. ASSUME NEW a \in Handlers,
               \/ QrCodes!GenerateCreate(a) \/ QrCodes!GenerateStaticCreate(a)
               \/ QrCodes!RegenerateCreate(a)
        PROVE  ScansCounted'
    <2>1. admin[a] \in QrCodes!AdminStates /\ UNCHANGED <<scan, clocked, uncounted>>
      BY <1>1, <1>5 DEF QrCodes!GenerateCreate, QrCodes!GenerateStaticCreate,
         QrCodes!RegenerateCreate
    <2>2. CASE QrCodes!GenerateCreate(a)
      <3>1. PICK i \in QrCodes!Ids : QrCodes!New(i) /\ QrCodes!Replace(admin[a].seen, i, today + 1)
        BY <2>2 DEF QrCodes!GenerateCreate
      <3>2. /\ admin[a].seen \in SUBSET QrCodes!Ids /\ today + 1 \in Nat
            /\ \A j \in admin[a].seen : codes[j] # QrCodes!NoCode
        BY <1>1, <2>1, <2>2, AdminFields DEF QrCodes!GenerateCreate, SeenExist
      <3>. QED
        BY <1>4, <2>1, <3>1, <3>2
    <2>3. CASE QrCodes!GenerateStaticCreate(a)
      <3>1. PICK i \in QrCodes!Ids : QrCodes!New(i) /\ QrCodes!Replace({}, i, admin[a].expiresAt)
        BY <2>3 DEF QrCodes!GenerateStaticCreate
      <3>2. admin[a].expiresAt \in Nat /\ {} \in SUBSET QrCodes!Ids
        BY <2>1, <2>3, AdminFields DEF QrCodes!GenerateStaticCreate
      <3>. QED
        BY <1>4, <2>1, <3>1, <3>2
    <2>4. CASE QrCodes!RegenerateCreate(a)
      <3>1. PICK i \in QrCodes!Ids :
              QrCodes!New(i) /\ QrCodes!Replace(admin[a].seen, i, admin[a].expiresAt)
        BY <2>4 DEF QrCodes!RegenerateCreate
      <3>2. /\ admin[a].seen \in SUBSET QrCodes!Ids /\ admin[a].expiresAt \in Nat
            /\ \A j \in admin[a].seen : codes[j] # QrCodes!NoCode
        BY <1>1, <2>1, <2>4, AdminFields DEF QrCodes!RegenerateCreate, SeenExist
      <3>. QED
        BY <1>4, <2>1, <3>1, <3>2
    <2>. QED
      BY <1>5, <2>2, <2>3, <2>4
  <1>6. ASSUME NEW s \in Scans, NEW i \in QrCodes!Ids, NEW route \in {"kiosk", "app"},
               QrCodes!Validate(s, i, route)
        PROVE  ScansCounted'
    <2>. DEFINE state == [op |-> "count", code |-> i, route |-> route]
    <2>1. state \in QrCodes!ScanStates /\ state.op = "count" /\ state.code = i
      BY ScanFields
    <2>2. /\ scan' = [scan EXCEPT ![s] = state] /\ codes[i].status = "ACTIVE"
          /\ UNCHANGED <<codes, clocked, uncounted>>
      BY <1>6 DEF QrCodes!Validate, QrCodes!Scannable
    <2>3. codes[i] # QrCodes!NoCode
      BY <2>2 DEF QrCodes!NoCode
    <2>. HIDE DEF state
    <2>4. scan'[s] = state /\ \A t \in Scans \ {s} : scan'[t] = scan[t]
      BY <1>1, <2>1, <2>2, ScanMoves
    <2>5. \A t \in Scans : \/ scan'[t] \in {scan[t], QrCodes!Idle}
                           \/ scan'[t].op = "count" /\ codes[scan'[t].code] # QrCodes!NoCode
      BY <2>1, <2>3, <2>4
    <2>. QED
      BY <1>1, <2>2, <2>5, CodeFields, ScansKeepCount
  <1>7. ASSUME NEW s \in Scans, QrCodes!Refuse(s) PROVE ScansCounted'
    <2>1. /\ \A t \in Scans : scan'[t] \in {scan[t], QrCodes!Idle}
          /\ UNCHANGED <<codes, clocked, uncounted>>
      BY <1>1, <1>7, ScanFields, ScanMoves DEF QrCodes!Refuse
    <2>. QED
      BY <1>1, <2>1, CodeFields, ScansKeepCount
  <1>8. ASSUME NEW s \in Scans, QrCodes!Count(s) PROVE ScansCounted'
    <2>. DEFINE state == [scan[s] EXCEPT !.op = "clock"]
    <2>1. /\ scan[s] \in QrCodes!ScanStates /\ scan[s] # QrCodes!Idle
          /\ \E i \in QrCodes!Ids : i = scan[s].code /\ codes[i] \in QrCodes!Code
      <3>1. scan[s] # QrCodes!Idle
        BY <1>8 DEF QrCodes!Count, QrCodes!Idle
      <3>. QED
        BY <3>1, ScannedExist
    <2>0. PICK i \in QrCodes!Ids : i = scan[s].code /\ codes[i] \in QrCodes!Code
      BY <2>1
    <2>10. codes[i].scanCount \in Nat /\ codes[i] # QrCodes!NoCode
      BY <2>0, CodeFields
    <2>2. state \in QrCodes!ScanStates /\ state.op = "clock" /\ state.code = i
      BY <2>0, <2>1, ScanFields
    <2>3. scan' = [scan EXCEPT ![s] = state] /\ UNCHANGED clocked
      BY <1>8 DEF QrCodes!Count
    <2>4. \/ codes' = [codes EXCEPT ![i].scanCount = @ + 1] /\ UNCHANGED uncounted
          \/ uncounted' = [uncounted EXCEPT ![i] = @ + 1] /\ UNCHANGED codes
      BY <1>8, <2>0 DEF QrCodes!Count
    <2>5. /\ \A j \in QrCodes!Ids \ {i} : codes'[j] = codes[j] /\ uncounted'[j] = uncounted[j]
          /\ codes'[i] # QrCodes!NoCode
          /\ codes'[i].scanCount + uncounted'[i] = codes[i].scanCount + uncounted[i] + 1
      <3>1. CASE codes' = [codes EXCEPT ![i].scanCount = @ + 1] /\ UNCHANGED uncounted
        <4>1. /\ SameCodes /\ codes'[i].scanCount = codes[i].scanCount + 1
              /\ \A j \in QrCodes!Ids \ {i} : codes'[j] = codes[j]
          BY <1>1, <2>0, <3>1, CodesCounted
        <4>2. codes'[i] # QrCodes!NoCode /\ uncounted[i] \in Nat
          BY <1>1, <2>10, <4>1 DEF SameCodes
        <4>. QED
          BY <2>10, <3>1, <4>1, <4>2
      <3>2. CASE uncounted' = [uncounted EXCEPT ![i] = @ + 1] /\ UNCHANGED codes
        BY <1>1, <2>10, <3>2
      <3>. QED
        BY <2>4, <3>1, <3>2
    <2>. HIDE DEF state
    <2>6. scan'[s] = state /\ \A t \in Scans \ {s} : scan'[t] = scan[t]
      BY <1>1, <2>2, <2>3, ScanMoves
    <2>7. ASSUME NEW j \in QrCodes!Ids \ {i}, codes[j] = QrCodes!NoCode
          PROVE  clocked'[j] = 0 /\ \A t \in Scans : scan'[t] # QrCodes!Idle => scan'[t].code # j
      <3>1. clocked[j] = 0 /\ \A t \in Scans : scan[t] # QrCodes!Idle => scan[t].code # j
        BY <2>7 DEF CodesInv, ScansCounted
      <3>. QED
        BY <2>2, <2>3, <2>6, <3>1
    <2>8. ASSUME NEW j \in QrCodes!Ids \ {i}, codes[j] # QrCodes!NoCode
          PROVE  clocked'[j] + Cardinality(Pending(j)') <= codes'[j].scanCount + uncounted'[j]
      <3>1. Pending(j)' = Pending(j)
        BY <2>0, <2>2, <2>6 DEF Pending
      <3>2. clocked[j] + Cardinality(Pending(j)) <= codes[j].scanCount + uncounted[j]
        BY <2>8 DEF CodesInv, ScansCounted
      <3>. QED
        BY <2>3, <2>5, <3>1, <3>2
    <2>9. clocked'[i] + Cardinality(Pending(i)') <= codes'[i].scanCount + uncounted'[i]
      <3>1. Pending(i)' \subseteq Pending(i) \cup {s}
        BY <2>6 DEF Pending
      <3>2. /\ Cardinality(Pending(i)) \in Nat /\ Cardinality(Pending(i)') \in Nat
            /\ Cardinality(Pending(i)') <= Cardinality(Pending(i)) + 1
        BY <3>1, PendingCount
      <3>3. clocked[i] + Cardinality(Pending(i)) <= codes[i].scanCount + uncounted[i]
        BY <2>10 DEF CodesInv, ScansCounted
      <3>4. clocked[i] \in Nat /\ uncounted[i] \in Nat /\ clocked'[i] = clocked[i]
        BY <1>1, <2>3
      <3>. QED
        BY <2>10, <2>5, <3>2, <3>3, <3>4
    <2>. QED
      BY <2>10, <2>5, <2>7, <2>8, <2>9 DEF ScansCounted
  <1>9. ASSUME NEW s \in Scans, QrCodes!Clock(s) PROVE ScansCounted'
    <2>0. PICK i \in QrCodes!Ids : i = scan[s].code /\ codes[i] \in QrCodes!Code
      <3>1. scan[s] # QrCodes!Idle
        BY <1>9 DEF QrCodes!Clock, QrCodes!Idle
      <3>. QED
        BY <3>1, ScannedExist
    <2>1. /\ scan[s].op = "clock" /\ codes[i] # QrCodes!NoCode /\ codes[i].scanCount \in Nat
      BY <1>9, <2>0, CodeFields DEF QrCodes!Clock
    <2>2. /\ clocked' = [clocked EXCEPT ![i] = @ + 1] /\ scan' = [scan EXCEPT ![s] = QrCodes!Idle]
          /\ UNCHANGED <<codes, uncounted>>
      BY <1>9, <2>0 DEF QrCodes!Clock
    <2>3. scan'[s] = QrCodes!Idle /\ \A t \in Scans \ {s} : scan'[t] = scan[t]
      BY <1>1, <2>2, ScanFields, ScanMoves
    <2>4. \A j \in QrCodes!Ids \ {i} : clocked'[j] = clocked[j] /\ Pending(j)' = Pending(j)
      <3>1. QrCodes!Idle.op = "idle"
        BY DEF QrCodes!Idle
      <3>. QED
        BY <1>1, <2>0, <2>2, <2>3, <3>1 DEF Pending
    <2>5. clocked'[i] + Cardinality(Pending(i)') <= codes'[i].scanCount + uncounted'[i]
      <3>1. QrCodes!Idle.op = "idle"
        BY DEF QrCodes!Idle
      <3>2. Pending(i)' = Pending(i) \ {s} /\ s \in Pending(i)
        BY <2>0, <2>1, <2>3, <3>1 DEF Pending
      <3>3. /\ Cardinality(Pending(i)) \in Nat /\ Cardinality(Pending(i)') \in Nat
            /\ Cardinality(Pending(i)') = Cardinality(Pending(i)) - 1
        BY <3>2, PendingCount
      <3>4. clocked[i] + Cardinality(Pending(i)) <= codes[i].scanCount + uncounted[i]
        BY <2>1 DEF CodesInv, ScansCounted
      <3>5. clocked[i] \in Nat /\ uncounted[i] \in Nat /\ clocked'[i] = clocked[i] + 1
        BY <1>1, <2>1, <2>2
      <3>. QED
        BY <2>1, <2>2, <3>3, <3>4, <3>5
    <2>6. ASSUME NEW j \in QrCodes!Ids, codes[j] = QrCodes!NoCode
          PROVE  clocked'[j] = 0 /\ \A t \in Scans : scan'[t] # QrCodes!Idle => scan'[t].code # j
      <3>1. clocked[j] = 0 /\ \A t \in Scans : scan[t] # QrCodes!Idle => scan[t].code # j
        BY <2>6 DEF CodesInv, ScansCounted
      <3>. QED
        BY <2>1, <2>3, <2>4, <2>6, <3>1
    <2>. QED
      BY <2>2, <2>4, <2>5, <2>6 DEF CodesInv, ScansCounted
  <1>. QED
    BY <1>2, <1>3, <1>5, <1>6, <1>7, <1>8, <1>9 DEF QrCodes!Next, QrCodes!vars,
       QrCodes!GenerateRevoke, QrCodes!GenerateStaticFind, QrCodes!RegenerateExpiry,
       QrCodes!RegenerateRevoke, QrCodes!Fail, QrCodes!NextDay

LEMMA CodesCardinality == \A S : QrCodes!Cardinality(S) = Cardinality(S)
  BY DEF QrCodes!Cardinality, Cardinality

LEMMA CodesInvKept == CodesInv => QrCodes!OneOfEachKind /\ QrCodes!ClockingsCounted
  <1>. SUFFICES ASSUME CodesInv PROVE QrCodes!OneOfEachKind /\ QrCodes!ClockingsCounted
    OBVIOUS
  <1>1. ASSUME ReplacedSeen PROVE QrCodes!OneOfEachKind
    <2>. DEFINE R == rotating \cap QrCodes!Active
    <2>1. \A i, j \in R : i = j
      BY <1>1 DEF ReplacedSeen
    <2>2. R = {} \/ \E i \in R : R = {i}
      BY <2>1
    <2>3. Cardinality({}) = 0 /\ \A i : Cardinality({i}) = 1
      BY FS_EmptySet, FS_Singleton
    <2>. HIDE DEF R
    <2>4. Cardinality(R) = 0 \/ Cardinality(R) = 1
      BY <2>2, <2>3
    <2>5. QrCodes!Cardinality(R) = Cardinality(R)
      BY CodesCardinality
    <2>6. QrCodes!Cardinality(R) <= 1
      BY <2>4, <2>5
    <2>7. \A i \in QrCodes!Active : QrCodes!Lasts(i) <=> i \in QrCodes!Static
      BY DEF QrCodes!Lasts, QrCodes!Static
    <2>. QED
      BY <1>1, <2>6, <2>7 DEF ReplacedSeen, QrCodes!OneOfEachKind, R
  <1>2. crowded => QrCodes!OneOfEachKind
    BY DEF QrCodes!OneOfEachKind
  <1>3. ASSUME NEW i \in QrCodes!Ids, codes[i] # QrCodes!NoCode
        PROVE  clocked[i] <= codes[i].scanCount + uncounted[i]
    <2>1. clocked[i] + Cardinality(Pending(i)) <= codes[i].scanCount + uncounted[i]
      BY <1>3 DEF CodesInv, ScansCounted
    <2>2. Cardinality(Pending(i)) \in Nat
      BY PendingCount
    <2>3. clocked[i] \in Nat /\ uncounted[i] \in Nat /\ codes[i].scanCount \in Nat
      BY <1>3, CodeRows, CodeFields DEF CodesInv, CodesSound, QrCodes!TypeOK
    <2>. QED
      BY <2>1, <2>2, <2>3
  <1>. QED
    BY <1>1, <1>2, <1>3 DEF CodesInv, QrCodes!ClockingsCounted

(* The codes by themselves: one of each kind, and every clocking counted.  *)
THEOREM CodesAlwaysKept ==
  QrCodes!Spec => [](QrCodes!OneOfEachKind /\ QrCodes!ClockingsCounted)
  <1>1. CodesInv /\ [QrCodes!Next]_(QrCodes!vars) => CodesInv'
    BY CodesSoundNext, ScansCountedNext DEF CodesInv
  <1>. QED
    BY CodesInvInit, CodesInvKept, <1>1, PTL DEF QrCodes!Spec

(* At most one rotating and one static code are active while no two admins *)
(* overlap, and every clocking by a code is counted however scans,         *)
(* revocations and days interleave, for any number of admins, scans and    *)
(* codes and any expiry that is set. *)
THEOREM PartsCodesKept == PartsSpec => []CodesKept
  <1>1. QrCodes!OneOfEachKind /\ QrCodes!ClockingsCounted => CodesKept
    BY DEF CodesKept
  <1>. QED
    BY <1>1, PartsAlone, CodesAlwaysKept, PTL

-----------------------------------------------------------------------------
(* The documents. Whatever is in the bucket, on the disk or in the rows is *)
(* there on account of a step that somebody is at, or of a failure that is *)
(* on record; and the one upload past its sum still fits.                  *)

Putting == Documents!At({"put"})
Inserting == Documents!At({"insert"})

UploadsOver ==
  /\ \A t \in Handlers : deletion[t] # Documents!Idle => upload[deletion[t].doc] = Documents!Ended
  /\ \A d \in Documents!Stored : upload[d] = Documents!Ended

StoresAgree ==
  /\ Inserting \subseteq objects
  /\ Documents!DeletedObjects \cap objects \subseteq strays
  /\ Documents!RowsHaveObjects /\ Documents!ObjectsHaveRows /\ Documents!TempFilesGo

WithinTotal ==
  /\ \A d, e \in Putting \cup Inserting : d = e
  /\ Documents!Total <= MaxTotal
  /\ \A d \in Putting \cup Inserting : Documents!Total + upload[d].size <= MaxTotal

DocsInv == Documents!TypeOK /\ UploadsOver /\ StoresAgree /\ (overlapped \/ WithinTotal)

LEMMA UploadFields ==
  /\ \A u \in Documents!UploadStates :
       /\ u.step \in {"none", "ended", "check", "sum", "put", "insert"}
       /\ u.step = "none" <=> u = Documents!NotYet
       /\ u.step = "ended" <=> u = Documents!Ended
       /\ u.step \in {"check", "sum", "put", "insert"} => u.size \in Sizes
       /\ u.step \in {"sum", "put", "insert"} => u.type \in DocTypes
  /\ Documents!NotYet \in Documents!UploadStates /\ Documents!Ended \in Documents!UploadStates
  /\ Documents!NotYet.step = "none" /\ Documents!Ended.step = "ended"
  /\ \A size \in Sizes : [step |-> "check", size |-> size] \in Documents!UploadStates
  /\ \A size \in Sizes, x \in DocTypes :
       [step |-> "sum", size |-> size, type |-> x] \in Documents!UploadStates
  BY DEF Documents!UploadStates, Documents!NotYet, Documents!Ended

LEMMA UploadGoes ==
  ASSUME NEW u \in Documents!UploadStates, u.step \in {"sum", "put", "insert"},
         NEW step \in {"put", "insert"}
  PROVE  LET v == [u EXCEPT !.step = step] IN
         v \in Documents!UploadStates /\ v.step = step /\ v.size = u.size
  BY DEF Documents!UploadStates, Documents!NotYet, Documents!Ended

LEMMA UploadMoves ==
  ASSUME Documents!TypeOK, NEW d \in Docs, NEW v \in Documents!UploadStates,
         upload' = [upload EXCEPT ![d] = v]
  PROVE  /\ upload' \in [Docs -> Documents!UploadStates]
         /\ upload'[d] = v /\ \A e \in Docs \ {d} : upload'[e] = upload[e]
         /\ \A steps : Documents!At(steps)' =
              IF v.step \in steps THEN Documents!At(steps) \cup {d} ELSE Documents!At(steps) \ {d}
  BY DEF Documents!TypeOK, Documents!At

LEMMA DeletionFields ==
  /\ \A o \in Documents!DeletionStates :
       /\ o.step \in {"idle", "object", "row"}
       /\ o.step = "idle" <=> o = Documents!Idle
       /\ o # Documents!Idle => /\ o.doc \in Docs
                                /\ [o EXCEPT !.step = "row"] \in Documents!DeletionStates
                                /\ [o EXCEPT !.step = "row"].step = "row"
                                /\ [o EXCEPT !.step = "row"].doc = o.doc
  /\ Documents!Idle \in Documents!DeletionStates /\ Documents!Idle.step = "idle"
  /\ \A d \in Docs : [step |-> "object", doc |-> d] \in Documents!DeletionStates
  BY DEF Documents!DeletionStates, Documents!Idle

LEMMA DeletionMoves ==
  ASSUME Documents!TypeOK, NEW t \in Handlers, NEW o \in Documents!DeletionStates,
         deletion' = [deletion EXCEPT ![t] = o]
  PROVE  /\ deletion' \in [Handlers -> Documents!DeletionStates]
         /\ deletion'[t] = o /\ \A u \in Handlers \ {t} : deletion'[u] = deletion[u]
         /\ o.step = "row" /\ deletion[t].step # "row" =>
              Documents!DeletedObjects' = Documents!DeletedObjects \cup {o.doc}
         /\ o.step # "row" =>
              /\ Documents!DeletedObjects' \subseteq Documents!DeletedObjects
              /\ Documents!DeletedObjects \ {deletion[t].doc} \subseteq Documents!DeletedObjects'
              /\ deletion[t].step # "row" => Documents!DeletedObjects' = Documents!DeletedObjects
  <1>1. deletion' \in [Handlers -> Documents!DeletionStates]
    BY DEF Documents!TypeOK
  <1>2. deletion'[t] = o /\ \A u \in Handlers \ {t} : deletion'[u] = deletion[u]
    BY DEF Documents!TypeOK
  <1>3. Documents!DeletedObjects' = {deletion'[u].doc : u \in {w \in Handlers : deletion'[w].step = "row"}}
    BY DEF Documents!DeletedObjects
  <1>. QED
    BY <1>1, <1>2, <1>3 DEF Documents!DeletedObjects

LEMMA RowsMove ==
  ASSUME Documents!TypeOK, NEW d \in Docs, NEW r \in Documents!Row \cup {Documents!NoRow},
         docs' = [docs EXCEPT ![d] = r]
  PROVE  /\ docs' \in [Docs -> Documents!Row \cup {Documents!NoRow}]
         /\ Documents!Stored' = IF r = Documents!NoRow THEN Documents!Stored \ {d}
                                ELSE Documents!Stored \cup {d}
  BY DEF Documents!TypeOK, Documents!Stored

LEMMA RowIsNotNoRow ==
  \A x \in DocTypes, size \in Sizes :
    /\ [type |-> x, size |-> size] \in Documents!Row
    /\ [type |-> x, size |-> size] # Documents!NoRow
  <1>1. DOMAIN Documents!NoRow = {"size"}
    BY DEF Documents!NoRow
  <1>2. \A x, size : DOMAIN [type |-> x, size |-> size] = {"type", "size"}
    OBVIOUS
  <1>. QED
    BY <1>1, <1>2 DEF Documents!Row

(* The total is a sum as above, of the sizes of the rows. *)
SizesIn(rows) == [d \in Docs |-> rows[d].size]
SizeOf == SizesIn(docs)

Summed(rows) ==
  CHOOSE it : it = [s \in SUBSET Docs |->
    IF s = {} THEN 0 ELSE rows[Pick(s)].size + it[s \ {Pick(s)}]]

LEMMA SummedIsSum ==
  ASSUME NEW rows
  PROVE  SumsTo(Summed(rows), SizesIn(rows), Docs)
  <1>. DEFINE Eq(it) == it = [s \in SUBSET Docs |->
                IF s = {} THEN 0 ELSE rows[Pick(s)].size + it[s \ {Pick(s)}]]
  <1>1. \A s \in SUBSET Docs : s # {} => SizesIn(rows)[Pick(s)] = rows[Pick(s)].size
    BY PickIn DEF SizesIn
  <1>2. ASSUME NEW it PROVE Eq(it) <=> SumsTo(it, SizesIn(rows), Docs)
    BY <1>1 DEF SumsTo
  <1>3. \E it : SumsTo(it, SizesIn(rows), Docs)
    BY SumExists, PartsAssumption
  <1>4. \E it : Eq(it)
    BY <1>2, <1>3
  <1>5. Summed(rows) = CHOOSE it : Eq(it)
    BY DEF Summed
  <1>. HIDE DEF Eq
  <1>6. Eq(CHOOSE it : Eq(it))
    BY <1>4
  <1>. QED
    BY <1>2, <1>5, <1>6

LEMMA TotalIsSum ==
  Documents!Total = Summed(docs)[Docs] /\ Documents!Total' = Summed(docs')[Docs]
  BY DEF Documents!Total, Documents!MapThenSumSet, Documents!MapThenFoldSet, Pick, Summed

SizesTyped ==
  SizeOf \in [Docs -> Int] /\ \A d \in Docs : SizeOf[d] = docs[d].size /\ docs[d].size \in Nat

LEMMA SizeOfType == Documents!TypeOK => SizesTyped
  <1>. SUFFICES ASSUME Documents!TypeOK PROVE SizesTyped
    OBVIOUS
  <1>1. \A r \in Documents!Row : r.size \in Sizes
    BY DEF Documents!Row
  <1>2. ASSUME NEW d \in Docs PROVE docs[d].size \in Nat
    <2>1. docs[d] \in Documents!Row \/ docs[d] = Documents!NoRow
      BY DEF Documents!TypeOK
    <2>2. CASE docs[d] \in Documents!Row
      BY <1>1, <2>2, PartsAssumption
    <2>3. CASE docs[d] = Documents!NoRow
      BY <2>3 DEF Documents!NoRow
    <2>. QED
      BY <2>1, <2>2, <2>3
  <1>. QED
    BY <1>2 DEF SizesTyped, SizeOf, SizesIn

LEMMA TotalChanges ==
  ASSUME Documents!TypeOK, Documents!TypeOK', NEW d \in Docs,
         \A e \in Docs \ {d} : docs'[e] = docs[e]
  PROVE  /\ Documents!Total \in Int
         /\ Documents!Total' = Documents!Total + (docs'[d].size - docs[d].size)
  <1>. DEFINE it == Summed(docs)
              jt == Summed(docs')
  <1>1. SumsTo(it, SizeOf, Docs) /\ Documents!Total = it[Docs]
    BY SummedIsSum, TotalIsSum DEF SizeOf
  <1>2. SumsTo(jt, SizeOf', Docs) /\ Documents!Total' = jt[Docs]
    BY SummedIsSum, TotalIsSum DEF SizeOf
  <1>3. SizesTyped /\ SizesTyped'
    BY SizeOfType, PTL
  <1>4. \A e \in Docs \ {d} : SizeOf'[e] = SizeOf[e]
    BY <1>3 DEF SizesTyped
  <1>5. it[Docs] \in Int /\ jt[Docs] = it[Docs] + (SizeOf'[d] - SizeOf[d])
    BY <1>1, <1>2, <1>3, <1>4, PartsAssumption, SumChange DEF SizesTyped
  <1>. QED
    BY <1>1, <1>2, <1>3, <1>5 DEF SizesTyped

LEMMA TotalSame == docs' = docs => Documents!Total' = Documents!Total
  BY DEF Documents!Total, Documents!MapThenSumSet, Documents!MapThenFoldSet

LEMMA TotalOfNone ==
  ASSUME \A d \in Docs : docs[d] = Documents!NoRow
  PROVE  Documents!Total = 0
  <1>1. PICK it : SumsTo(it, SizeOf, Docs) /\ Documents!Total = it[Docs]
    BY SummedIsSum, TotalIsSum DEF SizeOf
  <1>. DEFINE P == {s \in SUBSET Docs : it[s] = 0}
  <1>2. ASSUME NEW s \in SUBSET Docs, \A t \in SUBSET s : t # s => t \in P PROVE s \in P
    <2>1. it[s] = IF s = {} THEN 0 ELSE SizeOf[Pick(s)] + it[s \ {Pick(s)}]
      BY <1>1 DEF SumsTo
    <2>2. s # {} => s \ {Pick(s)} \in P /\ SizeOf[Pick(s)] = 0
      BY <1>2, PickIn DEF SizeOf, SizesIn, Documents!NoRow
    <2>. QED
      BY <2>1, <2>2
  <1>. HIDE DEF P
  <1>3. P \in SUBSET (SUBSET Docs)
    BY DEF P
  <1>4. P = SUBSET Docs
    BY <1>2, <1>3, PartsAssumption, SubsetInduction
  <1>. QED
    BY <1>1, <1>4 DEF P

LEMMA DocsInvInit == Documents!Init => DocsInv
  <1>. SUFFICES ASSUME Documents!Init PROVE DocsInv
    OBVIOUS
  <1>1. Documents!TypeOK
    BY UploadFields, DeletionFields DEF Documents!Init, Documents!TypeOK
  <1>2. \A steps : "none" \notin steps => Documents!At(steps) = {}
    BY UploadFields DEF Documents!Init, Documents!At
  <1>3. Documents!Stored = {}
    BY DEF Documents!Init, Documents!Stored
  <1>4. UploadsOver
    BY <1>3 DEF Documents!Init, UploadsOver
  <1>5. StoresAgree
    <2>1. Documents!DeletedObjects = {}
      BY DeletionFields DEF Documents!Init, Documents!DeletedObjects
    <2>. QED
      BY <1>2, <1>3, <2>1 DEF Documents!Init, StoresAgree, Inserting, Documents!RowsHaveObjects,
         Documents!ObjectsHaveRows, Documents!TempFilesGo
  <1>6. WithinTotal
    <2>1. Putting \cup Inserting = {}
      BY <1>2 DEF Putting, Inserting
    <2>2. Documents!Total = 0
      BY TotalOfNone DEF Documents!Init
    <2>. QED
      BY <2>1, <2>2, PartsAssumption DEF WithinTotal
  <1>. QED
    BY <1>1, <1>4, <1>5, <1>6 DEF DocsInv

(* An upload takes a step that leaves the deletions and the rows alone.    *)
LEMMA UploadSteps ==
  ASSUME DocsInv, NEW d \in Docs, NEW v \in Documents!UploadStates,
         upload[d] # Documents!Ended, upload' = [upload EXCEPT ![d] = v],
         UNCHANGED <<kinds, going, docs, deletion, cut>>,
         objects \subseteq objects', objects' \subseteq objects \cup {d},
         strays \subseteq strays', strays' \subseteq strays \cup {d},
         left \subseteq left', left' \subseteq left \cup {d},
         temp' \subseteq temp \cup {d}, overlapped' \in BOOLEAN,
         d \in temp' => v.step \in {"check", "sum", "put"} \/ d \in left',
         v.step = "insert" => d \in objects',
         d \in objects' => v.step = "insert" \/ d \in strays'
  PROVE  Documents!TypeOK' /\ UploadsOver' /\ StoresAgree'
  <1>1. /\ upload' \in [Docs -> Documents!UploadStates]
        /\ upload'[d] = v /\ \A e \in Docs \ {d} : upload'[e] = upload[e]
        /\ \A steps : Documents!At(steps)' =
              IF v.step \in steps THEN Documents!At(steps) \cup {d} ELSE Documents!At(steps) \ {d}
    BY UploadMoves DEF DocsInv
  <1>2. Documents!Stored' = Documents!Stored /\ Documents!DeletedObjects' = Documents!DeletedObjects
    BY DEF Documents!Stored, Documents!DeletedObjects
  <1>3. Documents!TypeOK'
    <2>1. /\ kinds' \in [DocTypes -> {"absent", "active", "inactive"}] /\ going' \subseteq DocTypes
          /\ docs' \in [Docs -> Documents!Row \cup {Documents!NoRow}]
          /\ deletion' \in [Handlers -> Documents!DeletionStates]
      BY DEF DocsInv, Documents!TypeOK
    <2>2. /\ objects' \subseteq Docs /\ temp' \subseteq Docs
          /\ strays' \subseteq Docs /\ cut' \subseteq Docs /\ left' \subseteq Docs
      BY DEF DocsInv, Documents!TypeOK
    <2>. QED
      BY <1>1, <2>1, <2>2 DEF Documents!TypeOK
  <1>4. /\ d \notin Documents!Stored /\ d \notin Documents!DeletedObjects
        /\ \A t \in Handlers : deletion[t] # Documents!Idle => deletion[t].doc # d
    BY DeletionFields DEF DocsInv, UploadsOver, Documents!DeletedObjects
  <1>5. UploadsOver'
    <2>1. \A t \in Handlers : deletion[t] # Documents!Idle => deletion[t].doc \in Docs
      BY DeletionFields DEF DocsInv, Documents!TypeOK
    <2>2. \A e \in Documents!Stored : e \in Docs
      BY DEF Documents!Stored
    <2>3. deletion' = deletion
      OBVIOUS
    <2>. QED
      BY <1>1, <1>2, <1>4, <2>1, <2>2, <2>3 DEF DocsInv, UploadsOver
  <1>6. StoresAgree'
    <2>1. Inserting' = IF v.step = "insert" THEN Inserting \cup {d} ELSE Inserting \ {d}
      BY <1>1 DEF Inserting
    <2>2. Inserting' \subseteq objects'
      BY <2>1 DEF DocsInv, StoresAgree
    <2>3. Documents!DeletedObjects' \cap objects' \subseteq strays'
      BY <1>2, <1>4 DEF DocsInv, StoresAgree
    <2>4. Documents!RowsHaveObjects'
      BY <1>2 DEF DocsInv, StoresAgree, Documents!RowsHaveObjects
    <2>5. Documents!ObjectsHaveRows'
      BY <1>2, <2>1 DEF DocsInv, StoresAgree, Documents!ObjectsHaveRows, Inserting
    <2>6. Documents!TempFilesGo'
      BY <1>1 DEF DocsInv, StoresAgree, Documents!TempFilesGo
    <2>. QED
      BY <2>2, <2>3, <2>4, <2>5, <2>6 DEF StoresAgree
  <1>. QED
    BY <1>3, <1>5, <1>6

(* A deletion takes a step, in which the rows, the bucket and what is on   *)
(* record may lose or gain the document that it deletes, and no upload     *)
(* moves. *)
LEMMA DeletionSteps ==
  ASSUME DocsInv, deletion' \in [Handlers -> Documents!DeletionStates],
         docs' \in [Docs -> Documents!Row \cup {Documents!NoRow}],
         Documents!Stored' \subseteq Documents!Stored,
         \A t \in Handlers : deletion'[t] # Documents!Idle =>
           upload[deletion'[t].doc] = Documents!Ended,
         UNCHANGED <<kinds, going, temp, upload, left, overlapped>>,
         objects' \subseteq objects, strays' \in SUBSET Docs, cut' \in SUBSET Docs,
         strays \subseteq strays',
         \A d \in objects \ objects' : upload[d] = Documents!Ended,
         Documents!DeletedObjects' \cap objects' \subseteq strays',
         Documents!RowsHaveObjects',
         (Documents!Stored \ Documents!Stored') \cap objects' \subseteq strays'
  PROVE  Documents!TypeOK' /\ UploadsOver' /\ StoresAgree'
  <1>1. Documents!TypeOK'
    <2>1. /\ kinds' \in [DocTypes -> {"absent", "active", "inactive"}] /\ going' \subseteq DocTypes
          /\ upload' \in [Docs -> Documents!UploadStates] /\ overlapped' \in BOOLEAN
      BY DEF DocsInv, Documents!TypeOK
    <2>2. objects' \subseteq Docs /\ temp' \subseteq Docs /\ left' \subseteq Docs
      BY DEF DocsInv, Documents!TypeOK
    <2>. QED
      BY <2>1, <2>2 DEF Documents!TypeOK
  <1>2. upload' = upload /\ left' = left /\ temp' = temp
    OBVIOUS
  <1>3. \A steps : Documents!At(steps)' = Documents!At(steps)
    BY <1>2 DEF Documents!At
  <1>4. UploadsOver'
    BY <1>2 DEF DocsInv, UploadsOver
  <1>5. \A d \in Inserting : upload[d] # Documents!Ended
    BY UploadFields DEF Inserting, Documents!At
  <1>6. Inserting' \subseteq objects'
    BY <1>3, <1>5 DEF DocsInv, StoresAgree, Inserting
  <1>7. Documents!ObjectsHaveRows'
    BY <1>3 DEF DocsInv, StoresAgree, Documents!ObjectsHaveRows
  <1>8. Documents!TempFilesGo'
    BY <1>2, <1>3 DEF DocsInv, StoresAgree, Documents!TempFilesGo
  <1>. QED
    BY <1>1, <1>4, <1>6, <1>7, <1>8 DEF StoresAgree

LEMMA DocsStepsNext ==
  DocsInv /\ [Documents!Next]_(Documents!vars) => Documents!TypeOK' /\ UploadsOver' /\ StoresAgree'
  <1>. SUFFICES ASSUME DocsInv, [Documents!Next]_(Documents!vars)
                PROVE  Documents!TypeOK' /\ UploadsOver' /\ StoresAgree'
    OBVIOUS
  <1>. USE DEF Documents!history
  <1>1. /\ kinds \in [DocTypes -> {"absent", "active", "inactive"}] /\ going \subseteq DocTypes
        /\ docs \in [Docs -> Documents!Row \cup {Documents!NoRow}]
        /\ upload \in [Docs -> Documents!UploadStates]
        /\ deletion \in [Handlers -> Documents!DeletionStates]
        /\ overlapped \in BOOLEAN /\ objects \subseteq Docs /\ temp \subseteq Docs
        /\ strays \subseteq Docs /\ cut \subseteq Docs /\ left \subseteq Docs
    BY DEF DocsInv, Documents!TypeOK
  <1>2. /\ Documents!TypeOK /\ UploadsOver /\ Inserting \subseteq objects
        /\ Documents!DeletedObjects \cap objects \subseteq strays
        /\ Documents!Stored \subseteq objects \cup cut \cup Documents!DeletedObjects
        /\ objects \subseteq Documents!Stored \cup Inserting \cup strays
        /\ temp \subseteq Documents!At({"check", "sum", "put"}) \cup left
    BY DEF DocsInv, StoresAgree, Documents!RowsHaveObjects, Documents!ObjectsHaveRows,
       Documents!TempFilesGo, Inserting
  <1>3. \A steps, d : d \in Documents!At(steps) <=> d \in Docs /\ upload[d].step \in steps
    BY DEF Documents!At
  <1>4. ASSUME NEW d \in Docs, NEW size \in Sizes, Documents!Receive(d, size)
        PROVE  Documents!TypeOK' /\ UploadsOver' /\ StoresAgree'
    <2>. DEFINE v == [step |-> "check", size |-> size]
    <2>1. v \in Documents!UploadStates /\ v.step = "check" /\ upload[d] # Documents!Ended
      BY <1>4, UploadFields DEF Documents!Receive
    <2>2. /\ upload' = [upload EXCEPT ![d] = v] /\ temp' = temp \cup {d}
          /\ UNCHANGED <<kinds, going, docs, deletion, cut, objects, strays, left, overlapped>>
      BY <1>4 DEF Documents!Receive
    <2>3. d \notin objects \/ d \in strays
      <3>1. d \notin Documents!Stored /\ d \notin Inserting
        BY <1>2, <1>3, <1>4, UploadFields DEF UploadsOver, Inserting, Documents!Receive
      <3>. QED
        BY <1>2, <3>1
    <2>. HIDE DEF v
    <2>. QED
      BY <1>1, <2>1, <2>2, <2>3, UploadSteps
  <1>5. ASSUME NEW d \in Docs, Documents!LeaveFile(d) \/ Documents!RefuseFile(d)
        PROVE  Documents!TypeOK' /\ UploadsOver' /\ StoresAgree'
    <2>. DEFINE v == Documents!Ended
    <2>1. /\ v \in Documents!UploadStates /\ v.step = "ended" /\ upload[d] # Documents!Ended
          /\ upload[d].step \in {"check", "sum"}
      BY <1>3, <1>5, UploadFields DEF Documents!LeaveFile, Documents!RefuseFile
    <2>2. /\ upload' = [upload EXCEPT ![d] = v]
          /\ \/ left' = left \cup {d} /\ temp' = temp
             \/ left' = left /\ temp' = temp \ {d}
          /\ UNCHANGED <<kinds, going, docs, deletion, cut, objects, strays, overlapped>>
      BY <1>5 DEF Documents!LeaveFile, Documents!RefuseFile, Documents!Stops,
         Documents!CleanupTempFile
    <2>3. d \notin objects \/ d \in strays
      <3>1. d \notin Documents!Stored /\ d \notin Inserting
        BY <1>2, <1>3, <2>1, UploadFields DEF UploadsOver, Inserting
      <3>. QED
        BY <1>2, <3>1
    <2>. QED
      BY <1>1, <2>1, <2>2, <2>3, UploadSteps
  <1>6. ASSUME NEW d \in Docs, NEW x \in DocTypes, Documents!CheckType(d, x)
        PROVE  Documents!TypeOK' /\ UploadsOver' /\ StoresAgree'
    <2>. DEFINE v == [step |-> "sum", size |-> upload[d].size, type |-> x]
    <2>1. upload[d].step = "check" /\ upload[d].size \in Sizes
      BY <1>1, <1>3, <1>6, UploadFields DEF Documents!CheckType
    <2>2. v \in Documents!UploadStates /\ v.step = "sum" /\ upload[d] # Documents!Ended
      BY <2>1, UploadFields
    <2>3. /\ upload' = [upload EXCEPT ![d] = v]
          /\ UNCHANGED <<kinds, going, docs, deletion, cut, objects, strays, left, temp, overlapped>>
      BY <1>6 DEF Documents!CheckType
    <2>4. d \notin objects \/ d \in strays
      <3>1. d \notin Documents!Stored /\ d \notin Inserting
        BY <1>2, <1>3, <2>1, UploadFields DEF UploadsOver, Inserting
      <3>. QED
        BY <1>2, <3>1
    <2>. HIDE DEF v
    <2>. QED
      BY <1>1, <2>2, <2>3, <2>4, UploadSteps
  <1>7. ASSUME NEW d \in Docs, Documents!CheckTotal(d)
        PROVE  Documents!TypeOK' /\ UploadsOver' /\ StoresAgree'
    <2>1. /\ upload[d] \in Documents!UploadStates /\ upload[d].step = "sum"
          /\ upload[d] # Documents!Ended
      BY <1>1, <1>3, <1>7, UploadFields DEF Documents!CheckTotal
    <2>2. PICK v \in Documents!UploadStates :
            /\ upload' = [upload EXCEPT ![d] = v]
            /\ \/ v.step = "put" /\ temp' = temp /\ overlapped' \in BOOLEAN
               \/ v.step = "ended" /\ temp' = temp \ {d} /\ overlapped' = overlapped
      <3>1. [upload[d] EXCEPT !.step = "put"] \in Documents!UploadStates
            /\ [upload[d] EXCEPT !.step = "put"].step = "put"
        BY <2>1, UploadGoes
      <3>. QED
        BY <1>7, <3>1, UploadFields DEF Documents!CheckTotal, Documents!Goes, Documents!Stops,
           Documents!CleanupTempFile
    <2>3. UNCHANGED <<kinds, going, docs, deletion, cut, objects, strays, left>>
      BY <1>7 DEF Documents!CheckTotal
    <2>4. d \notin objects \/ d \in strays
      <3>1. d \notin Documents!Stored /\ d \notin Inserting
        BY <1>2, <1>3, <2>1, UploadFields DEF UploadsOver, Inserting
      <3>. QED
        BY <1>2, <3>1
    <2>. QED
      BY <1>1, <2>1, <2>2, <2>3, <2>4, UploadSteps
  <1>8. ASSUME NEW d \in Docs, Documents!PutObject(d)
        PROVE  Documents!TypeOK' /\ UploadsOver' /\ StoresAgree'
    <2>. DEFINE v == [upload[d] EXCEPT !.step = "insert"]
    <2>1. /\ upload[d] \in Documents!UploadStates /\ upload[d].step = "put"
          /\ upload[d] # Documents!Ended
      BY <1>1, <1>3, <1>8, UploadFields DEF Documents!PutObject
    <2>2. v \in Documents!UploadStates /\ v.step = "insert"
      BY <2>1, UploadGoes
    <2>3. /\ upload' = [upload EXCEPT ![d] = v] /\ objects' = objects \cup {d}
          /\ temp' = temp \ {d}
          /\ UNCHANGED <<kinds, going, docs, deletion, cut, strays, left, overlapped>>
      BY <1>8 DEF Documents!PutObject, Documents!Goes, Documents!CleanupTempFile
    <2>. HIDE DEF v
    <2>. QED
      BY <1>1, <2>1, <2>2, <2>3, UploadSteps
  <1>9. ASSUME NEW d \in Docs, Documents!PutFails(d) \/ Documents!CreateFails(d)
        PROVE  Documents!TypeOK' /\ UploadsOver' /\ StoresAgree'
    <2>1. /\ Documents!Ended \in Documents!UploadStates /\ Documents!Ended.step = "ended"
          /\ upload[d].step \in {"put", "insert"} /\ upload[d] # Documents!Ended
      BY <1>3, <1>9, UploadFields DEF Documents!PutFails, Documents!CreateFails
    <2>2. /\ upload' = [upload EXCEPT ![d] = Documents!Ended] /\ strays' = strays \cup {d}
          /\ objects' \in {objects, objects \cup {d}}
          /\ \/ upload[d].step = "put" /\ temp' = temp \ {d}
             \/ upload[d].step = "insert" /\ temp' = temp
          /\ UNCHANGED <<kinds, going, docs, deletion, cut, left, overlapped>>
      BY <1>3, <1>9 DEF Documents!PutFails, Documents!CreateFails, Documents!Stops,
         Documents!CleanupTempFile
    <2>3. d \in temp' => d \in left
      BY <1>2, <1>3, <2>2
    <2>. QED
      BY <1>1, <2>1, <2>2, <2>3, UploadSteps
  <1>10. ASSUME NEW d \in Docs, Documents!CreateRow(d)
         PROVE  Documents!TypeOK' /\ UploadsOver' /\ StoresAgree'
    <2>. DEFINE r == [type |-> upload[d].type, size |-> upload[d].size]
    <2>1. /\ upload[d] \in Documents!UploadStates /\ upload[d].step = "insert" /\ d \in Inserting
          /\ upload[d].type \in DocTypes /\ upload[d].size \in Sizes
          /\ upload[d] # Documents!Ended
      BY <1>1, <1>3, <1>10, UploadFields DEF Documents!CreateRow, Inserting
    <2>2. r \in Documents!Row /\ r # Documents!NoRow
      BY <2>1, RowIsNotNoRow
    <2>3. /\ docs' = [docs EXCEPT ![d] = r] /\ upload' = [upload EXCEPT ![d] = Documents!Ended]
          /\ UNCHANGED <<kinds, going, objects, temp, deletion, strays, cut, left, overlapped>>
      BY <1>10 DEF Documents!CreateRow, Documents!Stops
    <2>. HIDE DEF r
    <2>4. /\ docs' \in [Docs -> Documents!Row \cup {Documents!NoRow}]
          /\ Documents!Stored' = Documents!Stored \cup {d}
      BY <1>2, <2>2, <2>3, RowsMove
    <2>5. /\ upload' \in [Docs -> Documents!UploadStates]
          /\ upload'[d] = Documents!Ended /\ \A e \in Docs \ {d} : upload'[e] = upload[e]
          /\ \A steps : Documents!At(steps)' =
               IF Documents!Ended.step \in steps THEN Documents!At(steps) \cup {d}
               ELSE Documents!At(steps) \ {d}
      <3>1. Documents!Ended \in Documents!UploadStates
        BY UploadFields
      <3>. QED
        BY <1>2, <2>3, <3>1, UploadMoves
    <2>6. Documents!TypeOK'
      BY <1>1, <2>3, <2>4, <2>5 DEF Documents!TypeOK
    <2>7. Documents!DeletedObjects' = Documents!DeletedObjects
      BY <2>3 DEF Documents!DeletedObjects
    <2>8. UploadsOver'
      <3>1. \A e \in Docs : upload[e] = Documents!Ended => upload'[e] = Documents!Ended
        BY <2>5
      <3>2. \A t \in Handlers : deletion[t] # Documents!Idle => deletion[t].doc \in Docs
        BY <1>1, DeletionFields
      <3>3. Documents!Stored \subseteq Docs
        BY DEF Documents!Stored
      <3>4. deletion' = deletion
        BY <2>3
      <3>. QED
        BY <1>2, <2>4, <2>5, <3>1, <3>2, <3>3, <3>4 DEF UploadsOver
    <2>9. /\ Inserting' = Inserting \ {d}
          /\ Documents!At({"check", "sum", "put"})' = Documents!At({"check", "sum", "put"}) \ {d}
      BY <2>5, UploadFields DEF Inserting
    <2>10. d \notin Documents!At({"check", "sum", "put"})
      BY <1>3, <2>1
    <2>. QED
      BY <1>2, <2>1, <2>3, <2>4, <2>6, <2>7, <2>8, <2>9, <2>10 DEF StoresAgree, Inserting,
         Documents!RowsHaveObjects, Documents!ObjectsHaveRows, Documents!TempFilesGo
  <1>11. ASSUME NEW t \in Handlers, NEW d \in Docs, Documents!DeleteRead(t, d)
         PROVE  Documents!TypeOK' /\ UploadsOver' /\ StoresAgree'
    <2>. DEFINE o == [step |-> "object", doc |-> d]
    <2>1. /\ o \in Documents!DeletionStates /\ o.step = "object" /\ o.doc = d
          /\ deletion[t].step = "idle"
      BY <1>11, DeletionFields DEF Documents!DeleteRead
    <2>2. /\ d \in Documents!Stored /\ deletion' = [deletion EXCEPT ![t] = o]
          /\ UNCHANGED <<kinds, going, docs, objects, temp, upload, strays, cut, left, overlapped>>
      BY <1>11 DEF Documents!DeleteRead
    <2>. HIDE DEF o
    <2>3. /\ deletion' \in [Handlers -> Documents!DeletionStates]
          /\ deletion'[t] = o /\ \A u \in Handlers \ {t} : deletion'[u] = deletion[u]
          /\ Documents!DeletedObjects' = Documents!DeletedObjects
      BY <1>2, <2>1, <2>2, DeletionMoves
    <2>4. Documents!Stored' = Documents!Stored
      BY <2>2 DEF Documents!Stored
    <2>5. \A u \in Handlers : deletion'[u] # Documents!Idle =>
            upload[deletion'[u].doc] = Documents!Ended
      BY <1>2, <2>1, <2>2, <2>3 DEF UploadsOver
    <2>6. Documents!RowsHaveObjects'
      BY <1>2, <2>2, <2>3, <2>4 DEF Documents!RowsHaveObjects
    <2>. QED
      BY <1>1, <1>2, <2>2, <2>3, <2>4, <2>5, <2>6, DeletionSteps
  <1>12. ASSUME NEW t \in Handlers, Documents!DeleteObject(t) \/ Documents!DeleteObjectFails(t)
         PROVE  Documents!TypeOK' /\ UploadsOver' /\ StoresAgree'
    <2>. DEFINE o == [deletion[t] EXCEPT !.step = "row"]
    <2>1. deletion[t].step = "object" /\ deletion[t] # Documents!Idle
      BY <1>12, DeletionFields DEF Documents!DeleteObject, Documents!DeleteObjectFails
    <2>2. PICK doc \in Docs : doc = deletion[t].doc /\ upload[doc] = Documents!Ended
      BY <1>1, <1>2, <2>1, DeletionFields DEF UploadsOver
    <2>3. o \in Documents!DeletionStates /\ o.step = "row" /\ o.doc = doc
      BY <1>1, <2>1, <2>2, DeletionFields
    <2>4. /\ deletion' = [deletion EXCEPT ![t] = o]
          /\ \/ objects' = objects \ {doc} /\ strays' = strays
             \/ objects' = objects /\ strays' = strays \cup {doc}
          /\ UNCHANGED <<kinds, going, docs, temp, upload, cut, left, overlapped>>
      BY <1>12, <2>2 DEF Documents!DeleteObject, Documents!DeleteObjectFails
    <2>. HIDE DEF o
    <2>5. /\ deletion' \in [Handlers -> Documents!DeletionStates]
          /\ deletion'[t] = o /\ \A u \in Handlers \ {t} : deletion'[u] = deletion[u]
          /\ Documents!DeletedObjects' = Documents!DeletedObjects \cup {doc}
      BY <1>2, <2>1, <2>3, <2>4, DeletionMoves
    <2>6. Documents!Stored' = Documents!Stored
      BY <2>4 DEF Documents!Stored
    <2>7. \A u \in Handlers : deletion'[u] # Documents!Idle =>
            upload[deletion'[u].doc] = Documents!Ended
      BY <1>2, <2>2, <2>3, <2>5 DEF UploadsOver
    <2>8. Documents!RowsHaveObjects'
      BY <1>2, <2>4, <2>5, <2>6 DEF Documents!RowsHaveObjects
    <2>. QED
      BY <1>1, <1>2, <2>2, <2>4, <2>5, <2>6, <2>7, <2>8, DeletionSteps
  <1>13. ASSUME NEW t \in Handlers, Documents!DeleteRow(t) \/ Documents!DeleteRowFails(t)
         PROVE  Documents!TypeOK' /\ UploadsOver' /\ StoresAgree'
    <2>1. deletion[t].step = "row" /\ deletion[t] # Documents!Idle
      BY <1>13, DeletionFields DEF Documents!DeleteRow, Documents!DeleteRowFails
    <2>2. PICK doc \in Docs : doc = deletion[t].doc
      BY <1>1, <2>1, DeletionFields
    <2>3. doc \in Documents!DeletedObjects
      BY <2>1, <2>2 DEF Documents!DeletedObjects
    <2>4. /\ deletion' = [deletion EXCEPT ![t] = Documents!Idle]
          /\ \/ docs' = [docs EXCEPT ![doc] = Documents!NoRow] /\ cut' = cut
             \/ docs' = docs /\ cut' = cut \cup {doc}
          /\ UNCHANGED <<kinds, going, objects, temp, upload, strays, left, overlapped>>
      BY <1>13, <2>2 DEF Documents!DeleteRow, Documents!DeleteRowFails
    <2>5. /\ deletion' \in [Handlers -> Documents!DeletionStates]
          /\ deletion'[t] = Documents!Idle
          /\ \A u \in Handlers \ {t} : deletion'[u] = deletion[u]
          /\ Documents!DeletedObjects' \subseteq Documents!DeletedObjects
          /\ Documents!DeletedObjects \ {doc} \subseteq Documents!DeletedObjects'
      BY <1>2, <2>2, <2>4, DeletionFields, DeletionMoves
    <2>6. /\ docs' \in [Docs -> Documents!Row \cup {Documents!NoRow}]
          /\ \/ Documents!Stored' = Documents!Stored \ {doc} /\ cut' = cut
             \/ Documents!Stored' = Documents!Stored /\ cut' = cut \cup {doc}
      BY <1>1, <1>2, <2>4, RowsMove DEF Documents!Stored
    <2>7. \A u \in Handlers : deletion'[u] # Documents!Idle =>
            upload[deletion'[u].doc] = Documents!Ended
      BY <1>2, <2>5 DEF UploadsOver
    <2>8. Documents!RowsHaveObjects'
      BY <1>2, <2>4, <2>5, <2>6 DEF Documents!RowsHaveObjects
    <2>9. objects' = objects /\ strays' = strays /\ doc \in objects => doc \in strays
      BY <1>2, <2>3, <2>4
    <2>. QED
      BY <1>1, <1>2, <2>4, <2>5, <2>6, <2>7, <2>8, <2>9, DeletionSteps
  <1>14. ASSUME kinds' \in [DocTypes -> {"absent", "active", "inactive"}], going' \subseteq DocTypes,
                UNCHANGED <<docs, objects, temp, upload, deletion, strays, cut, left, overlapped>>
         PROVE  Documents!TypeOK' /\ UploadsOver' /\ StoresAgree'
    <2>1. Documents!TypeOK'
      BY <1>1, <1>14 DEF Documents!TypeOK
    <2>2. /\ Documents!Stored' = Documents!Stored /\ Documents!DeletedObjects' = Documents!DeletedObjects
          /\ \A steps : Documents!At(steps)' = Documents!At(steps)
      BY <1>14 DEF Documents!Stored, Documents!DeletedObjects, Documents!At
    <2>3. UploadsOver'
      BY <1>2, <1>14, <2>2 DEF UploadsOver
    <2>. QED
      BY <1>2, <1>14, <2>1, <2>2, <2>3 DEF StoresAgree, Inserting, Documents!RowsHaveObjects,
         Documents!ObjectsHaveRows, Documents!TempFilesGo
  <1>15. ASSUME NEW x \in DocTypes,
                \/ Documents!CreateType(x) \/ Documents!DeleteTypeRead(x) \/ Documents!DeleteType(x)
                \/ \E isActive \in BOOLEAN : Documents!UpdateType(x, isActive)
         PROVE  Documents!TypeOK' /\ UploadsOver' /\ StoresAgree'
    <2>1. kinds' \in [DocTypes -> {"absent", "active", "inactive"}] /\ going' \subseteq DocTypes
      BY <1>1, <1>15 DEF Documents!CreateType, Documents!DeleteTypeRead, Documents!DeleteType,
         Documents!UpdateType
    <2>2. UNCHANGED <<docs, objects, temp, upload, deletion, strays, cut, left, overlapped>>
      BY <1>15 DEF Documents!CreateType, Documents!DeleteTypeRead, Documents!DeleteType,
         Documents!UpdateType
    <2>. QED
      BY <1>14, <2>1, <2>2
  <1>16. CASE Documents!Crash
    <2>. DEFINE removing == {deletion[t].doc : t \in {u \in Handlers : deletion[u].step = "object"}}
    <2>1. PICK arrived \in SUBSET Documents!At({"put"}), gone \in SUBSET removing :
            /\ objects' = (objects \cup arrived) \ gone
            /\ cut' = cut \cup removing \cup Documents!DeletedObjects
      BY <1>16 DEF Documents!Crash
    <2>2. /\ strays' = strays \cup Documents!At({"put", "insert"})
          /\ left' = left \cup Documents!At({"check", "sum", "put"})
          /\ upload' = [d \in Docs |-> IF upload[d] = Documents!NotYet THEN Documents!NotYet
                                       ELSE Documents!Ended]
          /\ deletion' = [t \in Handlers |-> Documents!Idle]
          /\ going' = {} /\ UNCHANGED <<kinds, docs, temp, overlapped>>
      BY <1>16 DEF Documents!Crash
    <2>3. removing \subseteq Docs /\ Documents!DeletedObjects \subseteq Docs
      <3>1. \A t \in Handlers : deletion[t].step \in {"object", "row"} => deletion[t].doc \in Docs
        BY <1>1, DeletionFields
      <3>. QED
        BY <3>1 DEF Documents!DeletedObjects
    <2>4. \A steps : Documents!At(steps) \subseteq Docs
      BY DEF Documents!At
    <2>5. Documents!TypeOK'
      <3>1. upload' \in [Docs -> Documents!UploadStates]
        BY <2>2, UploadFields
      <3>2. deletion' \in [Handlers -> Documents!DeletionStates]
        BY <2>2, DeletionFields
      <3>3. /\ objects' \subseteq Docs /\ cut' \subseteq Docs /\ strays' \subseteq Docs
            /\ left' \subseteq Docs /\ temp' \subseteq Docs
        <4>. HIDE DEF removing
        <4>. QED
          BY <1>1, <2>1, <2>2, <2>3, <2>4
      <3>. QED
        BY <1>1, <2>2, <3>1, <3>2, <3>3 DEF Documents!TypeOK
    <2>6. Documents!Stored' = Documents!Stored /\ Documents!Stored \subseteq Docs
      BY <2>2 DEF Documents!Stored
    <2>7. UploadsOver'
      <3>1. \A d \in Docs : upload[d] = Documents!Ended => upload'[d] = Documents!Ended
        BY <2>2, UploadFields
      <3>2. \A t \in Handlers : deletion'[t] = Documents!Idle
        BY <2>2
      <3>. QED
        BY <1>2, <2>6, <3>1, <3>2 DEF UploadsOver
    <2>8. Inserting' = {} /\ Documents!DeletedObjects' = {}
      <3>1. \A d \in Docs : upload'[d].step \in {"none", "ended"}
        BY <2>2, UploadFields
      <3>2. Inserting' = {}
        BY <3>1 DEF Inserting, Documents!At
      <3>3. \A t \in Handlers : deletion'[t].step = "idle"
        BY <2>2, DeletionFields
      <3>4. Documents!DeletedObjects' = {}
        BY <3>3 DEF Documents!DeletedObjects
      <3>. QED
        BY <3>2, <3>4
    <2>9. /\ Documents!At({"put"}) \subseteq Documents!At({"put", "insert"})
          /\ Inserting \subseteq Documents!At({"put", "insert"})
      BY DEF Documents!At, Inserting
    <2>. HIDE DEF removing
    <2>10. Documents!RowsHaveObjects'
      BY <1>2, <2>1, <2>6, <2>8 DEF Documents!RowsHaveObjects
    <2>11. Documents!ObjectsHaveRows'
      BY <1>2, <2>1, <2>2, <2>6, <2>8, <2>9 DEF Documents!ObjectsHaveRows, Inserting
    <2>12. Documents!TempFilesGo'
      BY <1>2, <2>2 DEF Documents!TempFilesGo
    <2>. QED
      BY <2>5, <2>7, <2>8, <2>10, <2>11, <2>12 DEF StoresAgree
  <1>17. CASE UNCHANGED Documents!vars
    BY <1>1, <1>14, <1>17 DEF Documents!vars
  <1>. QED
    BY <1>4, <1>5, <1>6, <1>7, <1>8, <1>9, <1>10, <1>11, <1>12, <1>13, <1>15, <1>16, <1>17
       DEF Documents!Next

(* The limit. No upload comes nearer, and the rows take no more space. *)
LEMMA TotalKeeps ==
  ASSUME Documents!TypeOK, WithinTotal, Documents!Total \in Int, Documents!Total' \in Int,
         Documents!Total' <= Documents!Total,
         \A d \in Documents!At({"put", "insert"})' :
           d \in Documents!At({"put", "insert"}) /\ upload'[d].size = upload[d].size
  PROVE  WithinTotal'
  <1>1. /\ Putting \cup Inserting = Documents!At({"put", "insert"})
        /\ Putting' \cup Inserting' = Documents!At({"put", "insert"})'
    BY DEF Putting, Inserting, Documents!At
  <1>2. \A d \in Documents!At({"put", "insert"}) : upload[d].size \in Nat
    <2>1. \A d \in Documents!At({"put", "insert"}) : upload[d].size \in Sizes
      BY UploadFields DEF Documents!At, Documents!TypeOK
    <2>. QED
      BY <2>1, PartsAssumption
  <1>3. MaxTotal \in Nat
    BY PartsAssumption
  <1>. QED
    BY <1>1, <1>2, <1>3 DEF WithinTotal

LEMMA WithinTotalNext ==
  DocsInv /\ Documents!TypeOK' /\ [Documents!Next]_(Documents!vars) => overlapped' \/ WithinTotal'
  <1>. SUFFICES ASSUME DocsInv, Documents!TypeOK', [Documents!Next]_(Documents!vars), ~overlapped'
                PROVE  WithinTotal'
    OBVIOUS
  <1>. USE DEF Documents!history
  <1>. DEFINE PI == Documents!At({"put", "insert"})
  <1>1. /\ Documents!TypeOK /\ UploadsOver
        /\ \A d \in Docs : docs[d] \in Documents!Row \cup {Documents!NoRow}
        /\ upload \in [Docs -> Documents!UploadStates]
        /\ deletion \in [Handlers -> Documents!DeletionStates]
    BY DEF DocsInv, Documents!TypeOK
  <1>2. /\ \A d : d \in PI <=> d \in Docs /\ upload[d].step \in {"put", "insert"}
        /\ \A d : d \in PI' <=> d \in Docs /\ upload'[d].step \in {"put", "insert"}
    BY DEF Documents!At
  <1>3. ASSUME NEW d \in Docs, NEW v, upload' = [upload EXCEPT ![d] = v],
               docs' = docs, overlapped' = overlapped,
               v.step \in {"put", "insert"} => d \in PI /\ v.size = upload[d].size
        PROVE  WithinTotal'
    <2>1. upload'[d] = v /\ \A e \in Docs \ {d} : upload'[e] = upload[e]
      BY <1>1, <1>3
    <2>2. \A e \in PI' : e \in PI /\ upload'[e].size = upload[e].size
      BY <1>2, <1>3, <2>1
    <2>3. WithinTotal
      BY <1>3 DEF DocsInv
    <2>4. Documents!Total' = Documents!Total /\ Documents!Total \in Int
      BY <1>1, <1>3, TotalSame, TotalChanges
    <2>. QED
      BY <1>1, <2>2, <2>3, <2>4, TotalKeeps
  <1>4. ASSUME NEW d \in Docs, NEW size \in Sizes, Documents!Receive(d, size) PROVE WithinTotal'
    <2>. DEFINE v == [step |-> "check", size |-> size]
    <2>1. /\ upload' = [upload EXCEPT ![d] = v] /\ docs' = docs /\ overlapped' = overlapped
          /\ v.step = "check"
      BY <1>4 DEF Documents!Receive
    <2>. HIDE DEF v
    <2>. QED
      BY <1>3, <2>1
  <1>5. ASSUME NEW d \in Docs,
               \/ Documents!LeaveFile(d) \/ Documents!RefuseFile(d)
               \/ Documents!PutFails(d) \/ Documents!CreateFails(d)
        PROVE  WithinTotal'
    <2>1. /\ upload' = [upload EXCEPT ![d] = Documents!Ended] /\ docs' = docs
          /\ overlapped' = overlapped
      BY <1>5 DEF Documents!LeaveFile, Documents!RefuseFile, Documents!PutFails,
         Documents!CreateFails, Documents!Stops
    <2>. QED
      BY <1>3, <2>1, UploadFields
  <1>6. ASSUME NEW d \in Docs, NEW x \in DocTypes, Documents!CheckType(d, x) PROVE WithinTotal'
    <2>. DEFINE v == [step |-> "sum", size |-> upload[d].size, type |-> x]
    <2>1. /\ upload' = [upload EXCEPT ![d] = v] /\ docs' = docs /\ overlapped' = overlapped
          /\ v.step = "sum"
      BY <1>6 DEF Documents!CheckType
    <2>. HIDE DEF v
    <2>. QED
      BY <1>3, <2>1
  <1>7. ASSUME NEW d \in Docs, Documents!PutObject(d) PROVE WithinTotal'
    <2>. DEFINE v == [upload[d] EXCEPT !.step = "insert"]
    <2>1. /\ upload' = [upload EXCEPT ![d] = v] /\ docs' = docs /\ overlapped' = overlapped
          /\ upload[d].step = "put" /\ d \in PI
      BY <1>2, <1>7 DEF Documents!PutObject, Documents!Goes, Documents!At
    <2>2. v.size = upload[d].size
      BY <1>1, <2>1, UploadGoes
    <2>. HIDE DEF v
    <2>. QED
      BY <1>3, <2>1, <2>2
  <1>8. ASSUME NEW d \in Docs, Documents!CheckTotal(d) PROVE WithinTotal'
    <2>1. CASE ~Documents!Fits(upload[d].size)
      <3>1. /\ upload' = [upload EXCEPT ![d] = Documents!Ended] /\ docs' = docs
            /\ overlapped' = overlapped
        BY <1>8, <2>1 DEF Documents!CheckTotal, Documents!Stops
      <3>. QED
        BY <1>3, <3>1, UploadFields
    <2>2. CASE Documents!Fits(upload[d].size)
      <3>. DEFINE v == [upload[d] EXCEPT !.step = "put"]
      <3>1. /\ upload' = [upload EXCEPT ![d] = v] /\ docs' = docs
            /\ overlapped' = (overlapped \/ PI # {}) /\ upload[d].step = "sum"
        BY <1>8, <2>2 DEF Documents!CheckTotal, Documents!Goes, Documents!At
      <3>2. v.step = "put" /\ v.size = upload[d].size /\ upload[d].size \in Sizes
        BY <1>1, <3>1, UploadGoes, UploadFields
      <3>. HIDE DEF v
      <3>3. PI = {} /\ ~overlapped
        BY <3>1
      <3>4. upload'[d] = v /\ \A e \in Docs \ {d} : upload'[e] = upload[e]
        BY <1>1, <3>1
      <3>5. PI' = {d}
        BY <1>2, <3>2, <3>3, <3>4
      <3>6. Documents!Total' = Documents!Total /\ Documents!Total + upload[d].size <= MaxTotal
        BY <2>2, <3>1, TotalSame DEF Documents!Fits
      <3>7. WithinTotal
        BY <3>3 DEF DocsInv
      <3>8. Putting' \cup Inserting' = {d}
        BY <3>5 DEF Putting, Inserting, Documents!At
      <3>9. \A e \in {d} : Documents!Total' + upload'[e].size <= MaxTotal
        BY <3>2, <3>4, <3>6
      <3>. QED
        BY <3>6, <3>7, <3>8, <3>9 DEF WithinTotal
    <2>. QED
      BY <2>1, <2>2
  <1>9. ASSUME NEW d \in Docs, Documents!CreateRow(d) PROVE WithinTotal'
    <2>1. /\ docs' = [docs EXCEPT ![d] = [type |-> upload[d].type, size |-> upload[d].size]]
          /\ upload' = [upload EXCEPT ![d] = Documents!Ended] /\ overlapped' = overlapped
          /\ upload[d].step = "insert" /\ d \in PI
      BY <1>2, <1>9 DEF Documents!CreateRow, Documents!Stops, Documents!At
    <2>2. WithinTotal
      BY <2>1 DEF DocsInv
    <2>3. PI = Putting \cup Inserting /\ PI' = Putting' \cup Inserting'
      BY DEF Putting, Inserting, Documents!At
    <2>4. PI' = {}
      <3>1. PI = {d}
        BY <2>1, <2>2, <2>3 DEF WithinTotal
      <3>2. /\ upload'[d] = Documents!Ended /\ \A e \in Docs \ {d} : upload'[e] = upload[e]
            /\ Documents!Ended.step = "ended"
        BY <1>1, <2>1, UploadFields
      <3>. QED
        BY <1>2, <3>1, <3>2
    <2>5. Documents!Total' <= MaxTotal
      <3>1. d \notin Documents!Stored
        BY <1>1, <2>1, UploadFields DEF UploadsOver
      <3>2. docs[d].size = 0
        BY <1>1, <3>1 DEF Documents!Stored, Documents!NoRow
      <3>3. /\ docs'[d].size = upload[d].size /\ \A e \in Docs \ {d} : docs'[e] = docs[e]
        BY <1>1, <2>1 DEF Documents!TypeOK
      <3>4. /\ Documents!Total \in Int
            /\ Documents!Total' = Documents!Total + (docs'[d].size - docs[d].size)
        BY <1>1, <3>3, TotalChanges
      <3>5. upload[d].size \in Nat
        BY <1>1, <2>1, UploadFields, PartsAssumption
      <3>6. Documents!Total + upload[d].size <= MaxTotal
        BY <2>1, <2>2, <2>3 DEF WithinTotal
      <3>. QED
        BY <3>2, <3>3, <3>4, <3>5, <3>6
    <2>. QED
      BY <2>3, <2>4, <2>5 DEF WithinTotal
  <1>10. ASSUME UNCHANGED <<docs, upload, overlapped>> PROVE WithinTotal'
    <2>1. WithinTotal /\ Documents!Total' = Documents!Total
      BY <1>10, TotalSame DEF DocsInv
    <2>2. Putting' = Putting /\ Inserting' = Inserting
      BY <1>10 DEF Putting, Inserting, Documents!At
    <2>. QED
      BY <1>10, <2>1, <2>2 DEF WithinTotal
  <1>11. ASSUME NEW t \in Handlers, Documents!DeleteRow(t) PROVE WithinTotal'
    <2>1. deletion[t].step = "row" /\ deletion[t].doc \in Docs
      BY <1>1, <1>11, DeletionFields DEF Documents!DeleteRow
    <2>2. PICK d \in Docs : d = deletion[t].doc
      BY <2>1
    <2>3. /\ docs' = [docs EXCEPT ![d] = Documents!NoRow]
          /\ upload' = upload /\ overlapped' = overlapped
      BY <1>11, <2>2 DEF Documents!DeleteRow
    <2>4. /\ docs'[d] = Documents!NoRow /\ \A e \in Docs \ {d} : docs'[e] = docs[e]
      BY <1>1, <2>3 DEF Documents!TypeOK
    <2>5. docs'[d].size = 0 /\ docs[d].size \in Nat
      BY <1>1, <2>4, SizeOfType DEF SizesTyped, Documents!NoRow
    <2>6. /\ Documents!Total \in Int
          /\ Documents!Total' = Documents!Total + (docs'[d].size - docs[d].size)
      BY <1>1, <2>4, TotalChanges
    <2>7. WithinTotal
      BY <2>3 DEF DocsInv
    <2>8. \A e \in PI' : e \in PI /\ upload'[e].size = upload[e].size
      BY <1>2, <2>3
    <2>9. Documents!Total' \in Int /\ Documents!Total' <= Documents!Total
      BY <2>5, <2>6
    <2>. QED
      BY <1>1, <2>6, <2>7, <2>8, <2>9, TotalKeeps
  <1>12. CASE Documents!Crash
    <2>1. /\ docs' = docs /\ overlapped' = overlapped
          /\ upload' = [d \in Docs |-> IF upload[d] = Documents!NotYet THEN Documents!NotYet
                                       ELSE Documents!Ended]
      BY <1>12 DEF Documents!Crash
    <2>2. PI' = {}
      BY <1>2, <2>1, UploadFields
    <2>3. Putting' \cup Inserting' = {}
      BY <2>2 DEF Putting, Inserting, Documents!At
    <2>4. WithinTotal /\ Documents!Total' = Documents!Total
      BY <2>1, TotalSame DEF DocsInv
    <2>. QED
      BY <2>3, <2>4 DEF WithinTotal
  <1>13. ASSUME NEW x \in DocTypes,
                \/ Documents!CreateType(x) \/ Documents!DeleteTypeRead(x) \/ Documents!DeleteType(x)
                \/ \E isActive \in BOOLEAN : Documents!UpdateType(x, isActive)
         PROVE  WithinTotal'
    <2>1. UNCHANGED <<docs, upload, overlapped>>
      BY <1>13 DEF Documents!CreateType, Documents!DeleteTypeRead, Documents!DeleteType,
         Documents!UpdateType
    <2>. QED
      BY <1>10, <2>1
  <1>14. ASSUME NEW t \in Handlers,
                \/ \E d \in Docs : Documents!DeleteRead(t, d)
                \/ Documents!DeleteObject(t) \/ Documents!DeleteObjectFails(t)
                \/ Documents!DeleteRowFails(t)
         PROVE  WithinTotal'
    <2>1. UNCHANGED <<docs, upload, overlapped>>
      BY <1>14 DEF Documents!DeleteRead, Documents!DeleteObject, Documents!DeleteObjectFails,
         Documents!DeleteRowFails
    <2>. QED
      BY <1>10, <2>1
  <1>15. CASE UNCHANGED Documents!vars
    BY <1>10, <1>15 DEF Documents!vars
  <1>. QED
    BY <1>4, <1>5, <1>6, <1>7, <1>8, <1>9, <1>11, <1>12, <1>13, <1>14, <1>15 DEF Documents!Next

(* The documents by themselves: the stores agree, within the limit. *)
THEOREM DocumentsAlwaysKept == Documents!Spec => []Documents!DocumentsKept
  <1>1. DocsInv => Documents!DocumentsKept
    BY DEF DocsInv, StoresAgree, WithinTotal, Documents!DocumentsKept, Documents!TotalHolds
  <1>2. DocsInv /\ [Documents!Next]_(Documents!vars) => DocsInv'
    BY DocsStepsNext, WithinTotalNext DEF DocsInv
  <1>. QED
    BY DocsInvInit, <1>1, <1>2, PTL DEF Documents!Spec

(* Wherever uploads, deletions, changes of types and a crash cut in, a row *)
(* has its object, an object its row, and a temporary file its upload, but *)
(* for what is on record as failed; and the documents stay within the      *)
(* limit unless uploads overlapped; for any number of documents, requests  *)
(* and types, any sizes and any limit. *)
THEOREM PartsDocumentsKept == PartsSpec => []DocumentsKept
  <1>1. Documents!DocumentsKept => DocumentsKept
    BY DEF DocumentsKept
  <1>. QED
    BY <1>1, PartsAlone, DocumentsAlwaysKept, PTL

-----------------------------------------------------------------------------
(* The holidays. A handler that has found a date free finds it free still, *)
(* unless it is on record as contested or unchecked; and whatever an       *)
(* import has gone through is copied, or deleted since.                    *)

ShownTypes == HolidayTypes \cup {"PUBLIC_HOLIDAY"}
IsHoliday(x) ==
  /\ x = [bs |-> x.bs, date |-> x.date, name |-> x.name, type |-> x.type, own |-> x.own,
          active |-> x.active]
  /\ x.own \in BOOLEAN /\ x.active \in BOOLEAN /\ x.type \in ShownTypes

IsSync(q) == q.op = "sync" /\ q = [op |-> "sync", todo |-> q.todo, source |-> q.source]
IsNational(q) ==
  /\ q.op = "national" /\ q = [op |-> "national", row |-> q.row, then |-> q.then]
  /\ IsHoliday(q.row) /\ ~q.row.own /\ (q.then = Holidays!Idle \/ IsSync(q.then))
IsImport(q) ==
  /\ q.op = "import" /\ q = [op |-> "import", todo |-> q.todo, list |-> q.list, lost |-> q.lost]
  /\ \A h \in q.todo : IsHoliday(h)
IsCopy(q) ==
  /\ q.op = "copy"
  /\ q = [op |-> "copy", todo |-> q.todo, list |-> q.list, lost |-> q.lost, row |-> q.row]
  /\ IsHoliday(q.row) /\ \A h \in q.todo : IsHoliday(h)
IsHandling(q) ==
  q = Holidays!Idle \/ IsSync(q) \/ IsNational(q) \/ IsImport(q) \/ IsCopy(q)

HolidaysShaped ==
  /\ given = [i \in Holidays!Ids |-> given[i]] /\ handling = [r \in Handlers |-> handling[r]]
  /\ \A i \in Holidays!Ids : given[i] \in {Holidays!NoRow, Holidays!Deleted} \/ IsHoliday(given[i])
  /\ \A r \in Handlers : IsHandling(handling[r])

Excused == unchecked \cup filled
Filling == {r \in Handlers : handling[r].op = "national"}

DatesFree ==
  \A r \in Filling : handling[r].row.bs \notin Excused =>
    /\ \A i \in Holidays!National : given[i].bs # handling[r].row.bs
    /\ \A s \in Filling : handling[s].row.bs = handling[r].row.bs => s = r

OwnKeys == {Holidays!Key(given[i]) : i \in Holidays!Own}

CopiedOrDue(q, keys) ==
  \A h \in q.list :
    \/ h \in q.todo
    \/ q.op = "copy" /\ h = q.row
    \/ Holidays!Key(h) \in q.lost \cup keys

HolidaysInv ==
  /\ HolidaysShaped
  /\ Holidays!OneNationalPerDate /\ DatesFree
  /\ imported \subseteq OwnKeys
  /\ \A r \in Handlers : handling[r].op \in {"import", "copy"} => CopiedOrDue(handling[r], OwnKeys)

(* A holiday is a row, neither the mark of no row nor that of a deletion. *)
LEMMA HolidayIsRow ==
  ASSUME NEW x, IsHoliday(x)
  PROVE  x \notin {Holidays!NoRow, Holidays!Deleted}
  <1>1. "active" \in DOMAIN x
    BY DEF IsHoliday
  <1>2. "active" \notin DOMAIN Holidays!NoRow /\ "active" \notin DOMAIN Holidays!Deleted
    BY DEF Holidays!NoRow, Holidays!Deleted
  <1>. QED
    BY <1>1, <1>2

LEMMA PresentAreHolidays ==
  ASSUME HolidaysShaped
  PROVE  /\ Holidays!Present = {i \in Holidays!Ids : IsHoliday(given[i])}
         /\ Holidays!National = {i \in Holidays!Ids : IsHoliday(given[i]) /\ ~given[i].own}
         /\ Holidays!Own = {i \in Holidays!Ids : IsHoliday(given[i]) /\ given[i].own}
  <1>1. Holidays!Present = {i \in Holidays!Ids : IsHoliday(given[i])}
    BY HolidayIsRow DEF HolidaysShaped, Holidays!Present
  <1>. QED
    BY <1>1 DEF Holidays!National, Holidays!Own

(* What is written for one of the lists or forms is a row. *)
LEMMA RowIsHoliday ==
  ASSUME NEW h, NEW type \in ShownTypes, NEW own \in BOOLEAN
  PROVE  /\ IsHoliday(Holidays!Row(h, own, type))
         /\ Holidays!Row(h, own, type).own = own
         /\ Holidays!Row(h, own, type).bs = h.bs
  BY DEF IsHoliday, Holidays!Row

LEMMA CopyIsHoliday ==
  ASSUME NEW h, IsHoliday(h), NEW own \in BOOLEAN
  PROVE  LET copy == [h EXCEPT !.own = own] IN
         IsHoliday(copy) /\ copy.own = own /\ Holidays!Key(copy) = Holidays!Key(h)
  BY DEF IsHoliday, Holidays!Key

LEMMA SwitchedIsHoliday ==
  ASSUME NEW h, IsHoliday(h), NEW active \in BOOLEAN
  PROVE  LET next == [h EXCEPT !.active = active] IN
         /\ IsHoliday(next) /\ next.own = h.own /\ next.bs = h.bs
         /\ Holidays!Key(next) = Holidays!Key(h)
  BY DEF IsHoliday, Holidays!Key

(* The steps keep the shapes. *)
LEMMA InsertShaped ==
  ASSUME HolidaysShaped, NEW row, IsHoliday(row), Holidays!Insert(row)
  PROVE  \E i \in Holidays!Ids :
           /\ given' = [given EXCEPT ![i] = row] /\ given[i] = Holidays!NoRow
           /\ given' = [j \in Holidays!Ids |-> given'[j]]
           /\ given'[i] = row /\ \A j \in Holidays!Ids \ {i} : given'[j] = given[j]
  BY DEF HolidaysShaped, Holidays!Insert

(* A handler goes on to another state, the others stay. *)
LEMMA HandlerBecomes ==
  ASSUME HolidaysShaped, NEW r \in Handlers, NEW q, Holidays!Becomes(r, q)
  PROVE  /\ handling' = [s \in Handlers |-> handling'[s]]
         /\ handling'[r] = q /\ \A s \in Handlers \ {r} : handling'[s] = handling[s]
  BY DEF HolidaysShaped, Holidays!Becomes

LEMMA IdleOp == Holidays!Idle.op = "idle" /\ IsHandling(Holidays!Idle)
  BY DEF Holidays!Idle, IsHandling

LEMMA HandlingOp ==
  ASSUME NEW q, IsHandling(q)
  PROVE  /\ q.op = "sync" <=> IsSync(q)
         /\ q.op = "national" <=> IsNational(q)
         /\ q.op = "import" <=> IsImport(q)
         /\ q.op = "copy" <=> IsCopy(q)
  BY IdleOp DEF IsHandling, IsSync, IsNational, IsImport, IsCopy

(* The lists that a synchronisation goes through. *)
LEMMA SyncRest ==
  ASSUME NEW q, IsSync(q), NEW rest
  PROVE  IsSync([q EXCEPT !.todo = rest])
  BY DEF IsSync

LEMMA ImportRest ==
  ASSUME NEW q, IsImport(q), NEW rest \in SUBSET q.todo
  PROVE  LET next == [q EXCEPT !.todo = rest] IN
         IsImport(next) /\ next.list = q.list /\ next.lost = q.lost /\ next.todo = rest
  BY DEF IsImport

LEMMA LostMore ==
  ASSUME NEW q, IsImport(q) \/ IsCopy(q), NEW key
  PROVE  LET next == [q EXCEPT !.lost = @ \cup {key}] IN
         /\ IsImport(q) => IsImport(next)
         /\ IsCopy(q) => IsCopy(next) /\ next.row = q.row
         /\ next.list = q.list /\ next.todo = q.todo /\ next.op = q.op
         /\ next.lost = q.lost \cup {key}
  BY DEF IsImport, IsCopy

LEMMA HolidaysInvInit == Holidays!Init => HolidaysInv
  <1>. SUFFICES ASSUME Holidays!Init PROVE HolidaysInv
    OBVIOUS
  <1>1. /\ given = [i \in Holidays!Ids |-> Holidays!NoRow]
        /\ handling = [r \in Handlers |-> Holidays!Idle] /\ imported = {}
    BY DEF Holidays!Init
  <1>2. HolidaysShaped
    BY <1>1, IdleOp DEF HolidaysShaped
  <1>3. Holidays!National = {} /\ Filling = {}
    BY <1>1, IdleOp DEF Holidays!National, Holidays!Present, Filling
  <1>4. \A r \in Handlers : handling[r].op \notin {"import", "copy"}
    BY <1>1, IdleOp
  <1>. QED
    BY <1>1, <1>2, <1>3, <1>4 DEF HolidaysInv, DatesFree, Holidays!OneNationalPerDate

(* A handler goes on, without writing. If it has found a date free, no row *)
(* has it and no other handler is about to fill it, or it is on record. If *)
(* it imports, what it has gone through is copied.                         *)
FoundFree(r, q) ==
  q.op = "national" /\ q.row.bs \notin Excused' =>
    /\ \A i \in Holidays!National : given[i].bs # q.row.bs
    /\ \A s \in Filling \ {r} : handling[s].row.bs # q.row.bs

LEMMA HandlerSteps ==
  ASSUME HolidaysInv, NEW r \in Handlers, NEW q, IsHandling(q), Holidays!Becomes(r, q),
         given' = given, Excused \subseteq Excused', imported' \subseteq OwnKeys,
         FoundFree(r, q),
         q.op \in {"import", "copy"} => CopiedOrDue(q, OwnKeys)
  PROVE  HolidaysInv'
  <1>1. HolidaysShaped /\ Holidays!OneNationalPerDate /\ DatesFree
    BY DEF HolidaysInv
  <1>2. /\ handling' = [s \in Handlers |-> handling'[s]]
        /\ handling'[r] = q /\ \A s \in Handlers \ {r} : handling'[s] = handling[s]
    BY <1>1, HandlerBecomes
  <1>3. HolidaysShaped'
    BY <1>1, <1>2 DEF HolidaysShaped
  <1>4. Holidays!National' = Holidays!National /\ OwnKeys' = OwnKeys
    BY DEF Holidays!National, OwnKeys, Holidays!Own, Holidays!Present
  <1>5. Holidays!OneNationalPerDate'
    BY <1>1, <1>4 DEF Holidays!OneNationalPerDate, Excused
  <1>6. /\ Filling' \subseteq Filling \cup {r}
        /\ r \in Filling' => q.op = "national"
    BY <1>2 DEF Filling
  <1>7. DatesFree'
    <2>. SUFFICES ASSUME NEW s \in Filling', handling'[s].row.bs \notin Excused'
                  PROVE  /\ \A i \in Holidays!National : given[i].bs # handling'[s].row.bs
                         /\ \A t \in Filling' :
                              handling'[t].row.bs = handling'[s].row.bs => t = s
      BY <1>4 DEF DatesFree
    <2>1. CASE s = r
      <3>1. /\ \A i \in Holidays!National : given[i].bs # q.row.bs
            /\ \A t \in Filling \ {r} : handling[t].row.bs # q.row.bs
        BY <1>2, <1>6, <2>1 DEF FoundFree
      <3>2. \A t \in Filling' \ {r} : t \in Filling \ {r} /\ handling'[t] = handling[t]
        BY <1>2, <1>6 DEF Filling
      <3>. QED
        BY <1>2, <2>1, <3>1, <3>2
    <2>2. CASE s # r
      <3>1. s \in Filling /\ handling'[s] = handling[s] /\ handling[s].row.bs \notin Excused
        BY <1>2, <1>6, <2>2 DEF Filling
      <3>2. /\ \A i \in Holidays!National : given[i].bs # handling[s].row.bs
            /\ \A t \in Filling : handling[t].row.bs = handling[s].row.bs => t = s
        BY <1>1, <3>1 DEF DatesFree
      <3>3. \A t \in Filling' \ {r} : t \in Filling /\ handling'[t] = handling[t]
        BY <1>2, <1>6 DEF Filling
      <3>4. ASSUME r \in Filling', handling'[r].row.bs = handling'[s].row.bs PROVE FALSE
        BY <1>2, <1>6, <2>2, <3>1, <3>4 DEF FoundFree
      <3>. QED
        BY <3>1, <3>2, <3>3, <3>4
    <2>. QED
      BY <2>1, <2>2
  <1>8. \A s \in Handlers :
          handling'[s].op \in {"import", "copy"} => CopiedOrDue(handling'[s], OwnKeys')
    BY <1>2, <1>4 DEF HolidaysInv
  <1>. QED
    BY <1>3, <1>4, <1>5, <1>7, <1>8 DEF HolidaysInv

(* A row is inserted. A national one fills a date that was free, or one on *)
(* record; the handlers that go on have nothing found, and the imports are *)
(* as they were or have gone through what is copied.                       *)
LEMMA InsertSteps ==
  ASSUME HolidaysInv, NEW row, IsHoliday(row), Holidays!Insert(row),
         handling' = [s \in Handlers |-> handling'[s]],
         \A s \in Handlers : IsHandling(handling'[s]),
         \A s \in Filling' : s \in Filling /\ handling'[s] = handling[s],
         \A s \in Handlers : handling'[s].op \in {"import", "copy"} =>
           \A keys : OwnKeys \subseteq keys /\ (row.own => Holidays!Key(row) \in keys)
             => CopiedOrDue(handling'[s], keys),
         imported' = imported, Excused \subseteq Excused',
         ~row.own /\ row.bs \notin Excused' =>
           /\ \A i \in Holidays!National : given[i].bs # row.bs
           /\ \A s \in Filling' : handling[s].row.bs # row.bs
  PROVE  HolidaysInv'
  <1>1. HolidaysShaped /\ Holidays!OneNationalPerDate /\ DatesFree
    BY DEF HolidaysInv
  <1>2. PICK i \in Holidays!Ids :
          /\ given[i] = Holidays!NoRow /\ given' = [j \in Holidays!Ids |-> given'[j]]
          /\ given'[i] = row /\ \A j \in Holidays!Ids \ {i} : given'[j] = given[j]
    BY <1>1, InsertShaped
  <1>3. HolidaysShaped'
    BY <1>1, <1>2 DEF HolidaysShaped
  <1>4. i \notin Holidays!National /\ i \notin Holidays!Own
    BY <1>2 DEF Holidays!National, Holidays!Own, Holidays!Present
  <1>5. /\ \A j \in Holidays!National' : \/ j = i /\ ~row.own
                                         \/ j \in Holidays!National /\ given'[j] = given[j]
        /\ \A j \in Holidays!Own : j \in Holidays!Own' /\ given'[j] = given[j]
        /\ row.own => i \in Holidays!Own'
    <2>1. /\ Holidays!National' = {j \in Holidays!Ids : IsHoliday(given'[j]) /\ ~given'[j].own}
          /\ Holidays!Own' = {j \in Holidays!Ids : IsHoliday(given'[j]) /\ given'[j].own}
      <3>1. Holidays!Present' = {j \in Holidays!Ids : IsHoliday(given'[j])}
        BY <1>3, HolidayIsRow DEF HolidaysShaped, Holidays!Present
      <3>. QED
        BY <3>1 DEF Holidays!National, Holidays!Own
    <2>2. /\ Holidays!National = {j \in Holidays!Ids : IsHoliday(given[j]) /\ ~given[j].own}
          /\ Holidays!Own = {j \in Holidays!Ids : IsHoliday(given[j]) /\ given[j].own}
      BY <1>1, PresentAreHolidays
    <2>. QED
      BY <1>2, <1>4, <2>1, <2>2
  <1>6. Holidays!OneNationalPerDate'
    <2>. SUFFICES ASSUME NEW j \in Holidays!National', NEW k \in Holidays!National',
                         given'[j].bs = given'[k].bs, given'[j].bs \notin Excused'
                  PROVE  j = k
      BY DEF Holidays!OneNationalPerDate, Excused
    <2>. QED
      BY <1>1, <1>2, <1>5 DEF Holidays!OneNationalPerDate, Excused
  <1>7. DatesFree'
    <2>. SUFFICES ASSUME NEW s \in Filling', handling'[s].row.bs \notin Excused'
                  PROVE  /\ \A j \in Holidays!National' : given'[j].bs # handling'[s].row.bs
                         /\ \A t \in Filling' :
                              handling'[t].row.bs = handling'[s].row.bs => t = s
      BY DEF DatesFree
    <2>1. /\ s \in Filling /\ handling'[s] = handling[s] /\ handling[s].row.bs \notin Excused
          /\ \A t \in Filling' : t \in Filling /\ handling'[t] = handling[t]
      OBVIOUS
    <2>2. /\ \A j \in Holidays!National : given[j].bs # handling[s].row.bs
          /\ \A t \in Filling : handling[t].row.bs = handling[s].row.bs => t = s
      BY <1>1, <2>1 DEF DatesFree
    <2>. QED
      BY <1>2, <1>5, <2>1, <2>2
  <1>8. OwnKeys \subseteq OwnKeys' /\ (row.own => Holidays!Key(row) \in OwnKeys')
    BY <1>2, <1>5 DEF OwnKeys
  <1>9. \A s \in Handlers :
          handling'[s].op \in {"import", "copy"} => CopiedOrDue(handling'[s], OwnKeys')
    BY <1>8
  <1>. QED
    BY <1>3, <1>6, <1>7, <1>8, <1>9 DEF HolidaysInv

(* More keys copied, or lost: what was copied or due is so still. *)
LEMMA CopiedOrDueGrows ==
  ASSUME NEW q, NEW keys, NEW more, CopiedOrDue(q, keys), keys \subseteq more
  PROVE  CopiedOrDue(q, more)
  BY DEF CopiedOrDue

(* A row is deleted, or switched on or off: the others stay as they are,   *)
(* and the row keeps its date, its name and its owner if it is still there.*)
LEMMA ChangeSteps ==
  ASSUME HolidaysInv, NEW i \in Holidays!Present,
         given' = [j \in Holidays!Ids |-> given'[j]],
         \A j \in Holidays!Ids \ {i} : given'[j] = given[j],
         \/ given'[i] = Holidays!Deleted
         \/ /\ IsHoliday(given'[i]) /\ given'[i].own = given[i].own
            /\ given'[i].bs = given[i].bs
            /\ Holidays!Key(given'[i]) = Holidays!Key(given[i]),
         handling' = [s \in Handlers |-> handling'[s]],
         \A s \in Handlers : IsHandling(handling'[s]),
         \A s \in Filling' : s \in Filling /\ handling'[s] = handling[s],
         \A s \in Handlers : handling'[s].op \in {"import", "copy"} =>
           CopiedOrDue(handling'[s], OwnKeys'),
         imported' \subseteq OwnKeys', Excused' = Excused
  PROVE  HolidaysInv'
  <1>1. HolidaysShaped /\ Holidays!OneNationalPerDate /\ DatesFree
    BY DEF HolidaysInv
  <1>2. HolidaysShaped'
    BY <1>1 DEF HolidaysShaped, Holidays!Present
  <1>3. \A j \in Holidays!National' : j \in Holidays!National /\ given'[j].bs = given[j].bs
    <2>1. Holidays!National' = {j \in Holidays!Ids : IsHoliday(given'[j]) /\ ~given'[j].own}
      <3>1. Holidays!Present' = {j \in Holidays!Ids : IsHoliday(given'[j])}
        BY <1>2, HolidayIsRow DEF HolidaysShaped, Holidays!Present
      <3>. QED
        BY <3>1 DEF Holidays!National
    <2>2. /\ Holidays!National = {j \in Holidays!Ids : IsHoliday(given[j]) /\ ~given[j].own}
          /\ Holidays!Present = {j \in Holidays!Ids : IsHoliday(given[j])}
      BY <1>1, PresentAreHolidays
    <2>3. ~IsHoliday(Holidays!Deleted)
      BY HolidayIsRow
    <2>. QED
      BY <2>1, <2>2, <2>3
  <1>4. Holidays!OneNationalPerDate'
    BY <1>1, <1>3 DEF Holidays!OneNationalPerDate, Excused
  <1>5. DatesFree'
    BY <1>1, <1>3 DEF DatesFree
  <1>. QED
    BY <1>2, <1>4, <1>5 DEF HolidaysInv

LEMMA DeleteHolidaySteps ==
  ASSUME HolidaysInv, NEW i \in Holidays!Ids, Holidays!DeleteHoliday(i)
  PROVE  HolidaysInv'
  <1>. DEFINE key == Holidays!Key(given[i])
              Losing(r) == given[i].own /\ handling[r].op \in {"import", "copy"}
  <1>1. HolidaysShaped /\ imported \subseteq OwnKeys /\ i \in Holidays!Present
    BY DEF HolidaysInv, Holidays!DeleteHoliday
  <1>2. /\ given' = [given EXCEPT ![i] = Holidays!Deleted]
        /\ imported' = IF given[i].own THEN imported \ {key} ELSE imported
        /\ UNCHANGED <<unchecked, filled>>
    BY DEF Holidays!DeleteHoliday
  <1>3. /\ handling' = [r \in Handlers |-> handling'[r]]
        /\ \A r \in Handlers : handling'[r] = IF Losing(r) THEN [handling[r] EXCEPT !.lost = @ \cup {key}]
                                              ELSE handling[r]
    BY <1>1 DEF HolidaysShaped, Holidays!DeleteHoliday
  <1>4. /\ given' = [j \in Holidays!Ids |-> given'[j]] /\ given'[i] = Holidays!Deleted
        /\ \A j \in Holidays!Ids \ {i} : given'[j] = given[j]
    BY <1>1, <1>2 DEF HolidaysShaped
  <1>5. OwnKeys \subseteq OwnKeys' \cup (IF given[i].own THEN {key} ELSE {})
    <2>1. \A j \in Holidays!Own : j # i => j \in Holidays!Own' /\ given'[j] = given[j]
      BY <1>4 DEF Holidays!Own, Holidays!Present
    <2>2. i \in Holidays!Own => given[i].own
      BY DEF Holidays!Own
    <2>. QED
      BY <2>1, <2>2 DEF OwnKeys
  <1>6. ASSUME NEW r \in Handlers
        PROVE  /\ IsHandling(handling'[r])
               /\ handling'[r].op = handling[r].op
               /\ handling[r].op = "national" => handling'[r] = handling[r]
               /\ handling[r].op \in {"import", "copy"} => CopiedOrDue(handling'[r], OwnKeys')
    <2>1. IsHandling(handling[r])
      BY <1>1 DEF HolidaysShaped
    <2>2. handling[r].op \in {"import", "copy"} => CopiedOrDue(handling[r], OwnKeys)
      BY DEF HolidaysInv
    <2>3. CASE ~Losing(r)
      <3>1. handling'[r] = handling[r]
        BY <1>3, <2>3
      <3>2. handling[r].op \in {"import", "copy"} => OwnKeys \subseteq OwnKeys'
        BY <1>5, <2>3
      <3>. QED
        BY <2>1, <2>2, <3>1, <3>2, CopiedOrDueGrows
    <2>4. CASE Losing(r)
      <3>. DEFINE next == [handling[r] EXCEPT !.lost = @ \cup {key}]
      <3>1. IsImport(handling[r]) \/ IsCopy(handling[r])
        BY <2>1, <2>4, HandlingOp
      <3>2. /\ IsImport(handling[r]) => IsImport(next)
            /\ IsCopy(handling[r]) => IsCopy(next) /\ next.row = handling[r].row
            /\ next.list = handling[r].list /\ next.todo = handling[r].todo
            /\ next.op = handling[r].op /\ next.lost = handling[r].lost \cup {key}
        BY <3>1, LostMore
      <3>3. handling'[r] = next
        BY <1>3, <2>4
      <3>. HIDE DEF next, key
      <3>4. IsHandling(next)
        BY <3>1, <3>2 DEF IsHandling
      <3>5. OwnKeys \subseteq OwnKeys' \cup {key} /\ CopiedOrDue(handling[r], OwnKeys)
        BY <1>5, <2>2, <2>4
      <3>6. handling[r].op = "copy" => next.row = handling[r].row
        BY <2>1, <3>2, HandlingOp
      <3>7. CopiedOrDue(next, OwnKeys')
        BY <3>2, <3>5, <3>6 DEF CopiedOrDue
      <3>8. handling[r].op # "national"
        BY <2>4
      <3>. QED
        BY <3>2, <3>3, <3>4, <3>7, <3>8
    <2>. QED
      BY <2>3, <2>4
  <1>7. /\ \A r \in Handlers : IsHandling(handling'[r])
        /\ \A r \in Filling' : r \in Filling /\ handling'[r] = handling[r]
        /\ \A r \in Handlers : handling'[r].op \in {"import", "copy"} =>
             CopiedOrDue(handling'[r], OwnKeys')
    BY <1>6 DEF Filling
  <1>8. imported' \subseteq OwnKeys' /\ Excused' = Excused
    BY <1>1, <1>2, <1>5 DEF Excused
  <1>. HIDE DEF key, Losing
  <1>. QED
    BY <1>1, <1>3, <1>4, <1>7, <1>8, ChangeSteps

LEMMA UpdateHolidaySteps ==
  ASSUME HolidaysInv, NEW i \in Holidays!Ids, Holidays!UpdateHoliday(i)
  PROVE  HolidaysInv'
  <1>1. /\ HolidaysShaped /\ imported \subseteq OwnKeys /\ i \in Holidays!Present
        /\ \A r \in Handlers :
             handling[r].op \in {"import", "copy"} => CopiedOrDue(handling[r], OwnKeys)
    BY DEF HolidaysInv, Holidays!UpdateHoliday
  <1>2. PICK active \in BOOLEAN : given' = [given EXCEPT ![i] = [given[i] EXCEPT !.active = active]]
    <2>1. given' = [given EXCEPT ![i] = [given[i] EXCEPT !.active = ~given[i].active]]
      BY <1>1 DEF HolidaysShaped, Holidays!UpdateHoliday
    <2>. QED
      BY <2>1
  <1>3. UNCHANGED <<handling, unchecked, filled, imported>>
    BY DEF Holidays!UpdateHoliday
  <1>. DEFINE row == [given[i] EXCEPT !.active = active]
  <1>4. /\ IsHoliday(row) /\ row.own = given[i].own /\ row.bs = given[i].bs
        /\ Holidays!Key(row) = Holidays!Key(given[i])
    BY <1>1, SwitchedIsHoliday, PresentAreHolidays
  <1>5. /\ given' = [j \in Holidays!Ids |-> given'[j]] /\ given'[i] = row
        /\ \A j \in Holidays!Ids \ {i} : given'[j] = given[j]
    BY <1>1, <1>2 DEF HolidaysShaped
  <1>. HIDE DEF row
  <1>6. OwnKeys \subseteq OwnKeys'
    <2>1. \A j \in Holidays!Own :
            j \in Holidays!Own' /\ Holidays!Key(given'[j]) = Holidays!Key(given[j])
      BY <1>4, <1>5, HolidayIsRow DEF Holidays!Own, Holidays!Present
    <2>. QED
      BY <2>1 DEF OwnKeys
  <1>7. /\ handling' = [r \in Handlers |-> handling'[r]]
        /\ \A r \in Handlers : IsHandling(handling'[r]) /\ handling'[r] = handling[r]
        /\ Filling' = Filling
    BY <1>1, <1>3 DEF HolidaysShaped, Filling
  <1>8. \A r \in Handlers : handling'[r].op \in {"import", "copy"} =>
          CopiedOrDue(handling'[r], OwnKeys')
    BY <1>1, <1>6, <1>7, CopiedOrDueGrows
  <1>9. /\ \A r \in Filling' : r \in Filling /\ handling'[r] = handling[r]
        /\ imported' \subseteq OwnKeys' /\ Excused' = Excused
    BY <1>1, <1>3, <1>6, <1>7 DEF Excused, Filling
  <1>. QED
    BY <1>1, <1>4, <1>5, <1>7, <1>8, <1>9, ChangeSteps

(* A national row that has been found missing is about to be inserted: it  *)
(* is free, unless another handler has found so before.                    *)
LEMMA FindingSteps ==
  ASSUME HolidaysInv, NEW r \in Handlers, NEW h, NEW row, NEW then,
         IsHoliday(row), ~row.own, row.bs = h.bs,
         then = Holidays!Idle \/ IsSync(then),
         ~Holidays!Found(h), Holidays!Contests(h),
         Holidays!Becomes(r, [op |-> "national", row |-> row, then |-> then]),
         UNCHANGED <<given, unchecked, imported>>
  PROVE  HolidaysInv'
  <1>. DEFINE q == [op |-> "national", row |-> row, then |-> then]
  <1>1. IsHandling(q) /\ q.op = "national" /\ q.row = row
    BY DEF IsHandling, IsNational
  <1>2. filled' = IF \E s \in Filling : handling[s].row.bs = h.bs THEN filled \cup {h.bs} ELSE filled
    BY DEF Holidays!Contests, Filling
  <1>3. \A i \in Holidays!National : given[i].bs # h.bs
    BY DEF Holidays!Found
  <1>4. FoundFree(r, q)
    BY <1>1, <1>2, <1>3 DEF FoundFree, Excused
  <1>5. /\ Excused \subseteq Excused' /\ imported' \subseteq OwnKeys /\ given' = given
        /\ q.op \notin {"import", "copy"} /\ Holidays!Becomes(r, q)
    BY <1>1, <1>2 DEF Excused, HolidaysInv
  <1>. HIDE DEF q
  <1>. QED
    BY <1>1, <1>4, <1>5, HandlerSteps

(* The handlers that synchronise, or enter a master holiday. *)
LEMMA SyncSteps ==
  ASSUME HolidaysInv, NEW r \in Handlers, Holidays!Sync(r)
  PROVE  HolidaysInv'
  <1>1. HolidaysShaped /\ imported \subseteq OwnKeys /\ IsHandling(handling[r])
    BY DEF HolidaysInv, HolidaysShaped
  <1>2. ASSUME NEW q, IsHandling(q), Holidays!Becomes(r, q),
               q.op \notin {"national", "import", "copy"},
               UNCHANGED <<given, unchecked, filled, imported>>
        PROVE  HolidaysInv'
    <2>1. Excused \subseteq Excused' /\ imported' \subseteq OwnKeys /\ given' = given
      BY <1>1, <1>2 DEF Excused
    <2>. QED
      BY <1>2, <2>1, HandlerSteps DEF FoundFree
  <1>3. Holidays!Idle.op \notin {"national", "import", "copy"} /\ IsHandling(Holidays!Idle)
    BY IdleOp
  <1>4. ASSUME NEW todo, NEW source
        PROVE  /\ IsHandling([op |-> "sync", todo |-> todo, source |-> source])
               /\ [op |-> "sync", todo |-> todo, source |-> source].op = "sync"
    BY DEF IsHandling, IsSync
  <1>5. CASE Holidays!SyncStart(r)
    BY <1>2, <1>4, <1>5 DEF Holidays!SyncStart
  <1>6. CASE Holidays!SyncFails(r)
    BY <1>2, <1>3, <1>4, <1>6 DEF Holidays!SyncFails
  <1>7. CASE Holidays!SyncEnd(r)
    BY <1>2, <1>3, <1>7 DEF Holidays!SyncEnd
  <1>8. CASE Holidays!SyncFind(r)
    <2>. DEFINE h == Head(handling[r].todo)
                rest == [handling[r] EXCEPT !.todo = Tail(@)]
                row == Holidays!Row(h, FALSE, "PUBLIC_HOLIDAY")
                q == [op |-> "national", row |-> row, then |-> rest]
    <2>1. IsSync(rest)
      BY <1>1, <1>8, HandlingOp, SyncRest DEF Holidays!SyncFind
    <2>2. \/ Holidays!Becomes(r, rest) /\ filled' = filled
          \/ ~Holidays!Found(h) /\ Holidays!Becomes(r, q) /\ Holidays!Contests(h)
      BY <1>8 DEF Holidays!SyncFind
    <2>3. UNCHANGED <<given, unchecked, imported>>
      BY <1>8 DEF Holidays!SyncFind
    <2>4. CASE Holidays!Becomes(r, rest) /\ filled' = filled
      <3>1. IsHandling(rest) /\ rest.op = "sync"
        BY <2>1 DEF IsSync, IsHandling
      <3>. HIDE DEF rest
      <3>. QED
        BY <1>2, <2>3, <2>4, <3>1
    <2>5. CASE ~Holidays!Found(h) /\ Holidays!Becomes(r, q) /\ Holidays!Contests(h)
      <3>. HIDE DEF h, rest
      <3>. QED
        BY <2>1, <2>3, <2>5, RowIsHoliday, FindingSteps DEF ShownTypes
    <2>. QED
      BY <2>2, <2>4, <2>5
  <1>9. CASE Holidays!CreateNational(r)
    <2>. DEFINE row == handling[r].row
                then == handling[r].then
    <2>1. /\ Holidays!Insert(row) /\ Holidays!Becomes(r, then)
          /\ imported' = imported /\ Excused' = Excused /\ handling[r].op = "national"
      BY <1>9 DEF Holidays!CreateNational, Excused
    <2>2. IsHoliday(row) /\ ~row.own /\ IsHandling(then) /\ then.op \in {"idle", "sync"}
      BY <1>1, <2>1, HandlingOp, IdleOp DEF IsNational, IsSync, IsHandling
    <2>3. /\ handling' = [s \in Handlers |-> handling'[s]] /\ handling'[r] = then
          /\ \A s \in Handlers \ {r} : handling'[s] = handling[s]
      BY <1>1, <2>1, HandlerBecomes
    <2>4. r \in Filling
      BY <2>1 DEF Filling
    <2>. HIDE DEF row, then
    <2>5. \A s \in Handlers : IsHandling(handling'[s])
      BY <1>1, <2>2, <2>3 DEF HolidaysShaped
    <2>6. \A s \in Filling' : s \in Filling \ {r} /\ handling'[s] = handling[s]
      BY <2>2, <2>3 DEF Filling
    <2>7. ASSUME NEW s \in Handlers, handling'[s].op \in {"import", "copy"},
                 NEW keys, OwnKeys \subseteq keys
          PROVE  CopiedOrDue(handling'[s], keys)
      <3>1. handling'[s] = handling[s]
        BY <2>2, <2>3, <2>7
      <3>2. CopiedOrDue(handling[s], OwnKeys)
        BY <2>7, <3>1 DEF HolidaysInv
      <3>. QED
        BY <2>7, <3>1, <3>2, CopiedOrDueGrows
    <2>8. row.bs \notin Excused' =>
            /\ \A i \in Holidays!National : given[i].bs # row.bs
            /\ \A s \in Filling' : handling[s].row.bs # row.bs
      BY <2>1, <2>4, <2>6 DEF HolidaysInv, DatesFree, row
    <2>. QED
      BY <2>1, <2>2, <2>3, <2>5, <2>6, <2>7, <2>8, InsertSteps
  <1>. QED
    BY <1>5, <1>6, <1>7, <1>8, <1>9 DEF Holidays!Sync

(* The imports, whose list is as it was and whose work becomes copies. *)
LEMMA ImportSteps ==
  ASSUME HolidaysInv, NEW r \in Handlers, Holidays!Import(r)
  PROVE  HolidaysInv'
  <1>1. /\ HolidaysShaped /\ imported \subseteq OwnKeys /\ IsHandling(handling[r])
        /\ handling[r].op \in {"import", "copy"} => CopiedOrDue(handling[r], OwnKeys)
    BY DEF HolidaysInv, HolidaysShaped
  <1>2. ASSUME NEW q, IsHandling(q), Holidays!Becomes(r, q), q.op # "national",
               q.op \in {"import", "copy"} => CopiedOrDue(q, OwnKeys),
               UNCHANGED <<given, unchecked, filled>>, imported' \subseteq OwnKeys
        PROVE  HolidaysInv'
    <2>1. Excused \subseteq Excused' /\ given' = given
      BY <1>2 DEF Excused
    <2>. QED
      BY <1>2, <2>1, HandlerSteps DEF FoundFree
  <1>3. CASE Holidays!ImportStart(r)
    <2>. DEFINE masters == {given[i] : i \in {j \in Holidays!National : given[j].active}}
                q == [op |-> "import", todo |-> masters, list |-> masters, lost |-> {}]
    <2>1. Holidays!Becomes(r, q) /\ UNCHANGED <<given, unchecked, filled, imported>>
      BY <1>3 DEF Holidays!ImportStart
    <2>2. \A h \in masters : IsHoliday(h)
      BY <1>1, PresentAreHolidays
    <2>. HIDE DEF masters
    <2>3. IsHandling(q) /\ q.op = "import" /\ CopiedOrDue(q, OwnKeys)
      BY <2>2 DEF IsHandling, IsImport, CopiedOrDue
    <2>. HIDE DEF q
    <2>. QED
      BY <1>1, <1>2, <2>1, <2>3
  <1>4. CASE Holidays!ImportFind(r)
    <2>1. PICK h \in handling[r].todo :
            Holidays!Becomes(r,
              IF Holidays!Copied(h) THEN [handling[r] EXCEPT !.todo = handling[r].todo \ {h}]
              ELSE [op |-> "copy", todo |-> handling[r].todo \ {h}, list |-> handling[r].list,
                    lost |-> handling[r].lost, row |-> h])
      BY <1>4 DEF Holidays!ImportFind
    <2>2. UNCHANGED <<given, unchecked, filled, imported>> /\ handling[r].op = "import"
      BY <1>4 DEF Holidays!ImportFind
    <2>3. IsImport(handling[r]) /\ CopiedOrDue(handling[r], OwnKeys)
      BY <1>1, <2>2, HandlingOp
    <2>4. CASE Holidays!Copied(h)
      <3>. DEFINE q == [handling[r] EXCEPT !.todo = handling[r].todo \ {h}]
      <3>1. /\ IsImport(q) /\ q.list = handling[r].list /\ q.lost = handling[r].lost
            /\ q.todo = handling[r].todo \ {h}
        BY <2>3, ImportRest
      <3>2. Holidays!Becomes(r, q)
        BY <2>1, <2>4
      <3>. HIDE DEF q
      <3>3. Holidays!Key(h) \in OwnKeys
        BY <2>4 DEF Holidays!Copied, OwnKeys
      <3>4. CopiedOrDue(q, OwnKeys) /\ IsHandling(q) /\ q.op = "import"
        BY <2>2, <2>3, <3>1, <3>3 DEF CopiedOrDue, IsHandling, IsImport
      <3>. QED
        BY <1>1, <1>2, <2>2, <3>2, <3>4
    <2>5. CASE ~Holidays!Copied(h)
      <3>. DEFINE q == [op |-> "copy", todo |-> handling[r].todo \ {h}, list |-> handling[r].list,
                        lost |-> handling[r].lost, row |-> h]
      <3>1. Holidays!Becomes(r, q)
        BY <2>1, <2>5
      <3>2. \A g \in handling[r].todo : IsHoliday(g)
        BY <2>3 DEF IsImport
      <3>3. IsHandling(q) /\ q.op = "copy"
        BY <3>2 DEF IsHandling, IsCopy
      <3>4. CopiedOrDue(q, OwnKeys)
        BY <2>2, <2>3 DEF CopiedOrDue
      <3>. HIDE DEF q
      <3>. QED
        BY <1>1, <1>2, <2>2, <3>1, <3>3, <3>4
    <2>. QED
      BY <2>4, <2>5
  <1>5. CASE Holidays!ImportFails(r)
    BY <1>1, <1>2, <1>5, IdleOp DEF Holidays!ImportFails
  <1>6. CASE Holidays!ImportEnd(r)
    <2>1. /\ handling[r].op = "import" /\ handling[r].todo = {}
          /\ imported' = imported \cup ({Holidays!Key(h) : h \in handling[r].list} \ handling[r].lost)
          /\ Holidays!Becomes(r, Holidays!Idle) /\ UNCHANGED <<given, unchecked, filled>>
      BY <1>6 DEF Holidays!ImportEnd
    <2>2. imported' \subseteq OwnKeys
      BY <1>1, <2>1 DEF CopiedOrDue
    <2>. QED
      BY <1>2, <2>1, <2>2, IdleOp
  <1>7. CASE Holidays!ImportCopy(r)
    <2>. DEFINE row == [handling[r].row EXCEPT !.own = TRUE]
                q == [op |-> "import", todo |-> handling[r].todo, list |-> handling[r].list,
                      lost |-> handling[r].lost]
    <2>1. /\ Holidays!Insert(row) /\ Holidays!Becomes(r, q)
          /\ imported' = imported /\ Excused' = Excused /\ handling[r].op = "copy"
      BY <1>7 DEF Holidays!ImportCopy, Excused
    <2>2. IsCopy(handling[r]) /\ CopiedOrDue(handling[r], OwnKeys)
      BY <1>1, <2>1, HandlingOp
    <2>3. /\ IsHoliday(row) /\ row.own
          /\ Holidays!Key(row) = Holidays!Key(handling[r].row)
      BY <2>2, CopyIsHoliday DEF IsCopy
    <2>4. IsHandling(q) /\ q.op = "import"
      BY <2>2 DEF IsCopy, IsImport, IsHandling
    <2>5. \A keys : OwnKeys \subseteq keys /\ Holidays!Key(row) \in keys => CopiedOrDue(q, keys)
      BY <2>2, <2>3 DEF CopiedOrDue
    <2>6. /\ handling' = [s \in Handlers |-> handling'[s]] /\ handling'[r] = q
          /\ \A s \in Handlers \ {r} : handling'[s] = handling[s]
      BY <1>1, <2>1, HandlerBecomes
    <2>. HIDE DEF row, q
    <2>7. \A s \in Handlers : IsHandling(handling'[s])
      BY <1>1, <2>4, <2>6 DEF HolidaysShaped
    <2>8. \A s \in Filling' : s \in Filling /\ handling'[s] = handling[s]
      BY <2>4, <2>6 DEF Filling
    <2>9. ASSUME NEW s \in Handlers, handling'[s].op \in {"import", "copy"},
                 NEW keys, OwnKeys \subseteq keys, Holidays!Key(row) \in keys
          PROVE  CopiedOrDue(handling'[s], keys)
      <3>1. CASE s = r
        BY <2>5, <2>6, <2>9, <3>1
      <3>2. CASE s # r
        <4>1. handling'[s] = handling[s]
          BY <2>6, <3>2
        <4>2. CopiedOrDue(handling[s], OwnKeys)
          BY <2>9, <4>1 DEF HolidaysInv
        <4>. QED
          BY <2>9, <4>1, <4>2, CopiedOrDueGrows
      <3>. QED
        BY <3>1, <3>2
    <2>. QED
      BY <2>1, <2>3, <2>6, <2>7, <2>8, <2>9, InsertSteps
  <1>. QED
    BY <1>3, <1>4, <1>5, <1>6, <1>7 DEF Holidays!Import

(* The forms: a row is inserted, and the handlers stay as they are. *)
LEMMA FormSteps ==
  ASSUME HolidaysInv, NEW row, IsHoliday(row), Holidays!Insert(row),
         UNCHANGED <<handling, filled, imported>>, unchecked \subseteq unchecked',
         row.own \/ row.bs \in unchecked'
  PROVE  HolidaysInv'
  <1>1. HolidaysShaped /\ \A r \in Handlers :
          handling[r].op \in {"import", "copy"} => CopiedOrDue(handling[r], OwnKeys)
    BY DEF HolidaysInv
  <1>2. /\ handling' = [s \in Handlers |-> handling'[s]]
        /\ \A s \in Handlers : IsHandling(handling'[s]) /\ handling'[s] = handling[s]
        /\ \A s \in Filling' : s \in Filling /\ handling'[s] = handling[s]
    BY <1>1 DEF HolidaysShaped, Filling
  <1>3. \A s \in Handlers : handling'[s].op \in {"import", "copy"} =>
          \A keys : OwnKeys \subseteq keys /\ (row.own => Holidays!Key(row) \in keys)
            => CopiedOrDue(handling'[s], keys)
    BY <1>1, <1>2, CopiedOrDueGrows
  <1>4. Excused \subseteq Excused' /\ (row.own \/ row.bs \in Excused')
    BY DEF Excused
  <1>. QED
    BY <1>2, <1>3, <1>4, InsertSteps

LEMMA HolidaysInvNext == HolidaysInv /\ [Holidays!Next]_(Holidays!vars) => HolidaysInv'
  <1>. SUFFICES ASSUME HolidaysInv, [Holidays!Next]_(Holidays!vars) PROVE HolidaysInv'
    OBVIOUS
  <1>1. ASSUME NEW r \in Handlers, NEW h \in Entered, NEW type \in Holidays!MasterTypes,
               Holidays!MasterFind(r, h, type)
        PROVE  HolidaysInv'
    <2>. DEFINE row == Holidays!Row(h, FALSE, type)
    <2>1. IsHoliday(row) /\ ~row.own /\ row.bs = h.bs
      BY RowIsHoliday DEF ShownTypes, Holidays!MasterTypes
    <2>2. /\ ~Holidays!Found(h) /\ Holidays!Contests(h)
          /\ Holidays!Becomes(r, [op |-> "national", row |-> row, then |-> Holidays!Idle])
          /\ UNCHANGED <<given, unchecked, imported>>
      BY <1>1 DEF Holidays!MasterFind
    <2>. HIDE DEF row
    <2>. QED
      BY <2>1, <2>2, FindingSteps
  <1>2. ASSUME NEW h \in Entered, NEW type \in HolidayTypes, Holidays!CreateHoliday(h, type)
        PROVE  HolidaysInv'
    <2>. DEFINE row == Holidays!Row(h, TRUE, type)
    <2>1. IsHoliday(row) /\ row.own
      BY RowIsHoliday DEF ShownTypes
    <2>2. Holidays!Insert(row) /\ UNCHANGED <<handling, unchecked, filled, imported>>
      BY <1>2 DEF Holidays!CreateHoliday
    <2>. HIDE DEF row
    <2>. QED
      BY <2>1, <2>2, FormSteps
  <1>3. ASSUME NEW h \in Entered, NEW type \in HolidayTypes, Holidays!CreateAsSuperAdmin(h, type)
        PROVE  HolidaysInv'
    <2>. DEFINE row == Holidays!Row(h, FALSE, type)
    <2>1. IsHoliday(row) /\ row.bs = h.bs
      BY RowIsHoliday DEF ShownTypes
    <2>2. /\ Holidays!Insert(row) /\ UNCHANGED <<handling, filled, imported>>
          /\ unchecked' = unchecked \cup {h.bs}
      BY <1>3 DEF Holidays!CreateAsSuperAdmin
    <2>. HIDE DEF row
    <2>. QED
      BY <2>1, <2>2, FormSteps
  <1>4. CASE UNCHANGED Holidays!vars
    <2>1. UNCHANGED <<given, handling, unchecked, filled, imported>>
      BY <1>4 DEF Holidays!vars
    <2>. QED
      BY <2>1 DEF HolidaysInv, HolidaysShaped, DatesFree, Excused, Filling, OwnKeys,
         Holidays!OneNationalPerDate, Holidays!National, Holidays!Own, Holidays!Present
  <1>. QED
    BY <1>1, <1>2, <1>3, <1>4, SyncSteps, ImportSteps, UpdateHolidaySteps, DeleteHolidaySteps
       DEF Holidays!Next

LEMMA HolidaysTyped == Holidays!Spec => []Holidays!TypeOK
  <1>1. HolidaysInv => Holidays!TypeOK
    <2>. SUFFICES ASSUME HolidaysInv PROVE Holidays!TypeOK
      OBVIOUS
    <2>1. HolidaysShaped
      BY DEF HolidaysInv
    <2>2. \A i \in Holidays!Present : given[i].type \in ShownTypes /\ given[i].active \in BOOLEAN
      BY <2>1, PresentAreHolidays DEF IsHoliday
    <2>3. \A r \in Handlers : handling[r].op \in {"idle", "sync", "national", "import", "copy"}
      BY <2>1, IdleOp DEF HolidaysShaped, IsHandling, IsSync, IsNational, IsImport, IsCopy
    <2>. QED
      BY <2>2, <2>3 DEF Holidays!TypeOK, ShownTypes
  <1>. QED
    BY HolidaysInvInit, HolidaysInvNext, <1>1, PTL DEF Holidays!Spec

(* The holidays by themselves: one to a date, and imports that copy all. *)
THEOREM HolidaysAlwaysKept == Holidays!Spec => []Holidays!HolidaysKept
  <1>1. HolidaysInv => Holidays!HolidaysKept
    BY DEF HolidaysInv, OwnKeys, Holidays!HolidaysKept, Holidays!ImportComplete
  <1>. QED
    BY HolidaysInvInit, HolidaysInvNext, <1>1, PTL DEF Holidays!Spec

(* Wherever synchronisations, imports and forms cut into one another, no   *)
(* date has two national holidays but for what is on record as contested   *)
(* or unchecked, and an import that succeeded has copied every master      *)
(* holiday; for any year, lists, entries and number of handlers.           *)
THEOREM PartsHolidaysKept == PartsSpec => []HolidaysKept
  <1>1. Holidays!HolidaysKept => HolidaysKept
    BY DEF HolidaysKept
  <1>. QED
    BY <1>1, PartsAlone, HolidaysAlwaysKept, PTL

-----------------------------------------------------------------------------
(* The cache of plans. A lookup that nothing has overtaken has read what   *)
(* is still in the database, or what a writer that has committed since is  *)
(* about to invalidate.                                                    *)
OwedFor(o) == \E w \in Writers : <<w, o>> \in owed
LookupsFresh ==
  \A l \in Lookups, p \in Orgs :
    /\ lookup[l] # PlanCache!Idle /\ lookup[l].org = p /\ ~lookup[l].overtaken
    /\ lookup[l].read # PlanCache!Current(p)
    => OwedFor(p)
PlanCacheInv == PlanCache!TypeOK /\ LookupsFresh /\ PlanCache!CacheFresh

LEMMA PlanCacheTypes ==
  ASSUME PlanCache!TypeOK
  PROVE  /\ PlanCache!NoRow \notin PlanCache!Row /\ PlanCache!NoEntry \notin PlanCache!OrgPlan
         /\ \A o \in Orgs : PlanCache!Current(o) \in PlanCache!OrgPlan
         /\ \A l \in Lookups :
              lookup[l] # PlanCache!Idle =>
                /\ lookup[l] \in [op : {"lookup"}, org : Orgs, read : PlanCache!OrgPlan,
                                  overtaken : BOOLEAN]
                /\ lookup[l].org \in Orgs /\ lookup[l].read \in PlanCache!OrgPlan
  <1>1. PlanCache!NoRow \notin PlanCache!Row
    BY PartsAssumption DEF PlanCache!NoRow, PlanCache!Row
  <1>2. PlanCache!NoEntry \notin PlanCache!OrgPlan
    BY PartsAssumption DEF PlanCache!NoEntry, PlanCache!OrgPlan, PlanCache!NoRow
  <1>3. ASSUME NEW o \in Orgs PROVE PlanCache!Current(o) \in PlanCache!OrgPlan
    <2>1. CASE subs[o] = PlanCache!NoRow
      BY <2>1 DEF PlanCache!Current, PlanCache!OrgPlan
    <2>2. CASE subs[o] # PlanCache!NoRow
      <3>1. subs[o] \in PlanCache!Row
        BY <2>2 DEF PlanCache!TypeOK
      <3>2. subs[o].plan \in Plans /\ subs[o].terms \in Terms /\ features[subs[o].plan] \in BOOLEAN
        BY <3>1 DEF PlanCache!Row, PlanCache!TypeOK
      <3>. QED
        BY <2>2, <3>2 DEF PlanCache!Current, PlanCache!OrgPlan
    <2>. QED
      BY <2>1, <2>2
  <1>4. ASSUME NEW l \in Lookups, lookup[l] # PlanCache!Idle
        PROVE  lookup[l] \in [op : {"lookup"}, org : Orgs, read : PlanCache!OrgPlan,
                              overtaken : BOOLEAN]
    BY <1>4 DEF PlanCache!TypeOK, PlanCache!LookupStates
  <1>. QED
    BY <1>1, <1>2, <1>3, <1>4

(* The lookups that an invalidation or an edit overtakes keep what they    *)
(* have read, and say that they are overtaken.                             *)
LEMMA LookupsOvertaken ==
  ASSUME PlanCache!TypeOK, NEW orgs, PlanCache!Overtake(orgs)
  PROVE  /\ lookup' \in [Lookups -> PlanCache!LookupStates]
         /\ \A l \in Lookups :
              lookup'[l] # PlanCache!Idle =>
                /\ lookup[l] # PlanCache!Idle
                /\ lookup'[l].org = lookup[l].org /\ lookup'[l].read = lookup[l].read
                /\ ~lookup'[l].overtaken => ~lookup[l].overtaken /\ lookup[l].org \notin orgs
  <1>1. ASSUME NEW l \in Lookups
        PROVE  /\ lookup'[l] \in PlanCache!LookupStates
               /\ lookup'[l] # PlanCache!Idle =>
                    /\ lookup[l] # PlanCache!Idle
                    /\ lookup'[l].org = lookup[l].org /\ lookup'[l].read = lookup[l].read
                    /\ ~lookup'[l].overtaken => ~lookup[l].overtaken /\ lookup[l].org \notin orgs
    <2>1. CASE lookup[l] # PlanCache!Idle /\ lookup[l].org \in orgs
      <3>1. lookup'[l] = [lookup[l] EXCEPT !.overtaken = TRUE]
        BY <2>1 DEF PlanCache!Overtake
      <3>2. lookup[l] \in [op : {"lookup"}, org : Orgs, read : PlanCache!OrgPlan,
                           overtaken : BOOLEAN]
        BY <2>1, PlanCacheTypes
      <3>3. lookup'[l] \in [op : {"lookup"}, org : Orgs, read : PlanCache!OrgPlan,
                            overtaken : BOOLEAN]
        BY <3>1, <3>2
      <3>. QED
        BY <2>1, <3>1, <3>2, <3>3 DEF PlanCache!LookupStates
    <2>2. CASE ~(lookup[l] # PlanCache!Idle /\ lookup[l].org \in orgs)
      <3>1. lookup'[l] = lookup[l]
        BY <2>2 DEF PlanCache!Overtake
      <3>. QED
        BY <2>2, <3>1 DEF PlanCache!TypeOK
    <2>. QED
      BY <2>1, <2>2
  <1>2. lookup' = [l \in Lookups |-> lookup'[l]]
    BY DEF PlanCache!Overtake
  <1>. QED
    BY <1>1, <1>2

LEMMA PlanCacheInit == PlanCache!Init => PlanCacheInv
  <1>. SUFFICES ASSUME PlanCache!Init PROVE PlanCacheInv
    OBVIOUS
  <1>1. PlanCache!TypeOK
    BY DEF PlanCache!Init, PlanCache!TypeOK, PlanCache!LookupStates
  <1>. QED
    BY <1>1 DEF PlanCacheInv, LookupsFresh, PlanCache!CacheFresh, PlanCache!Init

(* A writer that is done with orgs leaves nothing to be taken away: their  *)
(* lookups are overtaken, and their entries empty or slipped.              *)
LEMMA WriterDone ==
  ASSUME PlanCacheInv, NEW w \in Writers, NEW o \in Orgs,
         owed' = owed \ {<<w, o>>}, UNCHANGED <<subs, features>>, PlanCache!Overtake({o}),
         \/ cache' = [cache EXCEPT ![o] = PlanCache!NoEntry] /\ slipped' = slipped \ {o}
         \/ cache' = cache /\ slipped' = slipped \cup {o}
  PROVE  PlanCacheInv'
  <1>. USE DEF PlanCacheInv
  <1>1. PlanCache!TypeOK'
    BY LookupsOvertaken DEF PlanCache!TypeOK
  <1>2. \A p \in Orgs : PlanCache!Current(p)' = PlanCache!Current(p)
    BY DEF PlanCache!Current
  <1>3. \A p \in Orgs \ {o} : OwedFor(p) => OwedFor(p)'
    BY DEF OwedFor
  <1>4. LookupsFresh'
    <2>. SUFFICES ASSUME NEW l \in Lookups, NEW p \in Orgs, lookup'[l] # PlanCache!Idle,
                         lookup'[l].org = p, ~lookup'[l].overtaken,
                         lookup'[l].read # PlanCache!Current(p)'
                  PROVE  OwedFor(p)'
      BY DEF LookupsFresh
    <2>1. /\ lookup[l] # PlanCache!Idle /\ ~lookup[l].overtaken /\ lookup[l].org # o
          /\ lookup'[l].org = lookup[l].org /\ lookup'[l].read = lookup[l].read
      BY LookupsOvertaken
    <2>2. OwedFor(p)
      BY <1>2, <2>1 DEF LookupsFresh
    <2>. QED
      BY <1>3, <2>1, <2>2
  <1>5. PlanCache!CacheFresh'
    <2>. SUFFICES ASSUME NEW p \in Orgs, cache'[p] # PlanCache!NoEntry,
                         cache'[p] # PlanCache!Current(p)'
                  PROVE  p \in slipped' \/ OwedFor(p)'
      BY DEF PlanCache!CacheFresh, OwedFor
    <2>1. CASE p = o
      BY <2>1 DEF PlanCache!TypeOK
    <2>2. CASE p # o
      <3>1. cache'[p] = cache[p]
        BY <2>2 DEF PlanCache!TypeOK
      <3>2. p \in slipped \/ OwedFor(p)
        BY <1>2, <3>1 DEF PlanCache!CacheFresh, OwedFor
      <3>. QED
        BY <1>3, <2>2, <3>2
    <2>. QED
      BY <2>1, <2>2
  <1>. QED
    BY <1>1, <1>4, <1>5

LEMMA PlanCacheNext == PlanCacheInv /\ [PlanCache!Next]_(PlanCache!vars) => PlanCacheInv'
  <1>. SUFFICES ASSUME PlanCacheInv, [PlanCache!Next]_(PlanCache!vars) PROVE PlanCacheInv'
    OBVIOUS
  <1>. USE DEF PlanCacheInv
  <1>1. ASSUME NEW w \in Writers, NEW o \in Orgs, NEW row \in PlanCache!Row,
               PlanCache!Commit(w, o, row)
        PROVE  PlanCacheInv'
    <2>1. PlanCache!TypeOK'
      BY <1>1 DEF PlanCache!Commit, PlanCache!TypeOK
    <2>2. \A p \in Orgs \ {o} : PlanCache!Current(p)' = PlanCache!Current(p)
      BY <1>1 DEF PlanCache!Commit, PlanCache!Current, PlanCache!TypeOK
    <2>3. OwedFor(o)' /\ \A p \in Orgs : OwedFor(p) => OwedFor(p)'
      BY <1>1 DEF PlanCache!Commit, OwedFor
    <2>4. LookupsFresh'
      <3>. SUFFICES ASSUME NEW l \in Lookups, NEW p \in Orgs, lookup[l] # PlanCache!Idle,
                           lookup[l].org = p, ~lookup[l].overtaken,
                           lookup[l].read # PlanCache!Current(p)'
                    PROVE  OwedFor(p)'
        BY <1>1 DEF PlanCache!Commit, LookupsFresh
      <3>. QED
        BY <2>2, <2>3 DEF LookupsFresh
    <2>5. PlanCache!CacheFresh'
      <3>. SUFFICES ASSUME NEW p \in Orgs, cache[p] # PlanCache!NoEntry,
                           cache[p] # PlanCache!Current(p)'
                    PROVE  p \in slipped \/ OwedFor(p)'
        BY <1>1 DEF PlanCache!Commit, PlanCache!CacheFresh, OwedFor
      <3>. QED
        BY <2>2, <2>3 DEF PlanCache!CacheFresh, OwedFor
    <2>. QED
      BY <2>1, <2>4, <2>5
  <1>2. ASSUME NEW w \in Writers, NEW o \in Orgs,
               PlanCache!InvalidatePlanCache(w, o) \/ PlanCache!CommitUnheard(w, o)
        PROVE  PlanCacheInv'
    BY <1>2, WriterDone
       DEF PlanCache!InvalidatePlanCache, PlanCache!CommitUnheard, PlanCache!Invalidated
  <1>3. ASSUME NEW plan \in Plans, PlanCache!EditPlan(plan) PROVE PlanCacheInv'
    <2>. DEFINE its == {o \in Orgs : subs[o] # PlanCache!NoRow /\ subs[o].plan = plan}
    <2>1. PlanCache!Overtake(its) /\ slipped' = slipped \cup its /\ UNCHANGED <<subs, owed, cache>>
      BY <1>3 DEF PlanCache!EditPlan
    <2>2. \A o \in Orgs \ its : PlanCache!Current(o)' = PlanCache!Current(o)
      <3>. SUFFICES ASSUME NEW o \in Orgs \ its PROVE PlanCache!Current(o)' = PlanCache!Current(o)
        OBVIOUS
      <3>1. CASE subs[o] = PlanCache!NoRow
        BY <2>1, <3>1 DEF PlanCache!Current
      <3>2. CASE subs[o] # PlanCache!NoRow
        <4>1. subs[o].plan # plan
          BY <3>2
        <4>2. features'[subs[o].plan] = features[subs[o].plan]
          BY <1>3, <4>1 DEF PlanCache!EditPlan, PlanCache!TypeOK
        <4>. QED
          BY <2>1, <4>2 DEF PlanCache!Current
      <3>. QED
        BY <3>1, <3>2
    <2>3. PlanCache!TypeOK'
      <3>1. features' \in [Plans -> BOOLEAN]
        BY <1>3 DEF PlanCache!EditPlan, PlanCache!TypeOK
      <3>2. lookup' \in [Lookups -> PlanCache!LookupStates]
        BY <2>1, LookupsOvertaken
      <3>. QED
        BY <2>1, <3>1, <3>2 DEF PlanCache!TypeOK
    <2>. HIDE DEF its
    <2>4. LookupsFresh'
      <3>. SUFFICES ASSUME NEW l \in Lookups, NEW p \in Orgs, lookup'[l] # PlanCache!Idle,
                           lookup'[l].org = p, ~lookup'[l].overtaken,
                           lookup'[l].read # PlanCache!Current(p)'
                    PROVE  OwedFor(p)'
        BY DEF LookupsFresh
      <3>1. /\ lookup[l] # PlanCache!Idle /\ ~lookup[l].overtaken /\ p \notin its
            /\ lookup[l].org = p /\ lookup'[l].read = lookup[l].read
        BY <2>1, LookupsOvertaken
      <3>2. OwedFor(p)
        BY <2>2, <3>1 DEF LookupsFresh
      <3>. QED
        BY <2>1, <3>2 DEF OwedFor
    <2>5. PlanCache!CacheFresh'
      BY <2>1, <2>2 DEF PlanCache!CacheFresh
    <2>. QED
      BY <2>3, <2>4, <2>5
  <1>4. ASSUME NEW l \in Lookups, NEW o \in Orgs, PlanCache!GetOrgPlanRead(l, o)
        PROVE  PlanCacheInv'
    <2>. DEFINE new == [op |-> "lookup", org |-> o, read |-> PlanCache!Current(o),
                        overtaken |-> FALSE]
    <2>1. new \in PlanCache!LookupStates /\ new.org = o /\ new.read = PlanCache!Current(o)
      BY PlanCacheTypes DEF PlanCache!LookupStates
    <2>2. \A k \in Lookups : lookup'[k] = IF k = l THEN new ELSE lookup[k]
      BY <1>4 DEF PlanCache!GetOrgPlanRead, PlanCache!TypeOK
    <2>3. PlanCache!TypeOK'
      BY <1>4, <2>1 DEF PlanCache!GetOrgPlanRead, PlanCache!TypeOK
    <2>. HIDE DEF new
    <2>4. UNCHANGED <<subs, features, owed, cache, slipped>>
      BY <1>4 DEF PlanCache!GetOrgPlanRead
    <2>5. LookupsFresh'
      BY <2>1, <2>2, <2>4 DEF LookupsFresh, OwedFor, PlanCache!Current
    <2>6. PlanCache!CacheFresh'
      BY <2>4 DEF PlanCache!CacheFresh, PlanCache!Current
    <2>. QED
      BY <2>3, <2>5, <2>6
  <1>5. ASSUME NEW l \in Lookups, PlanCache!GetOrgPlanSet(l) PROVE PlanCacheInv'
    <2>1. /\ lookup[l] # PlanCache!Idle
          /\ UNCHANGED <<subs, features, owed>>
          /\ cache' = [cache EXCEPT ![lookup[l].org] = lookup[l].read]
          /\ slipped' = IF lookup[l].overtaken THEN slipped \cup {lookup[l].org}
                        ELSE slipped \ {lookup[l].org}
          /\ lookup' = [lookup EXCEPT ![l] = PlanCache!Idle]
      BY <1>5 DEF PlanCache!GetOrgPlanSet
    <2>2. lookup[l].org \in Orgs /\ lookup[l].read \in PlanCache!OrgPlan
      BY <2>1, PlanCacheTypes
    <2>3. PlanCache!TypeOK'
      BY <2>1, <2>2 DEF PlanCache!TypeOK, PlanCache!LookupStates
    <2>4. LookupsFresh'
      BY <2>1 DEF LookupsFresh, OwedFor, PlanCache!Current, PlanCache!TypeOK
    <2>5. PlanCache!CacheFresh'
      <3>. SUFFICES ASSUME NEW p \in Orgs, cache'[p] # PlanCache!NoEntry,
                           cache'[p] # PlanCache!Current(p)
                    PROVE  p \in slipped' \/ OwedFor(p)
        BY <2>1 DEF PlanCache!CacheFresh, OwedFor, PlanCache!Current
      <3>1. CASE p = lookup[l].org
        <4>1. cache'[p] = lookup[l].read
          BY <2>1, <2>2, <3>1 DEF PlanCache!TypeOK
        <4>. QED
          BY <2>1, <3>1, <4>1 DEF LookupsFresh
      <3>2. CASE p # lookup[l].org
        <4>1. cache'[p] = cache[p]
          BY <2>1, <3>2 DEF PlanCache!TypeOK
        <4>. QED
          BY <2>1, <3>2, <4>1 DEF PlanCache!CacheFresh, OwedFor
      <3>. QED
        BY <3>1, <3>2
    <2>. QED
      BY <2>3, <2>4, <2>5
  <1>6. ASSUME NEW o \in Orgs, PlanCache!CacheExpire(o) PROVE PlanCacheInv'
    <2>1. PlanCache!TypeOK' /\ LookupsFresh'
      BY <1>6 DEF PlanCache!CacheExpire, PlanCache!TypeOK, LookupsFresh, OwedFor,
         PlanCache!Current
    <2>2. PlanCache!CacheFresh'
      BY <1>6 DEF PlanCache!CacheExpire, PlanCache!CacheFresh, PlanCache!Current, PlanCache!TypeOK
    <2>. QED
      BY <2>1, <2>2
  <1>7. ASSUME NEW l \in Lookups, PlanCache!GetOrgPlanFail(l) PROVE PlanCacheInv'
    <2>1. PlanCache!TypeOK' /\ LookupsFresh'
      BY <1>7 DEF PlanCache!GetOrgPlanFail, PlanCache!TypeOK, PlanCache!LookupStates,
         LookupsFresh, OwedFor, PlanCache!Current
    <2>2. PlanCache!CacheFresh'
      BY <1>7 DEF PlanCache!GetOrgPlanFail, PlanCache!CacheFresh, PlanCache!Current
    <2>. QED
      BY <2>1, <2>2
  <1>8. CASE PlanCache!Restart
    <2>1. PlanCache!TypeOK'
      BY <1>8 DEF PlanCache!Restart, PlanCache!TypeOK, PlanCache!LookupStates
    <2>. QED
      BY <1>8, <2>1 DEF PlanCache!Restart, PlanCache!CacheFresh, LookupsFresh
  <1>9. CASE UNCHANGED PlanCache!vars
    BY <1>9 DEF PlanCache!vars, PlanCache!TypeOK, LookupsFresh, OwedFor, PlanCache!Current,
       PlanCache!CacheFresh
  <1>. QED
    BY <1>1, <1>2, <1>3, <1>4, <1>5, <1>6, <1>7, <1>8, <1>9 DEF PlanCache!Next

(* The cache by itself: what it holds is the plan in the database.         *)
THEOREM PlanCacheAlwaysFresh == PlanCache!Spec => []PlanCache!CacheFresh
  <1>1. PlanCacheInv => PlanCache!CacheFresh
    BY DEF PlanCacheInv
  <1>. QED
    BY PlanCacheInit, PlanCacheNext, <1>1, PTL DEF PlanCache!Spec

(* For any number of writers and of lookups, an entry that is not the plan *)
(* in the database is about to be taken away by a writer that has          *)
(* committed, or has slipped past in one of the three ways that CacheFresh *)
(* names.                                                                  *)
THEOREM PartsPlanCacheFresh == PartsSpec => []PlanCacheFresh
  <1>1. PlanCache!CacheFresh => PlanCacheFresh
    BY DEF PlanCacheFresh
  <1>. QED
    BY <1>1, PartsAlone, PlanCacheAlwaysFresh, PTL

-----------------------------------------------------------------------------
(* Whichever part runs is well typed; where a part has a history or a      *)
(* count, with no bound but those that the code sets.                      *)
THEOREM PartsWellTyped == PartsSpec => []PartsTypeOK
  <1>1. Lockout!Spec => []Lockout!TypeOK
    <2>1. LockoutInv => Lockout!TypeOK
      BY DEF LockoutInv, EntriesSound
    <2>2. Lockout!Init => LockoutInv
      BY EntriesSoundInit DEF LockoutInv
    <2>3. LockoutInv /\ [Lockout!Next]_(Lockout!vars) => LockoutInv'
      BY EntriesSoundNext, PromiseKeptNext, OneStoreNext, GuessesBoundedNext DEF LockoutInv
    <2>. QED
      BY <2>1, <2>2, <2>3, PTL DEF Lockout!Spec
  <1>2. QrCodes!Spec => []QrCodes!TypeOK
    <2>1. CodesInv => QrCodes!TypeOK
      BY DEF CodesInv, CodesSound
    <2>2. CodesInv /\ [QrCodes!Next]_(QrCodes!vars) => CodesInv'
      BY CodesSoundNext, ScansCountedNext DEF CodesInv
    <2>. QED
      BY <2>1, <2>2, CodesInvInit, PTL DEF QrCodes!Spec
  <1>3. Documents!Spec => []Documents!TypeOK
    <2>1. DocsInv => Documents!TypeOK
      BY DEF DocsInv
    <2>2. DocsInv /\ [Documents!Next]_(Documents!vars) => DocsInv'
      BY DocsStepsNext, WithinTotalNext DEF DocsInv
    <2>. QED
      BY <2>1, <2>2, DocsInvInit, PTL DEF Documents!Spec
  <1>4. Pricing!Spec => []Pricing!TypeOK
    <2>1. PricingInv => Pricing!TypeOK
      BY DEF PricingInv
    <2>. QED
      BY <2>1, PricingInvInit, PricingInvNext, PTL DEF Pricing!Spec
  <1>5. PlanCache!Spec => []PlanCache!TypeOK
    <2>1. PlanCacheInv => PlanCache!TypeOK
      BY DEF PlanCacheInv
    <2>. QED
      BY <2>1, PlanCacheInit, PlanCacheNext, PTL DEF PlanCache!Spec
  <1>6. /\ TypeOK /\ MembersTypeOK /\ Lockout!TypeOK /\ QrCodes!TypeOK /\ Documents!TypeOK
        /\ Holidays!TypeOK /\ Pricing!TypeOK /\ PlanCache!TypeOK
        => PartsTypeOK
    BY DEF PartsTypeOK
  <1>. QED
    BY <1>1, <1>2, <1>3, <1>4, <1>5, <1>6, PartsAlone, AttendanceTypeOK, MembershipTypeOK,
       HolidaysTyped, PTL

-----------------------------------------------------------------------------
(* The figures of a payslip: what Payslip computes, for every month, every *)
(* setting of the pay and every table of slabs.                            *)

LEMMA MinOfTwo ==
  ASSUME NEW a \in Int, NEW b \in Int
  PROVE  Payslip!Min({a, b}) = IF a <= b THEN a ELSE b
  <1>. DEFINE it == IF a <= b THEN a ELSE b
  <1>1. it \in {a, b} /\ \A y \in {a, b} : it =< y
    OBVIOUS
  <1>2. \A x \in {a, b} : (\A y \in {a, b} : x =< y) => x = it
    OBVIOUS
  <1>. HIDE DEF it
  <1>3. (CHOOSE x \in {a, b} : \A y \in {a, b} : x =< y) = it
    BY <1>1, <1>2
  <1>. QED
    BY <1>3 DEF Payslip!Min, it

LEMMA MaxOfTwo ==
  ASSUME NEW a \in Int, NEW b \in Int
  PROVE  Payslip!Max({a, b}) = IF a >= b THEN a ELSE b
  <1>. DEFINE it == IF a >= b THEN a ELSE b
  <1>1. it \in {a, b} /\ \A y \in {a, b} : it >= y
    OBVIOUS
  <1>2. \A x \in {a, b} : (\A y \in {a, b} : x >= y) => x = it
    OBVIOUS
  <1>. HIDE DEF it
  <1>3. (CHOOSE x \in {a, b} : \A y \in {a, b} : x >= y) = it
    BY <1>1, <1>2
  <1>. QED
    BY <1>3 DEF Payslip!Max, it

LEMMA AtMostIs ==
  ASSUME NEW n \in Int, NEW limit \in Int
  PROVE  Payslip!AtMost(n, limit) = IF n <= limit THEN n ELSE limit
  BY MinOfTwo DEF Payslip!AtMost

LEMMA AtLeastNilIs ==
  ASSUME NEW n \in Int
  PROVE  Payslip!AtLeastNil(n) = IF n >= 0 THEN n ELSE 0
  <1>1. Payslip!Max({0, n}) = IF 0 >= n THEN 0 ELSE n
    BY MaxOfTwo
  <1>. QED
    BY <1>1 DEF Payslip!AtLeastNil

(* What holds at the end of an interval, and before each of its places     *)
(* when it holds there, holds at its start.                                *)
LEMMA DownwardInduction ==
  ASSUME NEW n \in Nat, NEW P, n + 1 \in P, \A k \in 1..n : k + 1 \in P => k \in P
  PROVE  1 \in P
  <1>. DEFINE S == 1..(n + 1)
              Q == {s \in SUBSET S : \A k \in S : s = k..(n + 1) => k \in P}
  <1>1. IsFiniteSet(S)
    BY FS_Interval
  <1>2. ASSUME NEW s \in SUBSET S, \A t \in SUBSET s : t # s => t \in Q
        PROVE  s \in Q
    <2>. SUFFICES ASSUME NEW k \in 1..n, s = k..(n + 1) PROVE k \in P
      OBVIOUS
    <2>. DEFINE t == (k + 1)..(n + 1)
    <2>1. t \in SUBSET s /\ k \notin t /\ k \in s
      OBVIOUS
    <2>2. t \in Q
      BY <1>2, <2>1
    <2>3. k + 1 \in S
      OBVIOUS
    <2>4. k + 1 \in P
      BY <2>2, <2>3
    <2>. QED
      BY <2>4
  <1>3. Q \in SUBSET (SUBSET S)
    OBVIOUS
  <1>. HIDE DEF Q
  <1>4. Q = SUBSET S
    BY <1>1, <1>2, <1>3, SubsetInduction
  <1>5. 1..(n + 1) \in Q /\ 1 \in 1..(n + 1)
    BY <1>4
  <1>. QED
    BY <1>5 DEF Q

-----------------------------------------------------------------------------
(* The tax. At slab i, what remains is taxed by the slab, and what it      *)
(* leaves by those behind it.                                              *)
TaxableAt(slabs, i, remaining) ==
  IF i > 1 /\ Payslip!NoLimit(slabs[i]) THEN remaining
  ELSE Payslip!AtMost(remaining, slabs[i].limit)

TaxRow(f, slabs, i) == [remaining \in Int |->
  IF i > Len(slabs) \/ remaining <= 0 THEN 0
  ELSE TaxableAt(slabs, i, remaining) * slabs[i].rate
       + f[i + 1][remaining - TaxableAt(slabs, i, remaining)]]

TaxFrom(f, slabs, k) == f = [i \in k..(Len(slabs) + 1) |-> TaxRow(f, slabs, i)]

LEMMA TaxTabled ==
  ASSUME NEW slabs \in Seq(Slab)
  PROVE  \E f : TaxFrom(f, slabs, 1)
  <1>. DEFINE n == Len(slabs)
              P == {k \in 1..(n + 1) : \E f : TaxFrom(f, slabs, k)}
  <1>1. n \in Nat
    BY LenProperties
  <1>2. n + 1 \in P
    <2>. DEFINE f == [i \in (n + 1)..(n + 1) |-> [remaining \in Int |-> 0]]
    <2>1. f = [i \in (n + 1)..(n + 1) |-> TaxRow(f, slabs, i)]
      BY <1>1 DEF TaxRow
    <2>. QED
      BY <1>1, <2>1 DEF TaxFrom
  <1>3. ASSUME NEW k \in 1..n, k + 1 \in P PROVE k \in P
    <2>1. PICK g : TaxFrom(g, slabs, k + 1)
      BY <1>3
    <2>. DEFINE f == [i \in k..(n + 1) |-> IF i = k THEN TaxRow(g, slabs, k) ELSE g[i]]
    <2>2. ASSUME NEW i \in k..(n + 1) PROVE f[i] = TaxRow(f, slabs, i)
      <3>1. i + 1 \in (k + 1)..(n + 1) => f[i + 1] = g[i + 1]
        BY <1>1
      <3>2. TaxRow(f, slabs, i) = TaxRow(g, slabs, i)
        <4>1. CASE i = n + 1
          BY <1>1, <4>1 DEF TaxRow
        <4>2. CASE i # n + 1
          <5>1. f[i + 1] = g[i + 1]
            BY <1>1, <3>1, <4>2
          <5>. HIDE DEF f
          <5>. QED
            BY <5>1 DEF TaxRow
        <4>. QED
          BY <4>1, <4>2
      <3>3. i # k => g[i] = TaxRow(g, slabs, i)
        <4>. SUFFICES ASSUME i # k PROVE g[i] = TaxRow(g, slabs, i)
          OBVIOUS
        <4>1. i \in (k + 1)..(n + 1)
          BY <1>1
        <4>. QED
          BY <2>1, <4>1, Zenon DEF TaxFrom
      <3>4. f[i] = IF i = k THEN TaxRow(g, slabs, k) ELSE g[i]
        OBVIOUS
      <3>. QED
        BY <3>2, <3>3, <3>4
    <2>3. f = [i \in k..(n + 1) |-> TaxRow(f, slabs, i)]
      <3>1. f = [i \in k..(n + 1) |-> f[i]]
        OBVIOUS
      <3>. HIDE DEF f
      <3>. QED
        BY <2>2, <3>1, Zenon
    <2>4. \E h : TaxFrom(h, slabs, k)
      BY <2>3 DEF TaxFrom
    <2>. QED
      BY <1>1, <2>4
  <1>. HIDE DEF P, n
  <1>4. 1 \in P
    BY <1>1, <1>2, <1>3, DownwardInduction
  <1>. QED
    BY <1>4 DEF P, n

(* What comes of a function at each slab: no tax on nothing, and on more   *)
(* between nothing more and the highest rate of it.                        *)
Marginal(t, rate) ==
  /\ \A x \in Int : t[x] \in Nat /\ (x <= 0 => t[x] = 0)
  /\ \A x, y \in Int : x <= y => t[x] <= t[y] /\ t[y] - t[x] <= rate * (y - x)

(* A share of the income, which grows with it as the rest does.            *)
IsShare(share) ==
  /\ \A x \in Int : x > 0 => share[x] \in Nat /\ share[x] <= x
  /\ \A x, y \in Int : 0 < x /\ x <= y => share[x] <= share[y] /\ x - share[x] <= y - share[y]

(* The tax of a share at a rate, and of the rest as u has it.              *)
SharesTax(t, share, rate, u) ==
  \A x \in Int : t[x] = IF x <= 0 THEN 0 ELSE share[x] * rate + u[x - share[x]]

LEMMA Products ==
  /\ \A a, b \in Int, c \in Nat : a <= b => a * c <= b * c
  /\ \A a, b \in Nat : a * b \in Nat
  /\ \A a, b, c \in Int : c * (a - b) = c * a - c * b /\ (a - b) * c = a * c - b * c
  /\ \A a, b, c \in Int : c * (a + b) = c * a + c * b
  <1>1. \A a, b \in Int, c \in Nat : a <= b => a * c <= b * c
    OBVIOUS
  <1>2. \A a, b \in Nat : a * b \in Nat
    OBVIOUS
  <1>3. ASSUME NEW a \in Int, NEW b \in Int, NEW c \in Int
        PROVE  c * (a - b) = c * a - c * b /\ (a - b) * c = a * c - b * c
    <2>1. c * (a - b) = c * a - c * b
      OBVIOUS
    <2>2. (a - b) * c = a * c - b * c
      OBVIOUS
    <2>. QED
      BY <2>1, <2>2
  <1>4. \A a, b, c \in Int : c * (a + b) = c * a + c * b
    OBVIOUS
  <1>. QED
    BY <1>1, <1>2, <1>3, <1>4

LEMMA TaxableIs ==
  ASSUME NEW slabs \in Seq(Slab), NEW i \in 1..Len(slabs)
  PROVE  /\ \A x \in Int : x > 0 =>
              TaxableAt(slabs, i, x) \in Nat /\ TaxableAt(slabs, i, x) <= x
         /\ \A x, y \in Int : 0 < x /\ x <= y =>
              /\ TaxableAt(slabs, i, x) <= TaxableAt(slabs, i, y)
              /\ x - TaxableAt(slabs, i, x) <= y - TaxableAt(slabs, i, y)
  <1>1. slabs[i].limit \in Nat
    <2>1. slabs[i] \in Slab
      BY ElementOfSeq
    <2>. QED
      BY <2>1 DEF Slab
  <1>. DEFINE l == slabs[i].limit
  <1>2. \/ \A x \in Int : TaxableAt(slabs, i, x) = x
        \/ \A x \in Int : TaxableAt(slabs, i, x) = IF x <= l THEN x ELSE l
    BY <1>1, AtMostIs DEF TaxableAt
  <1>3. l \in Nat
    BY <1>1
  <1>. HIDE DEF l
  <1>. QED
    BY <1>2, <1>3

LEMMA SlabMarginal ==
  ASSUME NEW rate \in Nat, NEW highest \in Nat, rate <= highest,
         NEW u, Marginal(u, highest),
         NEW share, IsShare(share), NEW t, SharesTax(t, share, rate, u)
  PROVE  Marginal(t, highest)
  <1>. USE DEF IsShare, SharesTax
  <1>1. ASSUME NEW x \in Int PROVE t[x] \in Nat /\ (x <= 0 => t[x] = 0)
    <2>1. CASE x <= 0
      BY <2>1
    <2>2. CASE x > 0
      <3>1. share[x] \in Nat /\ x - share[x] \in Int
        BY <2>2
      <3>2. share[x] * rate \in Nat /\ u[x - share[x]] \in Nat
        BY <3>1, Products DEF Marginal
      <3>. QED
        BY <2>2, <3>2
    <2>. QED
      BY <2>1, <2>2
  <1>2. ASSUME NEW x \in Int, x > 0 PROVE t[x] <= highest * x
    <2>1. share[x] \in Nat /\ share[x] <= x
      BY <1>2
    <2>. DEFINE p == share[x]
                r == x - share[x]
    <2>2. p \in Nat /\ r \in Nat /\ p + r = x
      BY <2>1
    <2>3. t[x] = p * rate + u[r]
      BY <1>2
    <2>. HIDE DEF p, r
    <2>4. u[r] \in Nat /\ u[0] = 0 /\ u[r] - u[0] <= highest * (r - 0)
      BY <2>2 DEF Marginal
    <2>5. p * rate <= p * highest
      <3>1. rate * p <= highest * p
        BY <2>2, Products
      <3>2. rate * p = p * rate /\ highest * p = p * highest
        BY <2>2
      <3>. QED
        BY <3>1, <3>2
    <2>6. highest * x = highest * p + highest * r
      BY <2>2, Products
    <2>7. u[r] <= highest * r
      BY <2>2, <2>4
    <2>8. p * rate \in Int /\ p * highest \in Int /\ highest * r \in Int /\ p * highest = highest * p
      BY <2>2
    <2>. QED
      BY <2>3, <2>4, <2>5, <2>6, <2>7, <2>8
  <1>3. ASSUME NEW x \in Int, NEW y \in Int, x <= y
        PROVE  t[x] <= t[y] /\ t[y] - t[x] <= highest * (y - x)
    <2>1. CASE y <= 0
      <3>1. t[x] = 0 /\ t[y] = 0 /\ highest * (y - x) \in Nat
        BY <1>1, <1>3, <2>1, Products
      <3>. QED
        BY <3>1
    <2>2. CASE x <= 0 /\ y > 0
      <3>1. t[x] = 0 /\ t[y] \in Nat /\ t[y] <= highest * y
        BY <1>1, <1>2, <2>2
      <3>2. highest * (y - x) = highest * y - highest * x /\ highest * y \in Int /\ highest * x \in Int
        BY Products
      <3>3. highest * x <= 0
        <4>1. x <= 0
          BY <2>2
        <4>2. x * highest <= 0 * highest
          BY <4>1, Products
        <4>3. x * highest = highest * x
          OBVIOUS
        <4>4. 0 * highest = 0
          OBVIOUS
        <4>. QED
          BY <4>2, <4>3, <4>4
      <3>. DEFINE hx == highest * x
                  hy == highest * y
      <3>4. hx \in Int /\ hy \in Int /\ hx <= 0 /\ t[y] <= hy /\ highest * (y - x) = hy - hx
        BY <3>1, <3>2, <3>3
      <3>. HIDE DEF hx, hy
      <3>. QED
        BY <3>1, <3>4
    <2>3. CASE x > 0
      <3>. DEFINE p == share[x]
                  q == share[y]
                  r == x - p
                  s == y - q
      <3>1. /\ p \in Nat /\ q \in Nat /\ r \in Int /\ s \in Int /\ p <= q /\ r <= s
            /\ q - p + (s - r) = y - x
        BY <1>3, <2>3
      <3>2. t[x] = p * rate + u[r] /\ t[y] = q * rate + u[s]
        BY <1>3, <2>3
      <3>. HIDE DEF p, q, r, s
      <3>3. u[r] \in Nat /\ u[s] \in Nat /\ u[r] <= u[s] /\ u[s] - u[r] <= highest * (s - r)
        BY <3>1 DEF Marginal
      <3>4. /\ p * rate <= q * rate /\ q * rate - p * rate = (q - p) * rate
            /\ (q - p) * rate <= (q - p) * highest
        <4>1. p * rate <= q * rate
          BY <3>1, Products
        <4>2. q * rate - p * rate = (q - p) * rate
          BY <3>1, Products
        <4>3. (q - p) * rate <= (q - p) * highest
          <5>. DEFINE d == q - p
          <5>1. d \in Nat
            BY <3>1
          <5>. HIDE DEF d
          <5>2. rate * d <= highest * d
            BY <5>1, Products
          <5>3. rate * d = d * rate /\ highest * d = d * highest
            BY <5>1
          <5>4. d * rate <= d * highest
            BY <5>2, <5>3
          <5>. QED
            BY <5>4 DEF d
        <4>. QED
          BY <4>1, <4>2, <4>3
      <3>5. highest * (y - x) = highest * (q - p) + highest * (s - r)
        BY <3>1, Products
      <3>6. /\ p * rate \in Int /\ q * rate \in Int /\ (q - p) * rate \in Int
            /\ highest * (q - p) \in Int /\ highest * (s - r) \in Int
            /\ (q - p) * highest = highest * (q - p)
        BY <3>1
      <3>. QED
        BY <3>2, <3>3, <3>4, <3>5, <3>6
    <2>. QED
      BY <1>3, <2>1, <2>2, <2>3
  <1>. QED
    BY <1>1, <1>3 DEF Marginal

LEMMA TaxMarginalThrough ==
  ASSUME NEW slabs \in Seq(Slab), NEW highest \in Nat,
         \A i \in 1..Len(slabs) : slabs[i].rate <= highest
  PROVE  \E t : Marginal(t, highest) /\ \A income \in Int : Payslip!TaxThrough(slabs, income) = t[income]
  <1>. DEFINE n == Len(slabs)
              f == CHOOSE f : TaxFrom(f, slabs, 1)
              P == {k \in 1..(n + 1) : Marginal(f[k], highest)}
  <1>1. n \in Nat
    BY LenProperties
  <1>2. TaxFrom(f, slabs, 1)
    BY TaxTabled
  <1>3. \A income \in Int : Payslip!TaxThrough(slabs, income) = f[1][income]
    BY DEF Payslip!TaxThrough, TaxFrom, TaxRow, TaxableAt
  <1>. HIDE DEF f
  <1>4. ASSUME NEW k \in 1..(n + 1), NEW x \in Int
        PROVE  f[k][x] = IF k > n \/ x <= 0 THEN 0
                         ELSE TaxableAt(slabs, k, x) * slabs[k].rate + f[k + 1][x - TaxableAt(slabs, k, x)]
    <2>1. f[k] = TaxRow(f, slabs, k)
      BY <1>2, Zenon DEF TaxFrom
    <2>2. TaxRow(f, slabs, k)[x] = IF k > n \/ x <= 0 THEN 0
                         ELSE TaxableAt(slabs, k, x) * slabs[k].rate + f[k + 1][x - TaxableAt(slabs, k, x)]
      BY Zenon DEF TaxRow
    <2>. QED
      BY <2>1, <2>2, Zenon
  <1>. HIDE DEF n
  <1>5. n + 1 \in P
    <2>1. n + 1 \in 1..(n + 1) /\ n + 1 > n
      BY <1>1
    <2>2. \A x \in Int : f[n + 1][x] = 0
      BY <1>4, <2>1
    <2>3. \A x, y \in Int : x <= y => highest * (y - x) \in Nat
      BY Products
    <2>4. Marginal(f[n + 1], highest)
      BY <2>2, <2>3 DEF Marginal
    <2>. QED
      BY <2>1, <2>4
  <1>6. ASSUME NEW k \in 1..n, k + 1 \in P PROVE k \in P
    <2>. DEFINE share == [x \in Int |-> TaxableAt(slabs, k, x)]
    <2>1. slabs[k].rate \in Nat /\ slabs[k].rate <= highest
      <3>1. slabs[k] \in Slab
        BY ElementOfSeq DEF n
      <3>. QED
        BY <3>1 DEF Slab, n
    <2>2. k \in 1..(n + 1) /\ ~(k > n)
      BY <1>1
    <2>3. SharesTax(f[k], share, slabs[k].rate, f[k + 1])
      BY <1>4, <2>2, Zenon DEF SharesTax
    <2>4. IsShare(share)
      <3>1. \A x \in Int : share[x] = TaxableAt(slabs, k, x)
        OBVIOUS
      <3>2. k \in 1..Len(slabs)
        BY DEF n
      <3>. HIDE DEF share
      <3>3. \A x \in Int : x > 0 => share[x] \in Nat /\ share[x] <= x
        BY <3>1, <3>2, TaxableIs
      <3>4. ASSUME NEW x \in Int, NEW y \in Int, 0 < x, x <= y
            PROVE  share[x] <= share[y] /\ x - share[x] <= y - share[y]
        <4>1. /\ TaxableAt(slabs, k, x) <= TaxableAt(slabs, k, y)
              /\ x - TaxableAt(slabs, k, x) <= y - TaxableAt(slabs, k, y)
          BY <3>2, <3>4, TaxableIs
        <4>. QED
          BY <3>1, <4>1
      <3>. QED
        BY <3>3, <3>4 DEF IsShare
    <2>5. Marginal(f[k + 1], highest)
      BY <1>6
    <2>. HIDE DEF share
    <2>6. Marginal(f[k], highest)
      BY <2>1, <2>3, <2>4, <2>5, SlabMarginal, Zenon
    <2>. QED
      BY <2>2, <2>6
  <1>. HIDE DEF P
  <1>7. 1 \in P
    BY <1>1, <1>5, <1>6, DownwardInduction
  <1>8. Marginal(f[1], highest)
    BY <1>7 DEF P
  <1>. QED
    BY <1>3, <1>8
-----------------------------------------------------------------------------
(* The values of a function over a finite set are no more than its places. *)
LEMMA ImageFinite ==
  ASSUME NEW S, IsFiniteSet(S), NEW f
  PROVE  /\ IsFiniteSet({f[x] : x \in S}) /\ Cardinality({f[x] : x \in S}) \in Nat
         /\ Cardinality({f[x] : x \in S}) <= Cardinality(S)
  <1>. DEFINE T == {f[x] : x \in S}
              g == [x \in S |-> f[x]]
  <1>1. g \in Surjection(S, T)
    <2>1. g \in [S -> T] /\ \A t \in T : \E x \in S : g[x] = t
      OBVIOUS
    <2>. QED
      BY <2>1 DEF Surjection
  <1>. HIDE DEF T, g
  <1>2. IsFiniteSet(T) /\ Cardinality(T) <= Cardinality(S)
    BY <1>1, FS_Surjection
  <1>3. Cardinality(T) \in Nat
    BY <1>2, FS_CardinalityType
  <1>. QED
    BY <1>2, <1>3 DEF T

(* A finite set of numbers with an element has a greatest.                 *)
LEMMA MaxExists ==
  ASSUME NEW S \in SUBSET Int, IsFiniteSet(S), S # {}
  PROVE  Payslip!Max(S) \in S /\ \A x \in S : x <= Payslip!Max(S)
  <1>. DEFINE P == {s \in SUBSET S : s # {} => \E x \in s : \A y \in s : x >= y}
  <1>1. ASSUME NEW s \in SUBSET S, \A t \in SUBSET s : t # s => t \in P
        PROVE  s \in P
    <2>. SUFFICES ASSUME s # {} PROVE \E x \in s : \A y \in s : x >= y
      OBVIOUS
    <2>1. PICK z \in s : TRUE
      OBVIOUS
    <2>2. s \ {z} \in P
      BY <1>1, <2>1
    <2>3. CASE s \ {z} = {}
      <3>1. \A y \in s : z >= y
        BY <2>3
      <3>. QED
        BY <3>1
    <2>4. CASE s \ {z} # {}
      <3>1. PICK x \in s \ {z} : \A y \in s \ {z} : x >= y
        BY <2>2, <2>4
      <3>2. CASE x >= z
        <4>1. \A y \in s : x >= y
          BY <3>1, <3>2
        <4>. QED
          BY <4>1
      <3>3. CASE ~(x >= z)
        <4>1. \A y \in s : z >= y
          BY <3>1, <3>3
        <4>. QED
          BY <4>1
      <3>. QED
        BY <3>2, <3>3
    <2>. QED
      BY <2>3, <2>4
  <1>. HIDE DEF P
  <1>2. P = SUBSET S
    <2>1. P \in SUBSET (SUBSET S)
      BY DEF P
    <2>. QED
      BY <1>1, <2>1, SubsetInduction
  <1>3. \E x \in S : \A y \in S : x >= y
    BY <1>2 DEF P
  <1>4. Payslip!Max(S) \in S /\ \A y \in S : Payslip!Max(S) >= y
    BY <1>3 DEF Payslip!Max
  <1>. QED
    BY <1>4

(* Taxes of a year that lie close are close as rounded rupees of a month.  *)
LEMMA RoundedYear ==
  ASSUME NEW a \in Nat, NEW b \in Nat, NEW d \in Nat, a <= b, b - a <= 12 * d
  PROVE  /\ Payslip!Round(a, 120000) \in Nat /\ Payslip!Round(b, 120000) \in Nat
         /\ Payslip!Round(a, 120000) <= Payslip!Round(b, 120000)
         /\ 100 * (Payslip!Round(b, 120000) * 100 - Payslip!Round(a, 120000) * 100) < d + 10000
  <1>. DEFINE p == (a + 60000) \div 120000
              q == (b + 60000) \div 120000
  <1>1. /\ p \in Int /\ p * 120000 <= a + 60000 /\ a + 60000 < p * 120000 + 120000
        /\ q \in Int /\ q * 120000 <= b + 60000 /\ b + 60000 < q * 120000 + 120000
    OBVIOUS
  <1>2. Payslip!Round(a, 120000) = p /\ Payslip!Round(b, 120000) = q
    BY DEF Payslip!Round
  <1>. HIDE DEF p, q
  <1>3. p >= 0 /\ p <= q
    BY <1>1
  <1>4. 100 * (q * 100 - p * 100) < d + 10000
    BY <1>1
  <1>. QED
    BY <1>1, <1>2, <1>3, <1>4

LEMMA SlabsAre ==
  ASSUME IsTaxTable(TaxTable), NEW married \in BOOLEAN, NEW ssf \in BOOLEAN
  PROVE  /\ Payslip!Slabs(married, ssf) \in Seq(Slab)
         /\ Len(Payslip!Slabs(married, ssf)) = Len(TaxTable.slabs) + 1
  <1>. DEFINE first == [limit |-> IF married THEN TaxTable.married ELSE TaxTable.unmarried,
                        rate |-> IF ssf THEN 0 ELSE TaxTable.rate]
  <1>1. first \in Slab /\ TaxTable.slabs \in Seq(Slab)
    BY DEF IsTaxTable, Slab
  <1>2. Payslip!Slabs(married, ssf) = <<first>> \o TaxTable.slabs
    BY DEF Payslip!Slabs
  <1>. HIDE DEF first
  <1>3. <<first>> \in Seq(Slab) /\ Len(<<first>>) = 1
    BY <1>1
  <1>4. Len(TaxTable.slabs) \in Nat
    BY <1>1, LenProperties
  <1>. QED
    BY <1>1, <1>2, <1>3, <1>4, ConcatProperties

HighestRate(slabs) == Payslip!Max({slabs[i].rate : i \in 1..Len(slabs)})

LEMMA HighestRateIs ==
  ASSUME NEW slabs \in Seq(Slab), Len(slabs) > 0
  PROVE  /\ HighestRate(slabs) \in Nat /\ \A i \in 1..Len(slabs) : slabs[i].rate <= HighestRate(slabs)
         /\ \E i \in 1..Len(slabs) : slabs[i].rate = HighestRate(slabs)
  <1>. DEFINE S == {slabs[i].rate : i \in 1..Len(slabs)}
  <1>1. Len(slabs) \in Nat
    BY LenProperties
  <1>2. \A i \in 1..Len(slabs) : slabs[i].rate \in Nat
    <2>1. \A i \in 1..Len(slabs) : slabs[i] \in Slab
      BY ElementOfSeq
    <2>. QED
      BY <2>1 DEF Slab
  <1>3. IsFiniteSet(S)
    <2>1. IsFiniteSet(1..Len(slabs))
      BY <1>1, FS_Interval
    <2>. DEFINE f == [i \in 1..Len(slabs) |-> slabs[i].rate]
    <2>2. S = {f[i] : i \in 1..Len(slabs)}
      OBVIOUS
    <2>3. IsFiniteSet({f[i] : i \in 1..Len(slabs)})
      <3>. HIDE DEF f
      <3>. QED
        BY <2>1, ImageFinite
    <2>. QED
      BY <2>2, <2>3
  <1>4. S # {} /\ S \in SUBSET Int /\ S \in SUBSET Nat
    BY <1>1, <1>2
  <1>5. Payslip!Max(S) \in S /\ \A x \in S : x <= Payslip!Max(S)
    <2>. HIDE DEF S
    <2>. QED
      BY <1>3, <1>4, MaxExists
  <1>. QED
    BY <1>4, <1>5 DEF HighestRate
(* The taxes of two incomes of a month are no further apart than these.    *)
TaxesClose(x, y, married, ssf) ==
  LET before == Payslip!Tds(12 * x, married, ssf)
      after == Payslip!Tds(12 * y, married, ssf)
  IN /\ before \in Nat /\ after \in Nat /\ before <= after
     /\ 100 * (after - before) < HighestRate(Payslip!Slabs(married, ssf)) * (y - x) + 10000

LEMMA TdsMarginal ==
  ASSUME IsTaxTable(TaxTable), NEW married \in BOOLEAN, NEW ssf \in BOOLEAN,
         NEW x \in Int, NEW y \in Int, x <= y
  PROVE  TaxesClose(x, y, married, ssf)
  <1>. DEFINE slabs == Payslip!Slabs(married, ssf)
              h == HighestRate(slabs)
  <1>1. slabs \in Seq(Slab) /\ Len(slabs) > 0
    <2>1. Len(TaxTable.slabs) \in Nat
      BY LenProperties DEF IsTaxTable
    <2>. QED
      BY <2>1, SlabsAre
  <1>2. \A n \in Int : Payslip!Tds(n, married, ssf)
                       = Payslip!Round(Payslip!TaxThrough(slabs, n), 120000) * 100
    BY DEF Payslip!Tds, Payslip!Rupee
  <1>. HIDE DEF slabs
  <1>3. h \in Nat /\ \A i \in 1..Len(slabs) : slabs[i].rate <= h
    BY <1>1, HighestRateIs
  <1>. HIDE DEF h
  <1>4. PICK t : Marginal(t, h) /\ \A n \in Int : Payslip!TaxThrough(slabs, n) = t[n]
    BY <1>1, <1>3, TaxMarginalThrough
  <1>. DEFINE a == t[12 * x]
              b == t[12 * y]
  <1>5. a \in Nat /\ b \in Nat /\ a <= b /\ b - a <= h * (12 * y - 12 * x)
    <2>1. 12 * x \in Int /\ 12 * y \in Int /\ 12 * x <= 12 * y
      OBVIOUS
    <2>. QED
      BY <1>4, <2>1 DEF Marginal
  <1>. DEFINE d == h * (y - x)
  <1>6. d \in Nat /\ b - a <= 12 * d
    <2>1. y - x \in Nat
      OBVIOUS
    <2>2. d \in Nat
      BY <1>3, <2>1, Products
    <2>3. h * (12 * y - 12 * x) = 12 * d
      BY <1>3
    <2>. QED
      BY <1>5, <2>2, <2>3
  <1>7. /\ Payslip!Tds(12 * x, married, ssf) = Payslip!Round(a, 120000) * 100
        /\ Payslip!Tds(12 * y, married, ssf) = Payslip!Round(b, 120000) * 100
    BY <1>2, <1>4
  <1>. HIDE DEF a, b, d
  <1>8. /\ Payslip!Round(a, 120000) \in Nat /\ Payslip!Round(b, 120000) \in Nat
        /\ Payslip!Round(a, 120000) <= Payslip!Round(b, 120000)
        /\ 100 * (Payslip!Round(b, 120000) * 100 - Payslip!Round(a, 120000) * 100) < d + 10000
    BY <1>5, <1>6, RoundedYear
  <1>9. /\ Payslip!Tds(12 * x, married, ssf) \in Nat /\ Payslip!Tds(12 * y, married, ssf) \in Nat
        /\ Payslip!Tds(12 * x, married, ssf) <= Payslip!Tds(12 * y, married, ssf)
        /\ 100 * (Payslip!Tds(12 * y, married, ssf) - Payslip!Tds(12 * x, married, ssf)) < d + 10000
    BY <1>7, <1>8
  <1>. QED
    BY <1>9 DEF TaxesClose, d, h, slabs
-----------------------------------------------------------------------------
(* The sums of a month.                                                    *)
OvertimeTable(S) == CHOOSE it : it = [s \in SUBSET S |->
  IF s = {} THEN 0 ELSE Payslip!OvertimeOf(Pick(s)) + it[s \ {Pick(s)}]]
OvertimeIn(S) == [r \in S |-> Payslip!OvertimeOf(r)]

LeaveTable(S) == CHOOSE it : it = [s \in SUBSET S |->
  IF s = {} THEN 0 ELSE Payslip!LeaveDays(Pick(s)) + it[s \ {Pick(s)}]]
LeaveDaysIn(S) == [l \in S |-> Payslip!LeaveDays(l)]
Paid(leaves) == {l \in leaves : l.type # "UNPAID"}

LEMMA OvertimeSummed ==
  ASSUME NEW S, IsFiniteSet(S)
  PROVE  /\ SumsTo(OvertimeTable(S), OvertimeIn(S), S)
         /\ Payslip!OvertimeHours(S) = Payslip!Round(100 * OvertimeTable(S)[S], 60)
  <1>. DEFINE Eq(it) == it = [s \in SUBSET S |->
                IF s = {} THEN 0 ELSE Payslip!OvertimeOf(Pick(s)) + it[s \ {Pick(s)}]]
  <1>1. \A s \in SUBSET S : s # {} => OvertimeIn(S)[Pick(s)] = Payslip!OvertimeOf(Pick(s))
    BY PickIn DEF OvertimeIn
  <1>2. ASSUME NEW it PROVE Eq(it) <=> SumsTo(it, OvertimeIn(S), S)
    BY <1>1 DEF SumsTo
  <1>3. \E it : SumsTo(it, OvertimeIn(S), S)
    BY SumExists
  <1>4. \E it : Eq(it)
    BY <1>2, <1>3
  <1>5. OvertimeTable(S) = CHOOSE it : Eq(it)
    BY DEF OvertimeTable
  <1>6. Payslip!OvertimeHours(S) = Payslip!Round(100 * OvertimeTable(S)[S], 60)
    BY DEF Payslip!OvertimeHours, Payslip!MapThenSumSet, Payslip!MapThenFoldSet, Pick, OvertimeTable
  <1>. HIDE DEF Eq
  <1>7. Eq(CHOOSE it : Eq(it))
    BY <1>4
  <1>. QED
    BY <1>2, <1>5, <1>6, <1>7

LEMMA LeavesSummed ==
  ASSUME NEW leaves, IsFiniteSet(leaves)
  PROVE  /\ IsFiniteSet(Paid(leaves))
         /\ SumsTo(LeaveTable(Paid(leaves)), LeaveDaysIn(Paid(leaves)), Paid(leaves))
         /\ Payslip!PaidLeaveDays(leaves) = LeaveTable(Paid(leaves))[Paid(leaves)]
  <1>. DEFINE S == Paid(leaves)
              Eq(it) == it = [s \in SUBSET S |->
                IF s = {} THEN 0 ELSE Payslip!LeaveDays(Pick(s)) + it[s \ {Pick(s)}]]
  <1>0. IsFiniteSet(S)
    BY FS_Subset DEF Paid
  <1>6. Payslip!PaidLeaveDays(leaves) = LeaveTable(S)[S]
    BY DEF Payslip!PaidLeaveDays, Payslip!MapThenSumSet, Payslip!MapThenFoldSet, Pick, LeaveTable, Paid
  <1>. HIDE DEF S
  <1>1. \A s \in SUBSET S : s # {} => LeaveDaysIn(S)[Pick(s)] = Payslip!LeaveDays(Pick(s))
    BY PickIn DEF LeaveDaysIn
  <1>2. ASSUME NEW it PROVE Eq(it) <=> SumsTo(it, LeaveDaysIn(S), S)
    BY <1>1 DEF SumsTo
  <1>3. \E it : SumsTo(it, LeaveDaysIn(S), S)
    BY <1>0, SumExists
  <1>4. \E it : Eq(it)
    BY <1>2, <1>3
  <1>5. LeaveTable(S) = CHOOSE it : Eq(it)
    BY DEF LeaveTable
  <1>. HIDE DEF Eq
  <1>7. Eq(CHOOSE it : Eq(it))
    BY <1>4
  <1>8. SumsTo(LeaveTable(S), LeaveDaysIn(S), S)
    BY <1>2, <1>5, <1>7
  <1>. QED
    BY <1>0, <1>6, <1>8 DEF S

(* A sum of values that are not negative is none.                          *)
LEMMA SumNat ==
  ASSUME NEW S, IsFiniteSet(S), NEW g \in [S -> Nat], NEW it, SumsTo(it, g, S)
  PROVE  it[S] \in Nat
  <1>. DEFINE P == {s \in SUBSET S : it[s] \in Nat}
  <1>1. ASSUME NEW s \in SUBSET S, \A t \in SUBSET s : t # s => t \in P
        PROVE  s \in P
    <2>1. it[s] = IF s = {} THEN 0 ELSE g[Pick(s)] + it[s \ {Pick(s)}]
      BY DEF SumsTo
    <2>2. s # {} => s \ {Pick(s)} \in P /\ g[Pick(s)] \in Nat
      BY <1>1, PickIn
    <2>. QED
      BY <2>1, <2>2
  <1>. HIDE DEF P
  <1>2. P = SUBSET S
    <2>1. P \in SUBSET (SUBSET S)
      BY DEF P
    <2>. QED
      BY <1>1, <2>1, SubsetInduction
  <1>. QED
    BY <1>2 DEF P

LEMMA RoundNat ==
  ASSUME NEW n \in Nat
  PROVE  /\ Payslip!Round(n, 60) \in Nat /\ Payslip!Round(n, 100) \in Nat
         /\ Payslip!Round(n, 30) \in Nat /\ 30 * Payslip!Round(n, 30) <= n + 15
  BY DEF Payslip!Round
LEMMA OvertimeOfNat ==
  ASSUME IsSetting, NEW r \in RecordType
  PROVE  Payslip!OvertimeOf(r) \in Nat
  <1>1. /\ r.in \in Int /\ r.out \in Int
        /\ Shift.start \in Int /\ Shift.end \in Int /\ Shift.early \in Nat /\ Shift.late \in Nat
    BY DEF IsSetting, RecordType
  <1>2. /\ Payslip!AtLeastNil(Shift.start - r.in) \in Nat
        /\ Payslip!AtLeastNil(r.out - Shift.end) \in Nat
    BY <1>1, AtLeastNilIs
  <1>3. \A a, b \in Nat : Payslip!Beyond(a, b) \in Nat
    BY DEF Payslip!Beyond
  <1>4. /\ Payslip!Beyond(Payslip!AtLeastNil(Shift.start - r.in), Shift.early) \in Nat
        /\ Payslip!Beyond(Payslip!AtLeastNil(r.out - Shift.end), Shift.late) \in Nat
    BY <1>1, <1>2, <1>3
  <1>. QED
    BY <1>4 DEF Payslip!OvertimeOf

LEMMA OvertimeNat ==
  ASSUME IsSetting, NEW S, IsFiniteSet(S), S \subseteq RecordType
  PROVE  Payslip!OvertimeHours(S) \in Nat
  <1>1. OvertimeIn(S) \in [S -> Nat]
    BY OvertimeOfNat DEF OvertimeIn
  <1>2. OvertimeTable(S)[S] \in Nat
    BY <1>1, OvertimeSummed, SumNat
  <1>. QED
    BY <1>2, OvertimeSummed, RoundNat

LEMMA LeaveDaysInt ==
  ASSUME IsSetting, NEW l \in LeaveType
  PROVE  Payslip!LeaveDays(l) \in Int
  <1>1. l.start \in Int /\ l.end \in Int /\ Offset \in Int /\ MonthDays \in Int
    BY DEF IsSetting, LeaveType
  <1>. DEFINE s == Payslip!LeaveTime(l.start)
              e == Payslip!LeaveTime(l.end)
              c == (MonthDays + 1) * Payslip!Minutes - 1
  <1>2. s \in Int /\ e \in Int /\ c \in Int /\ Payslip!Minutes \in Int
    BY <1>1 DEF Payslip!LeaveTime, Payslip!Minutes
  <1>. HIDE DEF s, e, c
  <1>3. Payslip!Max({s, Payslip!Minutes}) \in Int /\ Payslip!Min({e, c}) \in Int
    BY <1>2, MaxOfTwo, MinOfTwo
  <1>4. \A n \in Int : Payslip!Ceil(n, Payslip!Minutes) \in Int
    BY DEF Payslip!Ceil, Payslip!Minutes
  <1>5. Payslip!LeaveDays(l) = Payslip!Ceil(Payslip!Min({e, c}) - Payslip!Max({s, Payslip!Minutes}), Payslip!Minutes) + 1
    BY DEF Payslip!LeaveDays, s, e, c
  <1>. QED
    BY <1>3, <1>4, <1>5

LEMMA CardinalityIs == \A S : Payslip!Cardinality(S) = Cardinality(S)
  BY Zenon DEF Payslip!Cardinality, Cardinality

LEMMA DaysInt ==
  ASSUME IsSetting, NEW m, IsMonth(m)
  PROVE  /\ Payslip!DaysPresent(m.records) \in Nat /\ Payslip!PaidLeaveDays(m.leaves) \in Int
         /\ Payslip!EffectivePresent(m) \in Int /\ Payslip!DaysAbsent(m) \in Nat
  <1>1. Payslip!DaysPresent(m.records) \in Nat
    <2>. DEFINE f == [r \in m.records |-> Payslip!IsoDay(r)]
    <2>1. {Payslip!IsoDay(r) : r \in m.records} = {f[r] : r \in m.records}
      OBVIOUS
    <2>2. IsFiniteSet(m.records)
      BY DEF IsMonth
    <2>. HIDE DEF f
    <2>3. Cardinality({f[r] : r \in m.records}) \in Nat
      BY <2>2, ImageFinite
    <2>4. Payslip!DaysPresent(m.records) = Cardinality({f[r] : r \in m.records})
      BY <2>1, CardinalityIs, Zenon DEF Payslip!DaysPresent
    <2>. QED
      BY <2>3, <2>4, Zenon
  <1>2. Payslip!PaidLeaveDays(m.leaves) \in Int
    <2>. DEFINE S == Paid(m.leaves)
    <2>1. /\ IsFiniteSet(S) /\ SumsTo(LeaveTable(S), LeaveDaysIn(S), S)
          /\ Payslip!PaidLeaveDays(m.leaves) = LeaveTable(S)[S]
      BY LeavesSummed DEF IsMonth
    <2>2. S \subseteq LeaveType
      BY DEF IsMonth, Paid
    <2>. HIDE DEF S
    <2>3. LeaveDaysIn(S) \in [S -> Int]
      BY <2>2, LeaveDaysInt DEF LeaveDaysIn
    <2>. QED
      BY <2>1, <2>3, SumInt
  <1>3. m.workingDays \in Int
    BY DEF IsMonth
  <1>4. Payslip!EffectivePresent(m) \in Int
    BY <1>1, <1>2, <1>3, AtMostIs DEF Payslip!EffectivePresent
  <1>5. Payslip!DaysAbsent(m) \in Nat
    BY <1>3, <1>4, AtLeastNilIs DEF Payslip!DaysAbsent
  <1>. QED
    BY <1>1, <1>2, <1>4, <1>5

(* Nothing that is deducted or paid on top is negative.                    *)
Deductions(m) ==
  {Payslip!EmployeeSsf(m), Payslip!EmployeePf(m), Payslip!Cit(m), Payslip!Advance(m), Payslip!Tax(m)}

LEMMA FiguresTyped ==
  ASSUME IsSetting, NEW m, IsMonth(m)
  PROVE  /\ Payslip!AbsenceDeduction(m) \in Nat /\ Payslip!OvertimePay(m) \in Nat
         /\ Payslip!Gross(m) \in Int /\ Payslip!DashainBonus(m) \in Nat
         /\ Payslip!Taxable(m) \in Int /\ Deductions(m) \subseteq Nat
         /\ Payslip!RawDeductions(m) \in Nat
  <1>. DEFINE s == m.s
  <1>1. /\ s.basic \in Nat /\ s.allowances \in Nat /\ s.overtimeRate \in Nat
        /\ s.ssf \in BOOLEAN /\ s.ssfRate \in Nat /\ s.pf \in BOOLEAN /\ s.pfRate \in Nat
        /\ s.cit \in Nat /\ s.advance \in Nat /\ s.tds \in BOOLEAN /\ s.married \in BOOLEAN
        /\ s.bonusRate \in Nat /\ m.override \in Nat \cup {Payslip!NoOverride}
        /\ m.bonusMonth \in BOOLEAN
    <2>1. s \in FigureSettings /\ m.override \in Nat \cup {Payslip!NoOverride} /\ m.bonusMonth \in BOOLEAN
      BY DEF IsMonth
    <2>. HIDE DEF s
    <2>. QED
      BY <2>1 DEF FigureSettings
  <1>2. Payslip!AbsenceDeduction(m) \in Nat
    <2>1. Payslip!Round(s.basic, 30) \in Nat /\ Payslip!DaysAbsent(m) \in Nat
      BY <1>1, DaysInt, RoundNat
    <2>. HIDE DEF s
    <2>2. Payslip!Round(s.basic, 30) * Payslip!DaysAbsent(m) \in Nat
      BY <2>1, Products
    <2>. QED
      BY <2>2 DEF Payslip!AbsenceDeduction, s
  <1>3. Payslip!OvertimePay(m) \in Nat
    <2>. DEFINE hours == IF m.override = Payslip!NoOverride
                         THEN Payslip!OvertimeHours(m.records) ELSE m.override
    <2>1. Payslip!OvertimeHours(m.records) \in Nat
      BY OvertimeNat DEF IsMonth
    <2>2. hours \in Nat
      BY <1>1, <2>1
    <2>3. Payslip!OvertimePay(m) = Payslip!Round(hours * s.overtimeRate, 100)
      BY DEF Payslip!OvertimePay
    <2>. HIDE DEF hours, s
    <2>4. hours * s.overtimeRate \in Nat
      BY <1>1, <2>2, Products
    <2>. QED
      BY <2>3, <2>4, RoundNat
  <1>4. Payslip!Gross(m) \in Int
    <2>1. Payslip!Gross(m) = s.basic + s.allowances + Payslip!OvertimePay(m) - Payslip!AbsenceDeduction(m)
      BY DEF Payslip!Gross
    <2>. HIDE DEF s
    <2>. QED
      BY <1>1, <1>2, <1>3, <2>1
  <1>5. \A a, b \in Nat : Payslip!Percent(a, b) \in Nat
    BY Products, RoundNat DEF Payslip!Percent
  <1>6. Payslip!EffectiveBasic(m) \in Nat
    <2>1. Payslip!EffectiveBasic(m) = Payslip!AtLeastNil(s.basic - Payslip!AbsenceDeduction(m))
      BY DEF Payslip!EffectiveBasic
    <2>. HIDE DEF s
    <2>2. s.basic - Payslip!AbsenceDeduction(m) \in Int
      BY <1>1, <1>2
    <2>. QED
      BY <2>1, <2>2, AtLeastNilIs
  <1>7. \A a \in Nat : Payslip!IfEarning(m, a) \in Nat
    BY DEF Payslip!IfEarning
  <1>8. /\ Payslip!EmployeeSsf(m) \in Nat /\ Payslip!EmployeePf(m) \in Nat
        /\ Payslip!Cit(m) \in Nat /\ Payslip!Advance(m) \in Nat
    BY <1>1, <1>5, <1>6, <1>7
       DEF Payslip!EmployeeSsf, Payslip!EmployeePf, Payslip!Cit, Payslip!Advance
  <1>9. Payslip!DashainBonus(m) \in Nat
    BY <1>1, <1>5 DEF Payslip!DashainBonus
  <1>10. Payslip!Taxable(m) \in Int
    BY <1>4, <1>8, <1>9 DEF Payslip!Taxable
  <1>11. Payslip!Tax(m) \in Nat
    <2>1. Payslip!Tds(12 * Payslip!Taxable(m), m.s.married, m.s.ssf) \in Nat
      <3>. DEFINE x == Payslip!Taxable(m)
      <3>1. x \in Int /\ x <= x /\ s.married \in BOOLEAN /\ s.ssf \in BOOLEAN /\ IsTaxTable(TaxTable)
        BY <1>1, <1>10 DEF IsSetting
      <3>. HIDE DEF x, s
      <3>2. TaxesClose(x, x, s.married, s.ssf)
        BY <3>1, TdsMarginal
      <3>. QED
        BY <3>2 DEF TaxesClose, x, s
    <2>. QED
      BY <1>1, <1>7, <2>1 DEF Payslip!Tax
  <1>12. Payslip!RawDeductions(m) \in Nat
    BY <1>8, <1>11 DEF Payslip!RawDeductions
  <1>. QED
    BY <1>2, <1>3, <1>4, <1>8, <1>9, <1>10, <1>11, <1>12 DEF Deductions
(* For every month, whatever the pay settings and the slabs: what is paid  *)
(* and deducted adds up to what was earned, and nothing is added by a      *)
(* deduction unless the absence cost more than was earned                  *)
(* (payroll.service.ts:394-433).                                           *)
THEOREM PayslipAddsUp ==
  ASSUME IsSetting, NEW m, IsMonth(m)
  PROVE  Payslip!AddsUp(m)
  <1>. DEFINE earned == Payslip!Gross(m) + Payslip!DashainBonus(m)
              raw == Payslip!RawDeductions(m)
              total == Payslip!TotalDeductions(m)
  <1>1. /\ Payslip!Gross(m) \in Int /\ Payslip!DashainBonus(m) \in Nat
        /\ earned \in Int /\ raw \in Nat
    BY FiguresTyped
  <1>2. total = IF raw <= earned THEN raw ELSE earned
    <2>1. total = Payslip!AtMost(raw, earned)
      BY DEF Payslip!TotalDeductions
    <2>. HIDE DEF total, raw, earned
    <2>. QED
      BY <1>1, <2>1, AtMostIs
  <1>3. Payslip!Net(m) = Payslip!AtLeastNil(Payslip!Gross(m) + (Payslip!DashainBonus(m) - total))
    BY Zenon DEF Payslip!Net
  <1>4. Payslip!Gross(m) >= 0 => earned >= 0
    BY <1>1
  <1>5. \A n \in Int : Payslip!Gross(m) + (Payslip!DashainBonus(m) - n) = earned - n
    BY <1>1
  <1>. HIDE DEF earned, raw, total
  <1>6. total \in Int /\ earned - total \in Int /\ earned - total >= 0
    BY <1>1, <1>2
  <1>7. Payslip!Net(m) = earned - total
    BY <1>3, <1>6, <1>5, AtLeastNilIs
  <1>8. Payslip!Net(m) + total = earned
    BY <1>1, <1>6, <1>7
  <1>9. Payslip!Gross(m) >= 0 => total >= 0
    BY <1>1, <1>2, <1>4
  <1>. QED
    BY <1>8, <1>9 DEF Payslip!AddsUp, earned, total

(* For every month, absence costs no more than the pay of a month, but for *)
(* one of more than thirty days (payroll.service.ts:392-397).              *)
THEOREM PayslipAbsenceBounded ==
  ASSUME IsSetting, NEW m, IsMonth(m)
  PROVE  Payslip!AbsenceBounded(m)
  <1>. SUFFICES ASSUME Payslip!DaysAbsent(m) <= 30 PROVE Payslip!Gross(m) + 15 >= 0
    BY DEF Payslip!AbsenceBounded
  <1>. DEFINE days == Payslip!DaysAbsent(m)
              daily == Payslip!Round(m.s.basic, 30)
              basic == m.s.basic
              allowances == m.s.allowances
  <1>1. basic \in Nat /\ allowances \in Nat
    <2>1. m.s \in FigureSettings
      BY DEF IsMonth
    <2>. QED
      BY <2>1 DEF FigureSettings
  <1>2. days \in Nat /\ days <= 30
    BY DaysInt
  <1>3. daily \in Nat /\ 30 * daily <= basic + 15
    BY <1>1, RoundNat
  <1>4. Payslip!OvertimePay(m) \in Nat
    BY FiguresTyped
  <1>5. Payslip!Gross(m) = basic + allowances + Payslip!OvertimePay(m) - daily * days
    BY DEF Payslip!Gross, Payslip!AbsenceDeduction
  <1>. HIDE DEF days, daily, basic, allowances
  <1>6. days * daily <= 30 * daily /\ days * daily = daily * days
    BY <1>2, <1>3, Products
  <1>7. daily * days \in Int
    BY <1>2, <1>3
  <1>. QED
    BY <1>1, <1>3, <1>4, <1>5, <1>6, <1>7

(* For every income and every table of slabs, a rupee more in the month    *)
(* costs its highest rate and the rounding of two months at most, and      *)
(* never saves any (payroll.service.ts:78-117).                            *)
THEOREM PayslipTaxMarginal ==
  ASSUME IsSetting, NEW m, IsMonth(m)
  PROVE  Payslip!TaxMarginal(m)
  <1>. DEFINE x == Payslip!Taxable(m)
              y == Payslip!Taxable(m) + 10 * Payslip!Rupee
              slabs == Payslip!Slabs(m.s.married, m.s.ssf)
              tax(income) == Payslip!Tds(12 * income, m.s.married, m.s.ssf)
  <1>1. m.s.married \in BOOLEAN /\ m.s.ssf \in BOOLEAN
    <2>1. m.s \in FigureSettings
      BY DEF IsMonth
    <2>. QED
      BY <2>1 DEF FigureSettings
  <1>2. x \in Int /\ y = x + 1000
    BY FiguresTyped DEF Payslip!Rupee
  <1>3. IsTaxTable(TaxTable)
    BY DEF IsSetting
  <1>4. Len(slabs) = Len(TaxTable.slabs) + 1 /\ slabs \in Seq(Slab) /\ Len(TaxTable.slabs) \in Nat
    <2>1. Len(TaxTable.slabs) \in Nat
      BY <1>3, LenProperties DEF IsTaxTable
    <2>. QED
      BY <1>1, <1>3, <2>1, SlabsAre
  <1>5. HighestRate(slabs) = Payslip!Max({slabs[i].rate : i \in 1..(Len(TaxTable.slabs) + 1)})
    BY <1>4 DEF HighestRate
  <1>6. HighestRate(slabs) \in Nat
    <2>. HIDE DEF slabs
    <2>. QED
      BY <1>4, HighestRateIs
  <1>7. /\ tax(x) \in Nat /\ tax(y) \in Nat /\ tax(x) <= tax(y)
        /\ 100 * (tax(y) - tax(x)) < HighestRate(slabs) * 1000 + 10000
    <2>. HIDE DEF x, y
    <2>1. x \in Int /\ y \in Int /\ x <= y /\ y - x = 1000
      BY <1>2
    <2>2. TaxesClose(x, y, m.s.married, m.s.ssf)
      BY <1>1, <1>3, <2>1, TdsMarginal
    <2>. QED
      BY <2>1, <2>2 DEF TaxesClose
  <1>. DEFINE more == tax(y) - tax(x)
              highest == Payslip!Max({slabs[i].rate : i \in 1..(Len(TaxTable.slabs) + 1)})
  <1>8. Payslip!TaxMarginal(m) <=> more >= 0 /\ more <= 10 * highest + Payslip!Rupee
    BY DEF Payslip!TaxMarginal
  <1>9. highest = HighestRate(slabs)
    BY <1>5
  <1>. HIDE DEF tax, x, y, slabs, highest
  <1>10. more >= 0 /\ more <= 10 * highest + Payslip!Rupee
    BY <1>6, <1>7, <1>9 DEF Payslip!Rupee
  <1>. QED
    BY <1>8, <1>10
-----------------------------------------------------------------------------
(* The days counted.                                                       *)
DaysOfLeave(l) == {d \in 1..MonthDays : d \in l.start..l.end}
DaysOfLeaves(S) == {d \in 1..MonthDays : \E l \in S : d \in l.start..l.end}

Crossing(l) == l.start < 1 \/ l.end > MonthDays

LEMMA LeaveDaysCount ==
  ASSUME MonthDays \in Nat \ {0}, Offset \in 0..1439, NEW l, OfMonth(l)
  PROVE  /\ IsFiniteSet(DaysOfLeave(l)) /\ Cardinality(DaysOfLeave(l)) \in Nat
         /\ Payslip!LeaveDays(l) \in Nat /\ Cardinality(DaysOfLeave(l)) <= Payslip!LeaveDays(l)
         /\ ~Crossing(l) => Payslip!LeaveDays(l) = Cardinality(DaysOfLeave(l))
  <1>. DEFINE off == IF East THEN Offset ELSE 0
              a == l.start
              b == l.end
              lo == IF a >= 1 THEN a ELSE 1
              hi == IF b <= MonthDays THEN b ELSE MonthDays
              from == IF a * 1440 + off >= 1440 THEN a * 1440 + off ELSE 1440
              to == IF b * 1440 + off <= (MonthDays + 1) * 1440 - 1
                    THEN b * 1440 + off ELSE (MonthDays + 1) * 1440 - 1
              days == -((-(to - from)) \div 1440) + 1
  <1>1. /\ a \in Int /\ b \in Int /\ a <= b /\ a <= MonthDays /\ b >= 1
        /\ off \in Int /\ 0 <= off /\ off <= 1439
    BY DEF OfMonth, LeaveType
  <1>2. Payslip!LeaveDays(l) = days
    <2>. DEFINE s == a * 1440 + off
                e == b * 1440 + off
                c == (MonthDays + 1) * 1440 - 1
    <2>1. Payslip!LeaveTime(a) = s /\ Payslip!LeaveTime(b) = e
      BY DEF Payslip!LeaveTime, Payslip!Minutes
    <2>2. Payslip!LeaveDays(l) = Payslip!Ceil(Payslip!Min({e, c}) - Payslip!Max({s, 1440}), 1440) + 1
      BY <2>1 DEF Payslip!LeaveDays, Payslip!Minutes
    <2>3. s \in Int /\ e \in Int /\ c \in Int
      BY <1>1
    <2>4. Payslip!Min({e, c}) = to /\ Payslip!Max({s, 1440}) = from
      <3>. HIDE DEF s, e, c
      <3>1. /\ Payslip!Min({e, c}) = IF e <= c THEN e ELSE c
            /\ Payslip!Max({s, 1440}) = IF s >= 1440 THEN s ELSE 1440
        BY <2>3, MinOfTwo, MaxOfTwo
      <3>. QED
        BY <3>1 DEF s, e, c
    <2>. HIDE DEF from, to
    <2>. QED
      BY <2>2, <2>4 DEF Payslip!Ceil
  <1>3. DaysOfLeave(l) = lo..hi /\ lo \in Int /\ hi \in Int /\ lo <= hi
    <2>1. DaysOfLeave(l) = {d \in 1..MonthDays : d \in a..b}
      BY DEF DaysOfLeave
    <2>. HIDE DEF a, b, off
    <2>2. lo \in Int /\ hi \in Int /\ lo <= hi
      <3>1. a \in Int /\ b \in Int /\ a <= b /\ a <= MonthDays /\ b >= 1 /\ MonthDays \in Nat \ {0}
        BY <1>1
      <3>2. lo \in Int /\ hi \in Int
        BY <3>1
      <3>3. a <= hi /\ (a < 1 => 1 <= hi)
        BY <3>1
      <3>. QED
        BY <3>1, <3>2, <3>3
    <2>3. \A d : d \in 1..MonthDays /\ d \in a..b <=> d \in lo..hi
      BY <1>1
    <2>. HIDE DEF lo, hi
    <2>. QED
      BY <2>1, <2>2, <2>3
  <1>. HIDE DEF a, b, off
  <1>4. days \in Nat /\ hi - lo + 1 <= days /\ (a >= 1 /\ b <= MonthDays => days = hi - lo + 1)
    BY <1>1
  <1>. HIDE DEF lo, hi, days
  <1>5. IsFiniteSet(lo..hi) /\ Cardinality(lo..hi) = hi - lo + 1
    BY <1>3, FS_Interval
  <1>6. ~Crossing(l) => a >= 1 /\ b <= MonthDays
    BY <1>1 DEF Crossing, a, b
  <1>. QED
    BY <1>2, <1>3, <1>4, <1>5, <1>6
(* The days of leaves are those of one of them and those of the others.    *)
LEMMA DaysOfLeavesSplit ==
  ASSUME NEW S, NEW x \in S
  PROVE  DaysOfLeaves(S) = DaysOfLeave(x) \cup DaysOfLeaves(S \ {x})
  BY DEF DaysOfLeaves, DaysOfLeave

LEMMA LeavesCount ==
  ASSUME MonthDays \in Nat \ {0}, Offset \in 0..1439, NEW S, IsFiniteSet(S), \A l \in S : OfMonth(l),
         NEW it, SumsTo(it, LeaveDaysIn(S), S)
  PROVE  /\ IsFiniteSet(DaysOfLeaves(S)) /\ Cardinality(DaysOfLeaves(S)) \in Nat /\ it[S] \in Nat
         /\ Cardinality(DaysOfLeaves(S)) <= it[S]
         /\ (\A l \in S : ~Crossing(l)) /\ Disjoint(S) => it[S] = Cardinality(DaysOfLeaves(S))
  <1>. DEFINE C(s) == Cardinality(DaysOfLeaves(s))
              exact == (\A l \in S : ~Crossing(l)) /\ Disjoint(S)
              Tally(s) == /\ IsFiniteSet(DaysOfLeaves(s)) /\ C(s) \in Nat /\ it[s] \in Nat
                            /\ C(s) <= it[s] /\ (exact => it[s] = C(s))
              P == {s \in SUBSET S : Tally(s)}
  <1>1. ASSUME NEW s \in SUBSET S, \A t \in SUBSET s : t # s => t \in P
        PROVE  s \in P
    <2>1. it[s] = IF s = {} THEN 0 ELSE LeaveDaysIn(S)[Pick(s)] + it[s \ {Pick(s)}]
      BY DEF SumsTo
    <2>2. CASE s = {}
      <3>1. DaysOfLeaves({}) = {}
        BY DEF DaysOfLeaves
      <3>2. Tally({})
        BY <2>1, <2>2, <3>1, FS_EmptySet
      <3>. QED
        BY <2>2, <3>2
    <2>3. CASE s # {}
      <3>. DEFINE x == Pick(s)
                  rest == s \ {x}
                  A == DaysOfLeave(x)
                  B == DaysOfLeaves(rest)
      <3>1. x \in s /\ x \in S /\ rest \in SUBSET S /\ rest \in P
        BY <1>1, <2>3, PickIn
      <3>2. /\ IsFiniteSet(A) /\ Cardinality(A) \in Nat
            /\ Payslip!LeaveDays(x) \in Nat /\ Cardinality(A) <= Payslip!LeaveDays(x)
            /\ ~Crossing(x) => Payslip!LeaveDays(x) = Cardinality(A)
        BY <3>1, LeaveDaysCount
      <3>3. IsFiniteSet(B) /\ Cardinality(B) \in Nat /\ it[rest] \in Nat
            /\ Cardinality(B) <= it[rest] /\ (exact => it[rest] = Cardinality(B))
        BY <3>1
      <3>4. it[s] = Payslip!LeaveDays(x) + it[rest]
        BY <2>1, <2>3, <3>1 DEF LeaveDaysIn
      <3>5. DaysOfLeaves(s) = A \cup B
        BY <3>1, DaysOfLeavesSplit
      <3>6. exact => A \cap B = {}
        <4>. SUFFICES ASSUME Disjoint(S), NEW d \in A, d \in B PROVE FALSE
          OBVIOUS
        <4>1. PICK l \in rest : d \in l.start..l.end
          BY DEF DaysOfLeaves
        <4>2. d \in x.start..x.end /\ x # l /\ l \in S
          BY <3>1, <4>1 DEF DaysOfLeave
        <4>3. x.end < l.start \/ l.end < x.start
          BY <3>1, <4>2 DEF Disjoint
        <4>4. x.start \in Int /\ x.end \in Int /\ l.start \in Int /\ l.end \in Int
          BY <3>1, <4>2 DEF OfMonth, LeaveType
        <4>. QED
          BY <4>1, <4>2, <4>3, <4>4
      <3>. HIDE DEF A, B, x, rest, exact
      <3>7. /\ IsFiniteSet(A \cup B) /\ IsFiniteSet(A \cap B)
            /\ Cardinality(A \cup B) = Cardinality(A) + Cardinality(B) - Cardinality(A \cap B)
        <4>1. IsFiniteSet(A) /\ IsFiniteSet(B)
          BY <3>2, <3>3
        <4>2. /\ IsFiniteSet(A \cup B)
              /\ Cardinality(A \cup B) = Cardinality(A) + Cardinality(B) - Cardinality(A \cap B)
          BY <4>1, FS_Union
        <4>3. IsFiniteSet(A \cap B)
          <5>1. A \cap B \subseteq A
            OBVIOUS
          <5>. QED
            BY <4>1, <5>1, FS_Subset
        <4>. QED
          BY <4>2, <4>3
      <3>8. Cardinality(A \cap B) \in Nat /\ Cardinality(A \cup B) \in Nat
            /\ (exact => Cardinality(A \cap B) = 0)
        BY <3>6, <3>7, FS_CardinalityType, FS_EmptySet
      <3>9. exact => ~Crossing(x)
        BY <3>1 DEF exact
      <3>10. Tally(s)
        BY <3>2, <3>3, <3>4, <3>5, <3>7, <3>8, <3>9
      <3>. QED
        BY <3>10
    <2>. QED
      BY <2>2, <2>3
  <1>. HIDE DEF Tally
  <1>2. P = SUBSET S
    <2>1. P \in SUBSET (SUBSET S)
      OBVIOUS
    <2>. HIDE DEF P
    <2>. QED
      BY <1>1, <2>1, SubsetInduction
  <1>. QED
    BY <1>2 DEF Tally

LEMMA AttendedCount ==
  ASSUME NEW m, IsMonth(m), IsMonthOfOne(m), Offset \in Int
  PROVE  LET attended == {r.day : r \in m.records} IN
         /\ Cardinality(attended) \in Nat
         /\ Payslip!DaysPresent(m.records) \in Nat
         /\ Payslip!DaysPresent(m.records) <= Cardinality(attended)
         /\ {r \in m.records : r.in < Offset} = {} =>
              Payslip!DaysPresent(m.records) = Cardinality(attended)
  <1>. DEFINE R == m.records
              attended == {r.day : r \in R}
              day == [r \in R |-> r.day]
              iso == [r \in R |-> Payslip!IsoDay(r)]
  <1>1. IsFiniteSet(R) /\ R \subseteq RecordType
    BY DEF IsMonth
  <1>2. Payslip!DaysPresent(R) = Cardinality({iso[r] : r \in R})
    <2>1. {Payslip!IsoDay(r) : r \in R} = {iso[r] : r \in R}
      OBVIOUS
    <2>. HIDE DEF iso, R
    <2>. QED
      BY <2>1, CardinalityIs, Zenon DEF Payslip!DaysPresent
  <1>3. Cardinality({iso[r] : r \in R}) \in Nat /\ Cardinality({iso[r] : r \in R}) <= Cardinality(R)
    <2>. HIDE DEF iso, R
    <2>. QED
      BY <1>1, ImageFinite
  <1>4. Cardinality(attended) = Cardinality(R) /\ Cardinality(attended) \in Nat
    <2>1. day \in Surjection(R, attended) /\ day \in Injection(R, attended)
      BY DEF Surjection, Injection, IsInjective, IsMonthOfOne
    <2>. HIDE DEF day, R, attended
    <2>2. Cardinality(attended) = Cardinality(R) /\ IsFiniteSet(attended)
      BY <1>1, <2>1, FS_Surjection
    <2>. QED
      BY <2>2, FS_CardinalityType
  <1>5. ASSUME {r \in R : r.in < Offset} = {} PROVE {iso[r] : r \in R} = attended
    <2>1. ASSUME NEW r \in R PROVE iso[r] = r.day
      <3>1. r.in \in Int /\ ~(r.in < Offset)
        BY <1>1, <1>5 DEF RecordType
      <3>. QED
        BY <3>1 DEF Payslip!IsoDay
    <2>. HIDE DEF iso, R
    <2>. QED
      BY <2>1
  <1>. HIDE DEF iso, day
  <1>. QED
    BY <1>2, <1>3, <1>4, <1>5

LEMMA AbsentIs ==
  ASSUME NEW m
  PROVE  Payslip!DaysAbsent(m) = Payslip!AtLeastNil(m.workingDays -
           Payslip!AtMost(Payslip!DaysPresent(m.records) + Payslip!PaidLeaveDays(m.leaves),
                          m.workingDays))
  BY Zenon DEF Payslip!DaysAbsent, Payslip!EffectivePresent

(* For every month, whatever its records and leaves: who was there on      *)
(* every working day is not absent, unless a check-in of the early morning *)
(* counted for the day before, and who was not is not present, unless a    *)
(* leave crosses the end of the month (payroll.service.ts:1256, 1305).     *)
THEOREM PayslipDaysCounted ==
  ASSUME IsSetting, Offset \in 0..1439, NEW m, IsMonth(m), IsMonthOfOne(m)
  PROVE  Payslip!DaysCounted(m)
  <1>. DEFINE attended == {r.day : r \in m.records}
              onLeave == {d \in 1..MonthDays : \E l \in m.leaves : d \in l.start..l.end /\ l.type # "UNPAID"}
              A == Cardinality(attended)
              L == Cardinality(onLeave)
              early == {r \in m.records : r.in < Offset}
              crossing == {l \in m.leaves : l.start < 1 \/ l.end > MonthDays}
              S == Paid(m.leaves)
              present == Payslip!DaysPresent(m.records)
              paid == Payslip!PaidLeaveDays(m.leaves)
              W == m.workingDays
  <1>1. /\ A \in Nat /\ present \in Nat /\ present <= A /\ (early = {} => present = A)
    BY AttendedCount DEF IsSetting
  <1>2. /\ L \in Nat /\ paid \in Nat /\ L <= paid /\ (crossing = {} => paid = L)
    <2>1. onLeave = DaysOfLeaves(S)
      BY DEF DaysOfLeaves, Paid
    <2>2. /\ IsFiniteSet(S) /\ SumsTo(LeaveTable(S), LeaveDaysIn(S), S)
          /\ paid = LeaveTable(S)[S]
      BY LeavesSummed DEF IsMonth
    <2>3. \A l \in S : OfMonth(l)
      BY DEF Paid, IsMonthOfOne
    <2>4. Disjoint(S)
      BY DEF Paid, IsMonthOfOne, Disjoint
    <2>5. crossing = {} => \A l \in S : ~Crossing(l)
      BY DEF Paid, Crossing
    <2>6. MonthDays \in Nat \ {0}
      BY DEF IsSetting
    <2>. HIDE DEF S, paid, crossing, onLeave
    <2>7. /\ Cardinality(DaysOfLeaves(S)) \in Nat /\ LeaveTable(S)[S] \in Nat
          /\ Cardinality(DaysOfLeaves(S)) <= LeaveTable(S)[S]
          /\ (\A l \in S : ~Crossing(l)) /\ Disjoint(S) =>
                LeaveTable(S)[S] = Cardinality(DaysOfLeaves(S))
      BY <2>2, <2>3, <2>6, LeavesCount
    <2>. QED
      BY <2>1, <2>2, <2>4, <2>5, <2>7
  <1>3. W \in Nat
    BY DEF IsMonth
  <1>4. Payslip!DaysAbsent(m) = Payslip!AtLeastNil(W - Payslip!AtMost(present + paid, W))
    BY AbsentIs, Zenon
  <1>5. Payslip!DaysCounted(m) <=>
          /\ early = {} => Payslip!DaysAbsent(m) <= Payslip!AtLeastNil(W - (A + L))
          /\ crossing = {} => Payslip!DaysAbsent(m) >= Payslip!AtLeastNil(W - (A + L))
    BY CardinalityIs, Zenon DEF Payslip!DaysCounted
  <1>. HIDE DEF A, L, early, crossing, present, paid, W
  <1>6. /\ Payslip!AtMost(present + paid, W) = IF present + paid <= W THEN present + paid ELSE W
        /\ Payslip!AtLeastNil(W - (A + L)) = IF W - (A + L) >= 0 THEN W - (A + L) ELSE 0
    BY <1>1, <1>2, <1>3, AtMostIs, AtLeastNilIs
  <1>. DEFINE here == Payslip!AtMost(present + paid, W)
  <1>7. here \in Int
    BY <1>1, <1>2, <1>3, <1>6
  <1>8. Payslip!AtLeastNil(W - here) = IF W - here >= 0 THEN W - here ELSE 0
    <2>. HIDE DEF here
    <2>. QED
      BY <1>3, <1>7, AtLeastNilIs
  <1>. QED
    BY <1>1, <1>2, <1>3, <1>4, <1>5, <1>6, <1>8
-----------------------------------------------------------------------------
(* A day of attendance more.                                               *)
LEMMA RoundMonotone ==
  ASSUME NEW a \in Nat, NEW b \in Nat, a <= b
  PROVE  /\ Payslip!Round(a, 60) <= Payslip!Round(b, 60)
         /\ Payslip!Round(a, 100) <= Payslip!Round(b, 100)
         /\ 100 * (Payslip!Round(b, 100) - Payslip!Round(a, 100)) <= b - a + 99
  <1>. DEFINE p == (a + 50) \div 100
              q == (b + 50) \div 100
  <1>1. (a + 30) \div 60 <= (b + 30) \div 60
    OBVIOUS
  <1>2. p \in Int /\ 100 * p <= a + 50 /\ a + 50 < 100 * p + 100
    OBVIOUS
  <1>3. q \in Int /\ 100 * q <= b + 50 /\ b + 50 < 100 * q + 100
    OBVIOUS
  <1>4. Payslip!Round(a, 100) = p /\ Payslip!Round(b, 100) = q
    BY DEF Payslip!Round
  <1>. HIDE DEF p, q
  <1>5. p <= q /\ 100 * (q - p) <= b - a + 99
    BY <1>2, <1>3
  <1>. QED
    BY <1>1, <1>4, <1>5 DEF Payslip!Round

LEMMA RecordLess ==
  ASSUME IsSetting, NEW R, IsFiniteSet(R), R \subseteq RecordType, NEW r \in R
  PROVE  /\ Payslip!DaysPresent(R \ {r}) <= Payslip!DaysPresent(R)
         /\ Payslip!OvertimeHours(R \ {r}) <= Payslip!OvertimeHours(R)
  <1>. DEFINE Q == R \ {r}
              g == OvertimeIn(R)
              it == OvertimeTable(R)
              jt == OvertimeTable(Q)
  <1>0. Q \subseteq R /\ IsFiniteSet(Q) /\ r \notin Q /\ Q \in SUBSET R
    BY FS_Subset
  <1>1. Payslip!DaysPresent(Q) <= Payslip!DaysPresent(R)
    <2>. DEFINE all == {Payslip!IsoDay(x) : x \in R}
                some == {Payslip!IsoDay(x) : x \in Q}
                iso == [x \in R |-> Payslip!IsoDay(x)]
    <2>1. all = {iso[x] : x \in R}
      OBVIOUS
    <2>2. IsFiniteSet(all)
      <3>. HIDE DEF iso
      <3>. QED
        BY <2>1, ImageFinite
    <2>3. some \subseteq all
      OBVIOUS
    <2>4. Payslip!DaysPresent(R) = Cardinality(all) /\ Payslip!DaysPresent(Q) = Cardinality(some)
      BY CardinalityIs, Zenon DEF Payslip!DaysPresent
    <2>. HIDE DEF all, some, iso
    <2>5. Cardinality(some) <= Cardinality(all)
      BY <2>2, <2>3, FS_Subset
    <2>. QED
      BY <2>4, <2>5
  <1>2. \A x \in R : g[x] \in Nat
    BY OvertimeOfNat DEF OvertimeIn
  <1>3. SumsTo(it, g, R) /\ Payslip!OvertimeHours(R) = Payslip!Round(100 * it[R], 60)
    BY OvertimeSummed
  <1>4. SumsTo(jt, OvertimeIn(Q), Q) /\ Payslip!OvertimeHours(Q) = Payslip!Round(100 * jt[Q], 60)
    BY <1>0, OvertimeSummed
  <1>5. SumsTo(jt, g, Q)
    <2>1. \A x \in Q : OvertimeIn(Q)[x] = g[x]
      BY DEF OvertimeIn
    <2>2. \A s \in SUBSET Q : s # {} => OvertimeIn(Q)[Pick(s)] = g[Pick(s)]
      BY <2>1, PickIn
    <2>. HIDE DEF jt, g, Q
    <2>. QED
      BY <1>4, <2>2 DEF SumsTo
  <1>6. g \in [R -> Int] /\ OvertimeIn(Q) \in [Q -> Nat] /\ g \in [R -> Nat]
    BY <1>2 DEF OvertimeIn
  <1>. HIDE DEF jt, g, Q, it
  <1>7. it[Q] = jt[Q]
    BY <1>0, <1>3, <1>5, SumsAgree
  <1>8. it[R] = g[r] + it[Q]
    BY <1>3, <1>6, SumWithout DEF Q
  <1>9. jt[Q] \in Nat /\ it[R] \in Nat
    BY <1>0, <1>3, <1>4, <1>6, SumNat
  <1>10. Payslip!OvertimeHours(Q) <= Payslip!OvertimeHours(R)
    <2>1. 100 * jt[Q] \in Nat /\ 100 * it[R] \in Nat /\ 100 * jt[Q] <= 100 * it[R]
      BY <1>2, <1>7, <1>8, <1>9
    <2>. QED
      BY <1>3, <1>4, <2>1, RoundMonotone
  <1>. QED
    BY <1>1, <1>10 DEF Q

LEMMA HighestValidated ==
  ASSUME IsTaxTable(TaxTable), IsValidated, NEW married \in BOOLEAN, NEW ssf \in BOOLEAN
  PROVE  HighestRate(Payslip!Slabs(married, ssf)) \in 0..50
  <1>. DEFINE first == [limit |-> IF married THEN TaxTable.married ELSE TaxTable.unmarried,
                        rate |-> IF ssf THEN 0 ELSE TaxTable.rate]
              rest == TaxTable.slabs
              slabs == Payslip!Slabs(married, ssf)
  <1>1. rest \in Seq(Slab) /\ Len(rest) \in Nat /\ slabs \in Seq(Slab) /\ Len(slabs) = Len(rest) + 1
    <2>1. Len(rest) \in Nat
      BY LenProperties DEF IsTaxTable
    <2>. QED
      BY <2>1, SlabsAre DEF IsTaxTable
  <1>2. first \in Slab /\ first.rate <= 50
    BY DEF IsTaxTable, Slab, IsValidated
  <1>3. slabs = <<first>> \o rest
    BY DEF Payslip!Slabs
  <1>4. ASSUME NEW i \in 1..Len(slabs) PROVE slabs[i].rate \in 0..50
    <2>1. slabs[i] \in Slab
      BY <1>1, ElementOfSeq
    <2>2. slabs[i] = IF i = 1 THEN first ELSE rest[i - 1]
      <3>. HIDE DEF first, rest, slabs
      <3>1. <<first>> \in Seq(Slab) /\ Len(<<first>>) = 1 /\ <<first>>[1] = first
        BY <1>2
      <3>. QED
        BY <1>1, <1>3, <3>1, ConcatProperties
    <2>3. i # 1 => i - 1 \in 1..Len(rest)
      BY <1>1
    <2>4. i # 1 => rest[i - 1].rate <= 50
      BY <2>3 DEF IsValidated
    <2>. HIDE DEF first, rest, slabs
    <2>5. slabs[i].rate <= 50
      BY <1>2, <2>2, <2>4
    <2>6. slabs[i].rate \in Nat
      BY <2>1 DEF Slab
    <2>7. \A n \in Nat : n <= 50 => n \in 0..50
      OBVIOUS
    <2>. QED
      BY <2>5, <2>6, <2>7
  <1>. HIDE DEF slabs, first, rest
  <1>5. PICK i \in 1..Len(slabs) : slabs[i].rate = HighestRate(slabs)
    BY <1>1, HighestRateIs
  <1>6. HighestRate(slabs) \in 0..50
    BY <1>4, <1>5
  <1>. QED
    BY <1>6 DEF slabs

(* One contribution of an effective basic that grows.                      *)
LEMMA ShareGrows ==
  ASSUME NEW a \in Nat, NEW b \in Nat, a <= b, NEW rate \in Nat
  PROVE  LET p == Payslip!Percent(a, rate)
             q == Payslip!Percent(b, rate)
         IN p \in Nat /\ q \in Nat /\ p <= q /\ 100 * (q - p) <= rate * (b - a) + 99
  <1>1. a * rate \in Nat /\ b * rate \in Nat /\ a * rate <= b * rate
    BY Products
  <1>2. b * rate - a * rate = rate * (b - a)
    <2>1. (b - a) * rate = b * rate - a * rate
      BY Products
    <2>2. (b - a) * rate = rate * (b - a)
      OBVIOUS
    <2>. QED
      BY <2>1, <2>2
  <1>. DEFINE m == a * rate
              n == b * rate
  <1>3. m \in Nat /\ n \in Nat /\ m <= n
    BY <1>1
  <1>. HIDE DEF m, n
  <1>4. /\ Payslip!Round(m, 100) \in Nat /\ Payslip!Round(n, 100) \in Nat
        /\ Payslip!Round(m, 100) <= Payslip!Round(n, 100)
        /\ 100 * (Payslip!Round(n, 100) - Payslip!Round(m, 100)) <= n - m + 99
    BY <1>3, RoundMonotone, RoundNat
  <1>5. n - m = rate * (b - a)
    BY <1>2 DEF m, n
  <1>. QED
    BY <1>4, <1>5 DEF Payslip!Percent, m, n

(* Two contributions of a hundred percent together at most.                *)
LEMMA SharesGrow ==
  ASSUME NEW grown \in Nat, NEW r \in Nat, NEW t \in Nat, r + t <= 100,
         NEW p \in Int, NEW q \in Int, 100 * p <= r * grown + 99, 100 * q <= t * grown + 99
  PROVE  p + q <= grown + 1
  <1>1. r * grown \in Int /\ t * grown \in Int /\ r * grown + t * grown = (r + t) * grown
    OBVIOUS
  <1>2. (r + t) * grown <= 100 * grown
    BY Products
  <1>. DEFINE x == r * grown
              y == t * grown
  <1>3. x \in Int /\ y \in Int /\ x + y <= 100 * grown
    BY <1>1, <1>2
  <1>4. 100 * p <= x + 99 /\ 100 * q <= y + 99
    OBVIOUS
  <1>. HIDE DEF x, y
  <1>. QED
    BY <1>3, <1>4

(* Less is left of a tax that grows than of the income.                    *)
LEMMA TaxGrows ==
  ASSUME IsSetting, IsValidated, NEW married \in BOOLEAN, NEW ssf \in BOOLEAN,
         NEW x \in Int, NEW y \in Int
  PROVE  LET before == Payslip!Tds(12 * x, married, ssf)
             after == Payslip!Tds(12 * y, married, ssf)
         IN /\ before \in Nat /\ after \in Nat
            /\ x <= y => after - before < y - x + 100
            /\ y <= x => after <= before
  <1>. DEFINE before == Payslip!Tds(12 * x, married, ssf)
              after == Payslip!Tds(12 * y, married, ssf)
              h == HighestRate(Payslip!Slabs(married, ssf))
  <1>1. h \in 0..50 /\ IsTaxTable(TaxTable)
    BY HighestValidated DEF IsSetting
  <1>2. CASE x <= y
    <2>1. TaxesClose(x, y, married, ssf)
      BY <1>1, <1>2, TdsMarginal
    <2>2. before \in Nat /\ after \in Nat /\ before <= after /\ 100 * (after - before) < h * (y - x) + 10000
      BY <2>1 DEF TaxesClose
    <2>. HIDE DEF before, after, h
    <2>3. h * (y - x) <= 100 * (y - x)
      <3>. DEFINE d == y - x
      <3>1. d \in Nat
        BY <1>2
      <3>. HIDE DEF d
      <3>2. h * d <= 100 * d
        BY <1>1, <3>1, Products
      <3>. QED
        BY <3>2 DEF d
    <2>4. h * (y - x) \in Int
      BY <1>1
    <2>. DEFINE g == h * (y - x)
    <2>5. g \in Int /\ g <= 100 * (y - x) /\ 100 * (after - before) < g + 10000
      BY <2>2, <2>3, <2>4
    <2>. HIDE DEF g
    <2>6. after - before < y - x + 100
      BY <2>2, <2>5
    <2>7. y <= x => x = y
      BY <1>2
    <2>8. x = y => after = before
      BY DEF before, after
    <2>9. y <= x => after <= before
      BY <2>2, <2>7, <2>8
    <2>. QED
      BY <2>2, <2>6, <2>9 DEF before, after
  <1>3. CASE ~(x <= y)
    <2>0. y <= x
      BY <1>3
    <2>1. TaxesClose(y, x, married, ssf)
      BY <1>1, <2>0, TdsMarginal
    <2>2. before \in Nat /\ after \in Nat /\ after <= before
      BY <2>1 DEF TaxesClose
    <2>. HIDE DEF before, after
    <2>. QED
      BY <1>3, <2>2 DEF before, after
  <1>. QED
    BY <1>2, <1>3
LEMMA PaidNat ==
  ASSUME IsSetting, Offset \in 0..1439, NEW m, IsMonth(m), IsMonthOfOne(m)
  PROVE  Payslip!PaidLeaveDays(m.leaves) \in Nat
  <1>. DEFINE S == Paid(m.leaves)
  <1>1. /\ IsFiniteSet(S) /\ SumsTo(LeaveTable(S), LeaveDaysIn(S), S)
        /\ Payslip!PaidLeaveDays(m.leaves) = LeaveTable(S)[S]
    BY LeavesSummed DEF IsMonth
  <1>2. \A l \in S : OfMonth(l)
    BY DEF Paid, IsMonthOfOne
  <1>3. MonthDays \in Nat \ {0}
    BY DEF IsSetting
  <1>. HIDE DEF S
  <1>4. LeaveTable(S)[S] \in Nat
    BY <1>1, <1>2, <1>3, LeavesCount
  <1>. QED
    BY <1>1, <1>4

LEMMA MonthLess ==
  ASSUME NEW m, IsMonth(m), NEW r \in m.records
  PROVE  LET less == [m EXCEPT !.records = @ \ {r}] IN
         /\ IsMonth(less) /\ less.records = m.records \ {r} /\ less.leaves = m.leaves
         /\ less.workingDays = m.workingDays /\ less.override = m.override
         /\ less.bonusMonth = m.bonusMonth /\ less.s = m.s
  <1>. DEFINE less == [m EXCEPT !.records = @ \ {r}]
  <1>1. /\ less.records = m.records \ {r} /\ less.leaves = m.leaves
        /\ less.workingDays = m.workingDays /\ less.override = m.override
        /\ less.bonusMonth = m.bonusMonth /\ less.s = m.s
    BY DEF IsMonth
  <1>2. less \in [records : SUBSET RecordType, leaves : SUBSET LeaveType, workingDays : Nat,
            override : Nat \cup {Payslip!NoOverride}, bonusMonth : BOOLEAN, s : FigureSettings]
    BY DEF IsMonth
  <1>3. IsFiniteSet(less.records) /\ IsFiniteSet(less.leaves)
    BY <1>1, FS_Subset DEF IsMonth
  <1>. QED
    BY <1>1, <1>2, <1>3 DEF IsMonth

(* What is earned in a month, and what in the same month with less.        *)
EarnsMore(n, m) ==
  /\ n.s = m.s /\ n.bonusMonth = m.bonusMonth
  /\ Payslip!EffectivePresent(n) \in Nat /\ Payslip!EffectivePresent(m) \in Nat
  /\ Payslip!EffectivePresent(n) <= Payslip!EffectivePresent(m)
  /\ Payslip!Gross(n) <= Payslip!Gross(m)
  /\ Payslip!EffectiveBasic(n) \in Nat /\ Payslip!EffectiveBasic(m) \in Nat
  /\ Payslip!EffectiveBasic(n) <= Payslip!EffectiveBasic(m)
  /\ Payslip!EffectiveBasic(m) - Payslip!EffectiveBasic(n) <= Payslip!Gross(m) - Payslip!Gross(n)

LEMMA RecordEarns ==
  ASSUME IsSetting, Offset \in 0..1439, NEW m, IsMonth(m), IsMonthOfOne(m), NEW n, IsMonth(n),
         NEW r \in m.records, n.records = m.records \ {r}, n.leaves = m.leaves,
         n.workingDays = m.workingDays, n.override = m.override,
         n.bonusMonth = m.bonusMonth, n.s = m.s
  PROVE  EarnsMore(n, m)
  <1>. DEFINE W == m.workingDays
              paid == Payslip!PaidLeaveDays(m.leaves)
              P == Payslip!DaysPresent(m.records)
              Q == Payslip!DaysPresent(n.records)
              B == m.s.basic
              daily == Payslip!Round(B, 30)
              over == m.s.overtimeRate
  <1>1. IsFiniteSet(m.records) /\ m.records \subseteq RecordType /\ W \in Nat /\ m.s \in FigureSettings
        /\ m.override \in Nat \cup {Payslip!NoOverride}
    BY DEF IsMonth
  <1>2. B \in Nat /\ over \in Nat /\ m.s.allowances \in Nat
    BY <1>1 DEF FigureSettings
  <1>3. /\ Payslip!DaysPresent(n.records) <= Payslip!DaysPresent(m.records)
        /\ Payslip!OvertimeHours(n.records) <= Payslip!OvertimeHours(m.records)
    BY <1>1, RecordLess
  <1>4. P \in Nat /\ Q \in Nat /\ Q <= P
    BY <1>3, DaysInt
  <1>5. paid \in Nat
    BY PaidNat
  <1>6. /\ Payslip!EffectivePresent(m) = IF P + paid <= W THEN P + paid ELSE W
        /\ Payslip!EffectivePresent(n) = IF Q + paid <= W THEN Q + paid ELSE W
    <2>1. /\ Payslip!EffectivePresent(m) = Payslip!AtMost(P + paid, W)
          /\ Payslip!EffectivePresent(n) = Payslip!AtMost(Q + paid, W)
      BY Zenon DEF Payslip!EffectivePresent
    <2>. HIDE DEF P, Q, paid, W
    <2>. QED
      BY <1>1, <1>4, <1>5, <2>1, AtMostIs
  <1>. DEFINE em == Payslip!EffectivePresent(m)
              en == Payslip!EffectivePresent(n)
  <1>7. em \in Nat /\ en \in Nat /\ en <= em /\ em <= W
    <2>. HIDE DEF P, Q, paid, W
    <2>. QED
      BY <1>1, <1>4, <1>5, <1>6
  <1>8. Payslip!DaysAbsent(m) = W - em /\ Payslip!DaysAbsent(n) = W - en
    <2>1. /\ Payslip!DaysAbsent(m) = Payslip!AtLeastNil(W - em)
          /\ Payslip!DaysAbsent(n) = Payslip!AtLeastNil(W - en)
      BY Zenon DEF Payslip!DaysAbsent
    <2>. HIDE DEF W, em, en
    <2>. QED
      BY <1>1, <1>7, <2>1, AtLeastNilIs
  <1>. DEFINE am == Payslip!AbsenceDeduction(m)
              an == Payslip!AbsenceDeduction(n)
  <1>9. am \in Nat /\ an \in Nat /\ am <= an
    <2>1. am = daily * (W - em) /\ an = daily * (W - en)
      BY <1>8 DEF Payslip!AbsenceDeduction
    <2>2. am \in Nat /\ an \in Nat
      BY FiguresTyped
    <2>3. daily \in Nat
      BY <1>2, RoundNat
    <2>. HIDE DEF daily, W, em, en, am, an
    <2>4. (W - em) * daily <= (W - en) * daily
      BY <1>1, <1>7, <2>3, Products
    <2>5. (W - em) * daily = daily * (W - em) /\ (W - en) * daily = daily * (W - en)
      BY <1>1, <1>7, <2>3
    <2>. QED
      BY <2>1, <2>2, <2>4, <2>5
  <1>. DEFINE om == Payslip!OvertimePay(m)
              on == Payslip!OvertimePay(n)
  <1>10. om \in Nat /\ on \in Nat /\ on <= om
    <2>. DEFINE hm == IF m.override = Payslip!NoOverride THEN Payslip!OvertimeHours(m.records) ELSE m.override
                hn == IF m.override = Payslip!NoOverride THEN Payslip!OvertimeHours(n.records) ELSE m.override
    <2>1. om = Payslip!Round(hm * over, 100) /\ on = Payslip!Round(hn * over, 100)
      BY DEF Payslip!OvertimePay
    <2>2. Payslip!OvertimeHours(m.records) \in Nat /\ Payslip!OvertimeHours(n.records) \in Nat
      BY OvertimeNat DEF IsMonth
    <2>3. hm \in Nat /\ hn \in Nat /\ hn <= hm
      BY <1>1, <1>3, <2>2
    <2>4. om \in Nat /\ on \in Nat
      BY FiguresTyped
    <2>. HIDE DEF hm, hn, om, on, over
    <2>5. hm * over \in Nat /\ hn * over \in Nat /\ hn * over <= hm * over
      BY <1>2, <2>3, Products
    <2>6. Payslip!Round(hn * over, 100) <= Payslip!Round(hm * over, 100)
      BY <2>5, RoundMonotone
    <2>. QED
      BY <2>1, <2>4, <2>6
  <1>11. /\ Payslip!Gross(m) = B + m.s.allowances + om - am
         /\ Payslip!Gross(n) = B + m.s.allowances + on - an
    BY Zenon DEF Payslip!Gross
  <1>12. /\ Payslip!EffectiveBasic(m) = Payslip!AtLeastNil(B - am)
         /\ Payslip!EffectiveBasic(n) = Payslip!AtLeastNil(B - an)
    BY Zenon DEF Payslip!EffectiveBasic
  <1>. DEFINE A == m.s.allowances
              gm == Payslip!Gross(m)
              gn == Payslip!Gross(n)
  <1>. HIDE DEF B, A, am, an, om, on, gm, gn
  <1>13. /\ Payslip!AtLeastNil(B - am) = IF B - am >= 0 THEN B - am ELSE 0
         /\ Payslip!AtLeastNil(B - an) = IF B - an >= 0 THEN B - an ELSE 0
    BY <1>2, <1>9, AtLeastNilIs
  <1>14. gm - gn = (om - on) + (an - am) /\ gn <= gm
    BY <1>2, <1>9, <1>10, <1>11 DEF A, gm, gn
  <1>15. /\ Payslip!EffectiveBasic(n) \in Nat /\ Payslip!EffectiveBasic(m) \in Nat
         /\ Payslip!EffectiveBasic(n) <= Payslip!EffectiveBasic(m)
         /\ Payslip!EffectiveBasic(m) - Payslip!EffectiveBasic(n) <= gm - gn
    BY <1>2, <1>9, <1>10, <1>12, <1>13, <1>14
  <1>. QED
    BY <1>7, <1>14, <1>15 DEF EarnsMore, gm, gn
LEMMA NetIs ==
  ASSUME IsSetting, NEW m, IsMonth(m)
  PROVE  LET rest == Payslip!Gross(m) + Payslip!DashainBonus(m) - Payslip!RawDeductions(m)
         IN Payslip!Net(m) = IF rest >= 0 THEN rest ELSE 0
  <1>. DEFINE g == Payslip!Gross(m)
              b == Payslip!DashainBonus(m)
              raw == Payslip!RawDeductions(m)
              total == Payslip!TotalDeductions(m)
  <1>1. g \in Int /\ b \in Nat /\ raw \in Nat
    BY FiguresTyped
  <1>2. total = Payslip!AtMost(raw, g + b) /\ Payslip!Net(m) = Payslip!AtLeastNil(g + b - total)
    BY Zenon DEF Payslip!TotalDeductions, Payslip!Net
  <1>. HIDE DEF g, b, raw, total
  <1>3. total = IF raw <= g + b THEN raw ELSE g + b
    BY <1>1, <1>2, AtMostIs
  <1>4. g + b - total \in Int
    BY <1>1, <1>3
  <1>5. Payslip!Net(m) = IF g + b - total >= 0 THEN g + b - total ELSE 0
    BY <1>2, <1>4, AtLeastNilIs
  <1>6. Payslip!Net(m) = IF g + b - raw >= 0 THEN g + b - raw ELSE 0
    BY <1>1, <1>3, <1>5
  <1>. QED
    BY <1>6 DEF g, b, raw

LEMMA NetGrows ==
  ASSUME IsSetting, IsValidated, NEW m, IsMonth(m), NEW n, IsMonth(n), EarnsMore(n, m),
         ContributionsFit(m.s), Payslip!Gross(n) > 0
  PROVE  Payslip!Net(n) < Payslip!Net(m) + 100
  <1>. DEFINE gm == Payslip!Gross(m)
              gn == Payslip!Gross(n)
              em == Payslip!EffectiveBasic(m)
              en == Payslip!EffectiveBasic(n)
              bonus == Payslip!DashainBonus(m)
              sm == Payslip!EmployeeSsf(m)
              sn == Payslip!EmployeeSsf(n)
              pm == Payslip!EmployeePf(m)
              pn == Payslip!EmployeePf(n)
              xm == Payslip!Taxable(m)
              xn == Payslip!Taxable(n)
              tm == Payslip!Tax(m)
              tn == Payslip!Tax(n)
              fixed == Payslip!Cit(m) + Payslip!Advance(m)
              ssfRate == IF m.s.ssf THEN m.s.ssfRate ELSE 0
              pfRate == IF m.s.pf THEN m.s.pfRate ELSE 0
  <1>1. /\ gm \in Int /\ gn \in Int /\ gn > 0 /\ gn <= gm /\ em \in Nat /\ en \in Nat /\ en <= em
        /\ em - en <= gm - gn /\ n.s = m.s /\ n.bonusMonth = m.bonusMonth
    BY FiguresTyped DEF EarnsMore
  <1>2. m.s \in FigureSettings
    BY DEF IsMonth
  <1>3. /\ ssfRate \in Nat /\ pfRate \in Nat /\ ssfRate + pfRate <= 100
        /\ m.s.ssf \in BOOLEAN /\ m.s.pf \in BOOLEAN /\ m.s.tds \in BOOLEAN /\ m.s.married \in BOOLEAN
        /\ m.s.ssfRate \in Nat /\ m.s.pfRate \in Nat
    BY <1>2 DEF FigureSettings, ContributionsFit
  <1>4. /\ sm \in Nat /\ sn \in Nat /\ pm \in Nat /\ pn \in Nat /\ xm \in Int /\ xn \in Int
        /\ tm \in Nat /\ tn \in Nat /\ bonus \in Nat /\ fixed \in Nat
    <2>1. /\ Deductions(m) \subseteq Nat /\ Deductions(n) \subseteq Nat /\ bonus \in Nat
          /\ xm \in Int /\ xn \in Int
      BY FiguresTyped
    <2>2. Payslip!Cit(m) \in Nat /\ Payslip!Advance(m) \in Nat
      BY <2>1 DEF Deductions
    <2>. QED
      BY <2>1, <2>2 DEF Deductions
  <1>5. \A a : Payslip!IfEarning(m, a) = a /\ Payslip!IfEarning(n, a) = a
    <2>1. gm > 0
      BY <1>1
    <2>. QED
      BY <1>1, <2>1 DEF Payslip!IfEarning
  <1>6. Payslip!Cit(n) = Payslip!Cit(m) /\ Payslip!Advance(n) = Payslip!Advance(m)
        /\ Payslip!DashainBonus(n) = bonus
    BY <1>1, <1>5 DEF Payslip!Cit, Payslip!Advance, Payslip!DashainBonus
  <1>7. 100 * (sm - sn) <= ssfRate * (em - en) + 99 /\ sn <= sm
    <2>1. CASE m.s.ssf
      <3>1. sm = Payslip!Percent(em, m.s.ssfRate) /\ sn = Payslip!Percent(en, m.s.ssfRate)
        BY <1>1, <1>5, <2>1 DEF Payslip!EmployeeSsf
      <3>2. ssfRate = m.s.ssfRate
        BY <2>1
      <3>. HIDE DEF sm, sn, em, en, ssfRate
      <3>. QED
        BY <1>1, <1>3, <3>1, <3>2, ShareGrows
    <2>2. CASE ~m.s.ssf
      <3>1. sm = 0 /\ sn = 0 /\ ssfRate = 0
        BY <1>1, <2>2 DEF Payslip!EmployeeSsf
      <3>. HIDE DEF sm, sn, em, en, ssfRate
      <3>. QED
        BY <1>1, <3>1
    <2>. QED
      BY <2>1, <2>2
  <1>8. 100 * (pm - pn) <= pfRate * (em - en) + 99 /\ pn <= pm
    <2>1. CASE m.s.pf
      <3>1. pm = Payslip!Percent(em, m.s.pfRate) /\ pn = Payslip!Percent(en, m.s.pfRate)
        BY <1>1, <1>5, <2>1 DEF Payslip!EmployeePf
      <3>2. pfRate = m.s.pfRate
        BY <2>1
      <3>. HIDE DEF pm, pn, em, en, pfRate
      <3>. QED
        BY <1>1, <1>3, <3>1, <3>2, ShareGrows
    <2>2. CASE ~m.s.pf
      <3>1. pm = 0 /\ pn = 0 /\ pfRate = 0
        BY <1>1, <2>2 DEF Payslip!EmployeePf
      <3>. HIDE DEF pm, pn, em, en, pfRate
      <3>. QED
        BY <1>1, <3>1
    <2>. QED
      BY <2>1, <2>2
  <1>9. (sm - sn) + (pm - pn) <= em - en + 1
    <2>. HIDE DEF sm, sn, pm, pn, em, en, ssfRate, pfRate
    <2>. DEFINE grown == em - en
                p == sm - sn
                q == pm - pn
    <2>1. grown \in Nat /\ p \in Int /\ q \in Int
      BY <1>1, <1>4
    <2>2. 100 * p <= ssfRate * grown + 99 /\ 100 * q <= pfRate * grown + 99
      BY <1>7, <1>8
    <2>. HIDE DEF grown, p, q
    <2>3. p + q <= grown + 1
      BY <1>3, <2>1, <2>2, SharesGrow
    <2>. QED
      BY <2>3 DEF grown, p, q
  <1>10. xm - xn = (gm - gn) - (sm - sn) - (pm - pn)
    <2>. DEFINE c == Payslip!Cit(m)
    <2>1. /\ xm = gm + bonus - sm - pm - c
          /\ xn = gn + bonus - sn - pn - c
      BY <1>6, Zenon DEF Payslip!Taxable
    <2>2. c \in Nat
      BY FiguresTyped DEF Deductions
    <2>. HIDE DEF gm, gn, sm, sn, pm, pn, xm, xn, bonus, c
    <2>. QED
      BY <1>1, <1>4, <2>1, <2>2
  <1>11. (xn <= xm => tm - tn < xm - xn + 100) /\ (xm <= xn => tm <= tn)
    <2>1. CASE m.s.tds
      <3>. DEFINE married == m.s.married
                  ssf == m.s.ssf
      <3>1. /\ tm = Payslip!Tds(12 * xm, married, ssf)
            /\ tn = Payslip!Tds(12 * xn, married, ssf)
        BY <1>1, <1>5, <2>1, Zenon DEF Payslip!Tax
      <3>2. married \in BOOLEAN /\ ssf \in BOOLEAN
        BY <1>3
      <3>. HIDE DEF tm, tn, xm, xn, married, ssf
      <3>. QED
        BY <1>4, <3>1, <3>2, TaxGrows
    <2>2. CASE ~m.s.tds
      <3>1. tm = 0 /\ tn = 0
        BY <1>1, <2>2 DEF Payslip!Tax
      <3>. HIDE DEF tm, tn, xm, xn
      <3>. QED
        BY <1>4, <3>1
    <2>. QED
      BY <2>1, <2>2
  <1>. DEFINE rm == Payslip!RawDeductions(m)
              rn == Payslip!RawDeductions(n)
  <1>12. rm = sm + pm + fixed + tm /\ rn = sn + pn + fixed + tn
    <2>. DEFINE c == Payslip!Cit(m)
                a == Payslip!Advance(m)
    <2>1. rm = sm + pm + c + a + tm /\ rn = sn + pn + c + a + tn
      BY <1>6, Zenon DEF Payslip!RawDeductions
    <2>2. c \in Nat /\ a \in Nat
      BY FiguresTyped DEF Deductions
    <2>3. fixed = c + a
      OBVIOUS
    <2>. HIDE DEF sm, sn, pm, pn, tm, tn, rm, rn, c, a, fixed
    <2>. QED
      BY <1>4, <2>1, <2>2, <2>3
  <1>13. /\ Payslip!Net(m) = IF gm + bonus - rm >= 0 THEN gm + bonus - rm ELSE 0
         /\ Payslip!Net(n) = IF gn + bonus - rn >= 0 THEN gn + bonus - rn ELSE 0
    BY <1>6, NetIs
  <1>. HIDE DEF gm, gn, sm, sn, pm, pn, tm, tn, xm, xn, bonus, fixed, em, en, rm, rn
  <1>14. rm - rn < gm - gn + 100
    <2>1. CASE xn <= xm
      BY <1>1, <1>4, <1>10, <1>11, <1>12, <2>1
    <2>2. CASE xm <= xn
      BY <1>1, <1>4, <1>9, <1>11, <1>12, <2>2
    <2>. QED
      BY <1>4, <2>1, <2>2
  <1>15. rm \in Int /\ rn \in Int
    BY <1>4, <1>12
  <1>. QED
    BY <1>1, <1>4, <1>13, <1>14, <1>15

(* For every month, whatever is earned: a day of attendance more is never  *)
(* paid a rupee less, the rupee the tax is rounded to, unless the day      *)
(* before earned nothing and so had nothing deducted. Contributions of     *)
(* more than all of the basic salary are left out, which nothing forbids   *)
(* (payroll.service.ts:400-433, payroll.schema.ts:11-15).                  *)
THEOREM PayslipPresencePays ==
  ASSUME IsSetting, IsValidated, Offset \in 0..1439, NEW m, IsMonth(m), IsMonthOfOne(m),
         ContributionsFit(m.s)
  PROVE  Payslip!PresencePays(m)
  <1>. SUFFICES ASSUME NEW r \in m.records
                PROVE  LET less == [m EXCEPT !.records = @ \ {r}] IN
                       \/ Payslip!NetSalary(less) < Payslip!NetSalary(m) + Payslip!Rupee
                       \/ Payslip!Attended(less) /\ Payslip!Gross(less) <= 0
    BY Zenon DEF Payslip!PresencePays
  <1>. DEFINE n == [m EXCEPT !.records = @ \ {r}]
  <1>1. /\ IsMonth(n) /\ n.records = m.records \ {r} /\ n.leaves = m.leaves
        /\ n.workingDays = m.workingDays /\ n.override = m.override
        /\ n.bonusMonth = m.bonusMonth /\ n.s = m.s
    BY MonthLess
  <1>. HIDE DEF n
  <1>2. EarnsMore(n, m)
    BY <1>1, RecordEarns
  <1>3. Payslip!Net(m) \in Nat /\ Payslip!Net(n) \in Nat
    <2>1. /\ Payslip!Gross(m) \in Int /\ Payslip!DashainBonus(m) \in Nat /\ Payslip!RawDeductions(m) \in Nat
          /\ Payslip!Gross(n) \in Int /\ Payslip!DashainBonus(n) \in Nat /\ Payslip!RawDeductions(n) \in Nat
      BY <1>1, FiguresTyped
    <2>. QED
      BY <1>1, <2>1, NetIs
  <1>4. Payslip!Attended(n) => Payslip!Attended(m)
    BY <1>2 DEF EarnsMore, Payslip!Attended
  <1>5. Payslip!Gross(n) > 0 => Payslip!Net(n) < Payslip!Net(m) + 100
    BY <1>1, <1>2, NetGrows
  <1>6. Payslip!Gross(n) \in Int
    BY <1>1, FiguresTyped
  <1>7. \/ Payslip!NetSalary(n) < Payslip!NetSalary(m) + Payslip!Rupee
        \/ Payslip!Attended(n) /\ Payslip!Gross(n) <= 0
    BY <1>3, <1>4, <1>5, <1>6 DEF Payslip!NetSalary, Payslip!Rupee
  <1>. QED
    BY <1>7 DEF n

(* The payslip of every month is consistent with itself, with the month it *)
(* is of, and with the payslip of the same month with a day less           *)
(* (payroll.service.ts:78-117, 336-433, 1240-1340).                        *)
THEOREM PayslipIsSound ==
  ASSUME IsSetting, IsValidated, Offset \in 0..1439, NEW m, IsMonth(m), IsMonthOfOne(m),
         ContributionsFit(m.s)
  PROVE  Payslip!PayslipSound(m)
  BY PayslipAddsUp, PayslipAbsenceBounded, PayslipPresencePays, PayslipDaysCounted,
     PayslipTaxMarginal, Zenon DEF Payslip!PayslipSound

(* Of whichever month it is asked, the payslip stays sound: what it is     *)
(* given does not change (payroll.service.ts:316-470).                     *)
THEOREM PartsPayslipSound == PartsSpec => []PayslipSound
  <1>. DEFINE Given == part \in DOMAIN Inputs /\ input \in Inputs[part]
  <1>1. PartsInit => Given
    BY DEF PartsInit
  <1>2. Given /\ [PartsNext]_partsVars => Given'
    <2>. SUFFICES ASSUME Given, [PartsNext]_partsVars PROVE Given'
      OBVIOUS
    <2>1. UNCHANGED <<part, input>>
      BY DEF PartsNext, partsVars
    <2>. QED
      BY <2>1
  <1>3. Given => PayslipSound
    <2>. SUFFICES ASSUME Given, part = "payslip" PROVE Payslip!PayslipSound(input)
      BY DEF PayslipSound
    <2>1. IsMonth(input) /\ IsMonthOfOne(input) /\ ContributionsFit(input.s)
      BY PayslipAssumption
    <2>. QED
      BY <2>1, PayslipAssumption, PayslipIsSound
  <1>. HIDE DEF Given
  <1>. QED
    BY <1>1, <1>2, <1>3, PTL DEF PartsSpec

-----------------------------------------------------------------------------
(* The reports and the roster: what Reports computes, for every history of *)
(* records, every clock at or ahead of Greenwich, every threshold and date.*)

LEMMA CountIs == \A S : Reports!Cardinality(S) = Cardinality(S)
  BY Zenon DEF Reports!Cardinality, Cardinality

LEMMA LateOnesNotified ==
  ASSUME NEW history, IsReport(input), \A r \in history : IsReported(r)
  PROVE  Reports!LateAgrees(history)
  <1>1. ASSUME NEW r \in history PROVE Reports!SinceStart(r) \in Int
    BY ReportsAssumption DEF Reports!SinceStart, IsReported, Reports!Minutes
  <1>2. ASSUME NEW r \in history
        PROVE  /\ Reports!Notified(r) => Reports!Late(r)
               /\ input.threshold # 0 => (Reports!Late(r) => Reports!Notified(r))
    <2>1. input.threshold \in Nat
      BY DEF IsReport
    <2>. QED
      BY <1>1, <2>1 DEF Reports!Notified, Reports!Late
  <1>. QED
    BY <1>2, Zenon DEF Reports!LateAgrees

(* The date of a time, by the server's clock and by Greenwich's.           *)
LEMMA DayIs ==
  ASSUME NEW t \in Int, NEW day \in Int, 1440 * day <= t, t < 1440 * day + 1440
  PROVE  t \div 1440 = day
  OBVIOUS

LEMMA DayOfTime ==
  ASSUME NEW t \in Int
  PROVE  /\ t \div 1440 \in Int /\ t % 1440 \in 0..1439
         /\ t = 1440 * (t \div 1440) + (t % 1440)
  <1>1. t \div 1440 \in Int
    OBVIOUS
  <1>2. t % 1440 \in 0..1439
    OBVIOUS
  <1>3. t = 1440 * (t \div 1440) + (t % 1440)
    OBVIOUS
  <1>. QED
    BY <1>1, <1>2, <1>3

LEMMA DatesOf ==
  ASSUME IsReport(input), NEW t \in Int
  PROVE  /\ Reports!LocalDay(t) \in Int /\ t % Reports!Minutes \in 0..1439
         /\ Reports!IsoDay(t) = IF t % Reports!Minutes < input.offset
                                THEN Reports!LocalDay(t) - 1 ELSE Reports!LocalDay(t)
         /\ ~Reports!Ahead => Reports!IsoDay(t) = Reports!LocalDay(t)
  <1>. DEFINE day == t \div 1440
              minute == t % 1440
              off == input.offset
              iso == IF minute < off THEN day - 1 ELSE day
  <1>1. day \in Int /\ minute \in 0..1439 /\ t = 1440 * day + minute
    BY DayOfTime
  <1>2. off \in 0..1439
    BY DEF IsReport
  <1>. HIDE DEF day, minute, off
  <1>3. iso \in Int /\ t - off \in Int /\ 1440 * iso <= t - off /\ t - off < 1440 * iso + 1440
    <2>1. t - off = 1440 * day + minute - off /\ t - off \in Int
      BY <1>1, <1>2
    <2>2. CASE minute < off
      BY <1>1, <1>2, <2>1, <2>2
    <2>3. CASE ~(minute < off)
      BY <1>1, <1>2, <2>1, <2>3
    <2>. QED
      BY <2>2, <2>3
  <1>. DEFINE back == t - off
  <1>. HIDE DEF iso, back
  <1>3a. back \div 1440 = iso
    <2>1. back \in Int /\ iso \in Int /\ 1440 * iso <= back /\ back < 1440 * iso + 1440
      BY <1>3 DEF back
    <2>. QED
      BY <2>1, DayIs
  <1>4. (t - off) \div 1440 = iso
    BY <1>3a DEF back
  <1>5. Reports!LocalDay(t) = day /\ t % Reports!Minutes = minute
    BY DEF Reports!LocalDay, Reports!Minutes, day, minute
  <1>6. Reports!IsoDay(t) = iso
    BY <1>4 DEF Reports!IsoDay, Reports!Minutes, off
  <1>7. iso = IF minute < input.offset THEN day - 1 ELSE day
    BY DEF iso, off
  <1>8. ~Reports!Ahead => iso = day
    <2>1. off <= 0 => ~(minute < off)
      BY <1>1, <1>2
    <2>2. ~Reports!Ahead => off <= 0
      BY <1>2 DEF Reports!Ahead, off
    <2>. QED
      BY <2>1, <2>2 DEF iso
  <1>. QED
    BY <1>1, <1>5, <1>6, <1>7, <1>8

LEMMA MidnightIs ==
  ASSUME IsReport(input), NEW day \in Int
  PROVE  /\ Reports!Midnight(day) \in Int
         /\ Reports!IsoDay(Reports!Midnight(day)) = IF Reports!Ahead THEN day - 1 ELSE day
         /\ Reports!IsoDay(Reports!Midnight(day) - 1) = day - 1
  <1>. DEFINE off == input.offset
              iso == IF off > 0 THEN day - 1 ELSE day
              midnight == day * 1440
  <1>1. off \in 0..1439
    BY DEF IsReport
  <1>. HIDE DEF off
  <1>2. /\ midnight \in Int /\ iso \in Int /\ midnight - off \in Int /\ midnight - 1 - off \in Int
        /\ 1440 * iso <= midnight - off /\ midnight - off < 1440 * iso + 1440
        /\ 1440 * (day - 1) <= midnight - 1 - off /\ midnight - 1 - off < 1440 * (day - 1) + 1440
    BY <1>1
  <1>. HIDE DEF iso, midnight
  <1>3. (midnight - off) \div 1440 = iso /\ (midnight - 1 - off) \div 1440 = day - 1
    BY <1>2, DayIs
  <1>. QED
    BY <1>2, <1>3 DEF Reports!Midnight, Reports!IsoDay, Reports!Minutes, Reports!Ahead, midnight, iso, off

LEMMA RowsAreDays ==
  ASSUME NEW history, IsReport(input), \A r \in history : IsReported(r)
  PROVE  Reports!WeekShowsDays(history)
  <1>. SUFFICES ASSUME Reports!Early(history) = {}, NEW i \in 0..6
       PROVE  LET shown == IF Reports!Ahead THEN i - 1 ELSE i
                  row == Reports!Weekly(history, 0).rows[i]
                  daily == Reports!Daily(history, shown)
              IN IF shown < 0 THEN row.counted = {}
                 ELSE /\ row.counted = Reports!OfDays(history, shown, shown)
                      /\ row.present = Reports!Cardinality(daily.present)
                      /\ row.hours = Reports!Tenths(daily.minutes)
    BY Zenon DEF Reports!WeekShowsDays
  <1>. DEFINE shown == IF Reports!Ahead THEN i - 1 ELSE i
              queried == Reports!OfDays(history, 0, 6)
              counted == {r \in queried : Reports!IsoDay(r.in) = Reports!IsoDay(Reports!Midnight(i))}
              row == Reports!DayRow(queried, i)
  <1>1. Reports!Weekly(history, 0).rows[i] = row
    BY DEF Reports!Weekly
  <1>2. /\ row.counted = counted /\ row.present = Reports!Cardinality(Reports!MembersOf(counted))
        /\ row.hours = Reports!Tenths(Reports!Worked(counted))
    BY DEF Reports!DayRow
  <1>3. Reports!IsoDay(Reports!Midnight(i)) = shown
    BY MidnightIs
  <1>4. ASSUME NEW r \in history
        PROVE  Reports!LocalDay(r.in) \in Int /\ Reports!IsoDay(r.in) = Reports!LocalDay(r.in)
    <2>1. ~(r.in % Reports!Minutes < input.offset) /\ r.in \in Int
      BY DEF Reports!Early, IsReported
    <2>. QED
      BY <2>1, DatesOf
  <1>5. shown < 0 => counted = {}
    BY <1>3, <1>4 DEF Reports!OfDays
  <1>6. ~(shown < 0) => counted = Reports!OfDays(history, shown, shown)
    <2>. SUFFICES ASSUME ~(shown < 0)
         PROVE  \A r \in history : Reports!LocalDay(r.in) \in 0..6 /\ Reports!IsoDay(r.in) = shown
                                   <=> Reports!LocalDay(r.in) \in shown..shown
      BY <1>3, Zenon DEF Reports!OfDays
    <2>1. shown \in 0..6
      OBVIOUS
    <2>. HIDE DEF shown
    <2>. QED
      BY <1>4, <2>1
  <1>7. /\ Reports!Daily(history, shown).present = Reports!MembersOf(Reports!OfDays(history, shown, shown))
        /\ Reports!Daily(history, shown).minutes = Reports!Worked(Reports!OfDays(history, shown, shown))
    <2>. HIDE DEF shown
    <2>. QED
      BY DEF Reports!Daily
  <1>. HIDE DEF row, counted, queried
  <1>. QED
    BY <1>1, <1>2, <1>5, <1>6, <1>7

(* Which days the rows of a month's weeks have.                            *)
LEMMA RowsOfWeeks ==
  ASSUME IsReport(input), NEW days \in 28..31, NEW i \in 0..((days - 1) \div 7), NEW r
  PROVE  Reports!InWeek(r, 7 * i, days - 1) <=>
           IF Reports!Ahead
           THEN /\ Reports!IsoDay(r.in) >= 7 * i - 1
                /\ Reports!IsoDay(r.in) <= IF 7 * i + 6 >= days THEN days - 1 ELSE 7 * i + 5
           ELSE /\ Reports!IsoDay(r.in) >= 7 * i
                /\ Reports!IsoDay(r.in) <= IF 7 * i + 6 >= days THEN days - 1 ELSE 7 * i + 6
  <1>1. i \in Int /\ 7 * i \in Int /\ 7 * i + 6 \in Int /\ days \in Int
    OBVIOUS
  <1>. DEFINE from == Reports!IsoDay(Reports!Midnight(7 * i))
              to == Reports!IsoDay(Reports!WeekEnd(7 * i, days - 1))
  <1>2. from = IF Reports!Ahead THEN 7 * i - 1 ELSE 7 * i
    BY <1>1, MidnightIs
  <1>3. to = IF 7 * i + 6 >= days THEN days - 1 ELSE IF Reports!Ahead THEN 7 * i + 5 ELSE 7 * i + 6
    <2>1. Reports!Midnight(7 * i + 6) > Reports!Midnight(days - 1 + 1) - 1 <=> 7 * i + 6 >= days
      BY <1>1 DEF Reports!Midnight, Reports!Minutes
    <2>2. days - 1 + 1 = days
      OBVIOUS
    <2>3. Reports!WeekEnd(7 * i, days - 1) =
            IF 7 * i + 6 >= days THEN Reports!Midnight(days) - 1 ELSE Reports!Midnight(7 * i + 6)
      BY <2>1, <2>2, Zenon DEF Reports!WeekEnd
    <2>4. Reports!IsoDay(Reports!Midnight(days) - 1) = days - 1
      BY <1>1, MidnightIs
    <2>5. Reports!IsoDay(Reports!Midnight(7 * i + 6)) =
            IF Reports!Ahead THEN 7 * i + 6 - 1 ELSE 7 * i + 6
      BY <1>1, MidnightIs
    <2>. QED
      BY <1>1, <2>3, <2>4, <2>5
  <1>4. Reports!InWeek(r, 7 * i, days - 1) <=> Reports!IsoDay(r.in) >= from /\ Reports!IsoDay(r.in) <= to
    BY DEF Reports!InWeek
  <1>. HIDE DEF from, to
  <1>. QED
    BY <1>2, <1>3, <1>4

LEMMA WeeksHaveAll ==
  ASSUME NEW history, IsReport(input), \A r \in history : IsReported(r), NEW days \in 28..31
  PROVE  Reports!WeeksCover(history, days)
  <1>. DEFINE queried == Reports!OfDays(history, 0, days - 1)
              weeks == Reports!Monthly(history, 0, days).weeks
              last == (days - 1) \div 7
              lost == {r \in queried : Reports!Ahead /\ days = 28 /\ Reports!IsoDay(r.in) = 27}
  <1>1. days \in Int /\ last = (IF days = 28 THEN 3 ELSE 4)
    OBVIOUS
  <1>2. weeks = [i \in 0..last |-> Reports!WeekRow(queried, 7 * i, days - 1)]
    <2>1. 0 + days - 1 = days - 1 /\ \A i \in 0..last : 0 + 7 * i = 7 * i
      OBVIOUS
    <2>. QED
      BY <2>1 DEF Reports!Monthly
  <1>3. \A i \in 0..last : weeks[i].counted = {r \in queried : Reports!InWeek(r, 7 * i, days - 1)}
    <2>. HIDE DEF queried, weeks, last
    <2>. QED
      BY <1>2 DEF Reports!WeekRow
  <1>4. SUFFICES ASSUME NEW r \in queried
        PROVE  Reports!Cardinality({i \in DOMAIN weeks : r \in weeks[i].counted})
               = IF r \in lost THEN 0 ELSE 1
    <2>1. Reports!WeeksCover(history, days) =
            (\A r \in queried : Reports!Cardinality({i \in DOMAIN weeks : r \in weeks[i].counted})
                              = IF r \in lost THEN 0 ELSE 1)
      BY DEF Reports!WeeksCover
    <2>. HIDE DEF queried, weeks, lost
    <2>. QED
      BY <2>1
  <1>. DEFINE iso == Reports!IsoDay(r.in)
              rows == {i \in 0..last : Reports!InWeek(r, 7 * i, days - 1)}
  <1>5. {i \in DOMAIN weeks : r \in weeks[i].counted} = rows
    BY <1>2, <1>3
  <1>6. iso \in Int /\ iso <= days - 1 /\ IF Reports!Ahead THEN iso >= -1 ELSE iso >= 0
    <2>1. r.in \in Int /\ Reports!LocalDay(r.in) \in 0..(days - 1)
      BY DEF Reports!OfDays, IsReported
    <2>. DEFINE t == r.in
    <2>2. t \in Int
      BY <2>1
    <2>. HIDE DEF t
    <2>3. /\ Reports!LocalDay(t) \in Int
          /\ Reports!IsoDay(t) = Reports!LocalDay(t) \/ Reports!IsoDay(t) = Reports!LocalDay(t) - 1
          /\ ~Reports!Ahead => Reports!IsoDay(t) = Reports!LocalDay(t)
      BY <2>2, DatesOf
    <2>. QED
      BY <1>1, <2>1, <2>3 DEF t
  <1>7. \A i \in 0..last : i \in rows <=>
          IF Reports!Ahead
          THEN iso >= 7 * i - 1 /\ iso <= IF 7 * i + 6 >= days THEN days - 1 ELSE 7 * i + 5
          ELSE iso >= 7 * i /\ iso <= IF 7 * i + 6 >= days THEN days - 1 ELSE 7 * i + 6
    BY RowsOfWeeks
  <1>8. r \in lost <=> Reports!Ahead /\ days = 28 /\ iso = 27
    OBVIOUS
  <1>. HIDE DEF iso, rows, lost, weeks, queried, last
  <1>9. CASE r \in lost
    <2>1. rows = {}
      <3>1. \A i \in 0..3 : ~(27 <= IF 7 * i + 6 >= 28 THEN 27 ELSE 7 * i + 5)
        OBVIOUS
      <3>. QED
        BY <1>1, <1>7, <1>8, <1>9, <3>1 DEF rows
    <2>. QED
      BY <1>5, <1>9, <2>1, FS_EmptySet, CountIs
  <1>10. CASE r \notin lost
    <2>. DEFINE week == IF Reports!Ahead THEN (iso + 1) \div 7 ELSE iso \div 7
                here == IF week <= last THEN week ELSE last
    <2>1. rows = {here}
      <3>1. here \in 0..last
        BY <1>1, <1>6
      <3>2. \A i \in 0..last : i \in rows <=> i = here
        <4>1. CASE Reports!Ahead
          BY <1>1, <1>6, <1>7, <1>8, <1>10, <4>1
        <4>2. CASE ~Reports!Ahead
          BY <1>1, <1>6, <1>7, <1>8, <1>10, <4>2
        <4>. QED
          BY <4>1, <4>2
      <3>3. rows \subseteq 0..last
        BY DEF rows
      <3>. HIDE DEF here
      <3>. QED
        BY <3>1, <3>2, <3>3
    <2>. QED
      BY <1>5, <1>10, <2>1, FS_Singleton, CountIs
  <1>. QED
    BY <1>9, <1>10

LEMMA DaysPresentWithin ==
  ASSUME NEW history, IsReport(input), IsFiniteSet(history), \A r \in history : IsReported(r),
         NEW days \in 28..31
  PROVE  Reports!DaysWithin(history, days)
  <1>. DEFINE queried == Reports!OfDays(history, 0, days - 1)
              month == Reports!Monthly(history, 0, days)
  <1>1. SUFFICES ASSUME NEW m \in ReportedStaff,
                        \A r \in Reports!Early(history) : ~(r.member = m /\ Reports!LocalDay(r.in) = 0)
                 PROVE  ~(month.daysAbsent[m] < 0)
    BY Zenon DEF Reports!DaysWithin
  <1>. DEFINE mine == {r \in queried : r.member = m}
              dates == {Reports!IsoDay(r.in) : r \in mine}
  <1>2. month.daysAbsent[m] = days - Reports!Cardinality(dates)
    <2>1. 0 + days - 1 = days - 1
      OBVIOUS
    <2>2. month.daysAbsent[m] = days - Reports!Stats(queried)[m].days
      BY <2>1 DEF Reports!Monthly
    <2>3. Reports!Stats(queried)[m].days = Reports!Cardinality(dates)
      <3>. HIDE DEF queried
      <3>. QED
        BY DEF Reports!Stats
    <2>. QED
      BY <2>2, <2>3
  <1>3. dates \subseteq 0..(days - 1)
    <2>. SUFFICES ASSUME NEW r \in mine PROVE Reports!IsoDay(r.in) \in 0..(days - 1)
      OBVIOUS
    <2>. DEFINE t == r.in
    <2>1. /\ t \in Int /\ Reports!LocalDay(t) \in 0..(days - 1)
          /\ r \in history /\ r.member = m
      BY DEF Reports!OfDays, IsReported
    <2>2. Reports!LocalDay(t) = 0 => ~(t % Reports!Minutes < input.offset)
      BY <1>1, <2>1 DEF Reports!Early
    <2>. HIDE DEF t
    <2>3. /\ Reports!LocalDay(t) \in Int
          /\ Reports!IsoDay(t) = IF t % Reports!Minutes < input.offset
                                 THEN Reports!LocalDay(t) - 1 ELSE Reports!LocalDay(t)
      BY <2>1, DatesOf
    <2>. QED
      BY <2>1, <2>2, <2>3 DEF t
  <1>. HIDE DEF dates, month, mine, queried
  <1>4. Cardinality(dates) \in Nat /\ Cardinality(dates) <= days
    <2>1. IsFiniteSet(0..(days - 1)) /\ Cardinality(0..(days - 1)) = days
      BY FS_Interval
    <2>2. IsFiniteSet(dates) /\ Cardinality(dates) <= days
      BY <1>3, <2>1, FS_Subset
    <2>. QED
      BY <2>2, FS_CardinalityType
  <1>. QED
    BY <1>2, <1>4, CountIs

(* A sum of values that are all below a number is no more than so often    *)
(* that number, less one.                                                  *)
LEMMA SumAtMost ==
  ASSUME NEW S, IsFiniteSet(S), NEW g \in [S -> Nat], NEW k \in Nat, \A x \in S : g[x] <= k,
         NEW it, SumsTo(it, g, S)
  PROVE  it[S] \in Nat /\ it[S] <= Cardinality(S) * k
  <1>. DEFINE P == {s \in SUBSET S : it[s] \in Nat /\ it[s] <= Cardinality(s) * k}
  <1>1. ASSUME NEW s \in SUBSET S, \A t \in SUBSET s : t # s => t \in P
        PROVE  s \in P
    <2>1. it[s] = IF s = {} THEN 0 ELSE g[Pick(s)] + it[s \ {Pick(s)}]
      BY DEF SumsTo
    <2>2. CASE s = {}
      BY <2>1, <2>2, FS_EmptySet
    <2>3. CASE s # {}
      <3>. DEFINE x == Pick(s)
                  t == s \ {x}
      <3>1. x \in s /\ t \in P /\ g[x] \in Nat /\ g[x] <= k
        BY <1>1, <2>3, PickIn
      <3>2. IsFiniteSet(s) /\ IsFiniteSet(t)
        BY FS_Subset
      <3>3. Cardinality(s) = Cardinality(t) + 1 /\ Cardinality(t) \in Nat
        <4>. HIDE DEF x
        <4>. QED
          BY <3>1, <3>2, FS_RemoveElement, FS_CardinalityType
      <3>4. it[s] = g[x] + it[t]
        BY <2>1, <2>3
      <3>5. it[t] \in Nat /\ it[t] <= Cardinality(t) * k
        BY <3>1
      <3>. HIDE DEF x, t
      <3>. DEFINE c == Cardinality(t)
                  p == c * k
      <3>6. (c + 1) * k = p + k /\ p \in Int
        BY <3>3
      <3>7. it[s] \in Nat /\ it[s] <= p + k
        <4>. HIDE DEF p
        <4>1. it[t] <= p
          BY <3>5 DEF p
        <4>. QED
          BY <3>1, <3>4, <3>5, <3>6, <4>1
      <3>8. it[s] <= Cardinality(s) * k
        BY <3>3, <3>6, <3>7
      <3>. QED
        BY <3>7, <3>8
    <2>. QED
      BY <2>2, <2>3
  <1>. HIDE DEF P
  <1>2. P = SUBSET S
    <2>1. P \in SUBSET (SUBSET S)
      BY DEF P
    <2>. QED
      BY <1>1, <2>1, SubsetInduction
  <1>. QED
    BY <1>2 DEF P

LEMMA QuotientBelow ==
  ASSUME NEW n \in Nat, NEW d \in Nat \ {0}
  PROVE  n \div d \in Nat /\ d * (n \div d) <= n
  OBVIOUS

MinutesTable(S) == CHOOSE it : it = [s \in SUBSET S |->
  IF s = {} THEN 0 ELSE Pick(s).duration + it[s \ {Pick(s)}]]
MinutesIn(S) == [r \in S |-> r.duration]
Over(history) == {r \in history : Reports!IsClosed(r)}

LEMMA MinutesSummed ==
  ASSUME NEW history, IsFiniteSet(history)
  PROVE  LET S == Over(history) IN
         /\ IsFiniteSet(S) /\ SumsTo(MinutesTable(S), MinutesIn(S), S)
         /\ Reports!Worked(history) = MinutesTable(S)[S]
  <1>. DEFINE S == Over(history)
              Eq(it) == it = [s \in SUBSET S |->
                IF s = {} THEN 0 ELSE Pick(s).duration + it[s \ {Pick(s)}]]
  <1>1. \A s \in SUBSET S : s # {} => MinutesIn(S)[Pick(s)] = Pick(s).duration
    BY PickIn DEF MinutesIn
  <1>2. ASSUME NEW it PROVE Eq(it) <=> SumsTo(it, MinutesIn(S), S)
    BY <1>1 DEF SumsTo
  <1>3. IsFiniteSet(S)
    BY FS_Subset DEF Over
  <1>4. \E it : SumsTo(it, MinutesIn(S), S)
    BY <1>3, SumExists
  <1>5. \E it : Eq(it)
    BY <1>2, <1>4
  <1>6. MinutesTable(S) = CHOOSE it : Eq(it)
    BY DEF MinutesTable
  <1>7. Reports!Worked(history) = MinutesTable(S)[S]
    BY DEF Reports!Worked, Reports!MapThenSumSet, Reports!MapThenFoldSet, Pick, MinutesTable, Over
  <1>. HIDE DEF Eq
  <1>8. Eq(CHOOSE it : Eq(it))
    BY <1>5
  <1>. QED
    BY <1>2, <1>3, <1>6, <1>7, <1>8

LEMMA AverageIsReached ==
  ASSUME NEW history, IsFiniteSet(history), \A r \in history : IsReported(r)
  PROVE  Reports!AverageBounded(history)
  <1>. DEFINE queried == Reports!OfDays(history, 0, 0)
              S == Over(queried)
              out == Reports!HasStatus(queried, "CHECKED_OUT")
              c == Cardinality(out)
              W == Reports!Worked(queried)
              avg == Reports!Rate(W, c)
  <1>1. Reports!Daily(history, 0).average = avg
    BY CountIs DEF Reports!Daily
  <1>2. Reports!AverageBounded(history) =
          ((S # {} /\ \A r \in S : r.duration < avg) => Reports!HasStatus(queried, "AUTO_CLOSED") # {})
    BY <1>1, Zenon DEF Reports!AverageBounded, Over
  <1>3. SUFFICES ASSUME S # {}, \A r \in S : r.duration < avg,
                        Reports!HasStatus(queried, "AUTO_CLOSED") = {}
                 PROVE  FALSE
    BY <1>2, Zenon
  <1>4. IsFiniteSet(queried) /\ \A r \in queried : IsReported(r)
    BY FS_Subset DEF Reports!OfDays
  <1>. HIDE DEF queried
  <1>5. S \subseteq out /\ \A r \in S : r.duration \in Nat
    BY <1>3, <1>4 DEF Over, Reports!HasStatus, IsReported, Reports!IsClosed
  <1>6. /\ IsFiniteSet(S) /\ SumsTo(MinutesTable(S), MinutesIn(S), S) /\ W = MinutesTable(S)[S]
    BY <1>4, MinutesSummed
  <1>7. /\ Cardinality(S) \in Nat \ {0} /\ c \in Nat /\ Cardinality(S) <= c
    <2>1. IsFiniteSet(out)
      BY <1>4, FS_Subset DEF Reports!HasStatus
    <2>. HIDE DEF S, out
    <2>2. Cardinality(S) # 0
      BY <1>3, <1>6, FS_EmptySet
    <2>. QED
      BY <1>5, <1>6, <2>1, <2>2, FS_Subset, FS_CardinalityType
  <1>8. W \in Nat
    <2>1. MinutesIn(S) \in [S -> Nat]
      BY <1>5 DEF MinutesIn
    <2>. HIDE DEF S, W
    <2>. QED
      BY <1>6, <2>1, SumNat
  <1>9. avg = (2 * W + c) \div (2 * c)
    <2>. HIDE DEF W, c
    <2>. QED
      BY <1>7, <1>8 DEF Reports!Rate, Reports!Round
  <1>. HIDE DEF out, W, c, avg
  <1>10. avg \in Nat /\ (2 * c) * avg <= 2 * W + c
    <2>1. 2 * W + c \in Nat /\ 2 * c \in Nat \ {0}
      BY <1>7, <1>8
    <2>. DEFINE n == 2 * W + c
                d == 2 * c
    <2>. HIDE DEF n, d
    <2>2. n \in Nat /\ d \in Nat \ {0} /\ avg = n \div d
      BY <1>9, <2>1 DEF n, d
    <2>3. avg \in Nat /\ d * avg <= n
      BY <2>2, QuotientBelow
    <2>. QED
      BY <2>3 DEF n, d
  <1>11. avg > 0
    BY <1>3, <1>5, <1>10
  <1>12. W <= Cardinality(S) * (avg - 1)
    <2>1. MinutesIn(S) \in [S -> Nat] /\ \A r \in S : MinutesIn(S)[r] <= avg - 1
      BY <1>3, <1>5, <1>10 DEF MinutesIn
    <2>2. avg - 1 \in Nat
      BY <1>10, <1>11
    <2>. HIDE DEF S
    <2>. QED
      BY <1>6, <2>1, <2>2, SumAtMost
  <1>13. Cardinality(S) * (avg - 1) <= c * (avg - 1)
    <2>1. avg - 1 \in Nat
      BY <1>10, <1>11
    <2>. QED
      BY <1>7, <2>1, Products
  <1>14. c * (avg - 1) = c * avg - c /\ (2 * c) * avg = 2 * (c * avg) /\ c * avg \in Int
    BY <1>7, <1>10
  <1>. DEFINE ca == c * avg
              cs == Cardinality(S) * (avg - 1)
  <1>15. cs \in Int
    BY <1>7, <1>10
  <1>16. ca \in Int /\ W <= cs /\ cs <= ca - c /\ 2 * ca <= 2 * W + c
    BY <1>10, <1>12, <1>13, <1>14
  <1>. HIDE DEF ca, cs
  <1>. QED
    BY <1>7, <1>8, <1>15, <1>16

LEMMA ReportsAgree ==
  ASSUME NEW history, IsReport(input), IsFiniteSet(history), \A r \in history : IsReported(r)
  PROVE  Reports!ReportsSound(history)
  BY RowsAreDays, AverageIsReached, LateOnesNotified, WeeksHaveAll, DaysPresentWithin, Zenon
     DEF Reports!ReportsSound

-----------------------------------------------------------------------------
(* The roster. The days of a year before a month.                          *)
MonthsBefore(month) == 1..(month - 1)
DaysTable(year, S) == CHOOSE it : it = [s \in SUBSET S |->
  IF s = {} THEN 0 ELSE Reports!DaysInMonth(year, Pick(s)) + it[s \ {Pick(s)}]]
DaysIn(year, S) == [m \in S |-> Reports!DaysInMonth(year, m)]
DaysBefore(year, month) == DaysTable(year, MonthsBefore(month))[MonthsBefore(month)]

LEMMA MonthHas ==
  ASSUME NEW year \in Int, NEW month
  PROVE  Reports!DaysInMonth(year, month) \in 28..31
  <1>1. CASE month = 2
    BY <1>1 DEF Reports!DaysInMonth
  <1>2. CASE month # 2 /\ month \in {4, 6, 9, 11}
    BY <1>2 DEF Reports!DaysInMonth
  <1>3. CASE month # 2 /\ month \notin {4, 6, 9, 11}
    BY <1>3 DEF Reports!DaysInMonth
  <1>. QED
    BY <1>1, <1>2, <1>3

LEMMA DaysSummed ==
  ASSUME NEW year \in Int, NEW month \in Nat \ {0}
  PROVE  LET S == MonthsBefore(month) IN
         /\ IsFiniteSet(S) /\ SumsTo(DaysTable(year, S), DaysIn(year, S), S)
         /\ \A day : Reports!DayNumber(year, month, day) =
               365 * (year - 2023) + (year - 2021) \div 4 + DaysBefore(year, month) + day - 1
  <1>. DEFINE S == MonthsBefore(month)
              Eq(it) == it = [s \in SUBSET S |->
                IF s = {} THEN 0 ELSE Reports!DaysInMonth(year, Pick(s)) + it[s \ {Pick(s)}]]
  <1>1. \A s \in SUBSET S : s # {} => DaysIn(year, S)[Pick(s)] = Reports!DaysInMonth(year, Pick(s))
    BY PickIn DEF DaysIn
  <1>2. ASSUME NEW it PROVE Eq(it) <=> SumsTo(it, DaysIn(year, S), S)
    BY <1>1 DEF SumsTo
  <1>3. IsFiniteSet(S)
    BY FS_Interval DEF MonthsBefore
  <1>4. \E it : SumsTo(it, DaysIn(year, S), S)
    BY <1>3, SumExists
  <1>5. \E it : Eq(it)
    BY <1>2, <1>4
  <1>6. DaysTable(year, S) = CHOOSE it : Eq(it)
    BY DEF DaysTable
  <1>7. ASSUME NEW day
        PROVE  Reports!DayNumber(year, month, day) =
                 365 * (year - 2023) + (year - 2021) \div 4 + DaysBefore(year, month) + day - 1
    BY Zenon DEF Reports!DayNumber, Reports!MapThenSumSet, Reports!MapThenFoldSet, Pick, DaysTable,
           DaysBefore, MonthsBefore
  <1>. HIDE DEF Eq
  <1>8. Eq(CHOOSE it : Eq(it))
    BY <1>5
  <1>. QED
    BY <1>2, <1>3, <1>6, <1>7, <1>8

(* Of January there are none, and before any other month all of January.   *)
LEMMA DaysBeforeIs ==
  ASSUME NEW year \in Int, NEW month \in Nat \ {0}
  PROVE  /\ DaysBefore(year, month) \in Nat
         /\ month = 1 => DaysBefore(year, month) = 0
         /\ month # 1 => DaysBefore(year, month) >= 28
  <1>. DEFINE S == MonthsBefore(month)
              it == DaysTable(year, S)
              g == DaysIn(year, S)
  <1>1. IsFiniteSet(S) /\ SumsTo(it, g, S)
    BY DaysSummed
  <1>2. g \in [S -> Nat] /\ g \in [S -> Int]
    BY MonthHas DEF DaysIn
  <1>3. month = 1 => S = {}
    BY DEF MonthsBefore
  <1>4. month # 1 => 1 \in S
    BY DEF MonthsBefore
  <1>5. 1 \in S => g[1] >= 28
    BY MonthHas DEF DaysIn
  <1>. HIDE DEF S, it, g
  <1>6. it[S] \in Nat
    BY <1>1, <1>2, SumNat
  <1>7. S = {} => it[S] = 0
    BY <1>1 DEF SumsTo
  <1>8. ASSUME 1 \in S PROVE it[S] >= 28
    <2>1. it[S] = g[1] + it[S \ {1}]
      BY <1>1, <1>2, <1>8, SumWithout
    <2>. DEFINE T == S \ {1}
    <2>2. it[T] \in Nat
      <3>1. IsFiniteSet(T) /\ T \subseteq S
        BY <1>1, FS_Subset
      <3>2. PICK jt : SumsTo(jt, [x \in T |-> g[x]], T)
        BY <3>1, SumExists
      <3>3. jt[T] \in Nat
        <4>1. [x \in T |-> g[x]] \in [T -> Nat]
          BY <1>2
        <4>. HIDE DEF T
        <4>. QED
          BY <3>1, <3>2, <4>1, SumNat
      <3>4. SumsTo(jt, g, T)
        <4>1. \A s \in SUBSET T : s # {} => [x \in T |-> g[x]][Pick(s)] = g[Pick(s)]
          BY PickIn
        <4>. QED
          BY <3>2, <4>1 DEF SumsTo
      <3>5. it[T] = jt[T]
        <4>. HIDE DEF T
        <4>. QED
          BY <1>1, <3>1, <3>4, SumsAgree
      <3>. QED
        BY <3>3, <3>5
    <2>3. g[1] \in Nat /\ g[1] >= 28
      BY <1>2, <1>5, <1>8
    <2>. HIDE DEF T
    <2>4. it[S] = g[1] + it[T]
      BY <2>1 DEF T
    <2>. QED
      BY <2>2, <2>3, <2>4
  <1>9. DaysBefore(year, month) = it[S]
    BY DEF DaysBefore, S, it
  <1>. QED
    BY <1>3, <1>4, <1>6, <1>7, <1>8, <1>9

(* The days of a month follow its first, in the first week of January only *)
(* if the month is January.                                                *)
LEMMA DaysNumbered ==
  ASSUME NEW year \in Int, NEW month \in Nat \ {0}
  PROVE  /\ Reports!DayNumber(year, month, 1) \in Int
         /\ \A day \in Int :
              Reports!DayNumber(year, month, day) = Reports!DayNumber(year, month, 1) + day - 1
         /\ Reports!DayNumber(year, month, 1) = Reports!DayNumber(year, 1, 1) + DaysBefore(year, month)
  <1>. DEFINE y == 365 * (year - 2023) + (year - 2021) \div 4
  <1>1. year \in Int /\ y \in Int /\ 1 \in Nat \ {0}
    OBVIOUS
  <1>2. \A day : Reports!DayNumber(year, month, day) = y + DaysBefore(year, month) + day - 1
    BY <1>1, DaysSummed
  <1>3. Reports!DayNumber(year, 1, 1) = y + DaysBefore(year, 1) + 1 - 1
    BY <1>1, DaysSummed
  <1>. HIDE DEF y
  <1>4. DaysBefore(year, month) \in Nat /\ DaysBefore(year, 1) = 0
    <2>1. DaysBefore(year, month) \in Nat
      BY <1>1, DaysBeforeIs, Zenon
    <2>. DEFINE first == 1
    <2>2. first \in Nat \ {0} /\ first = 1
      OBVIOUS
    <2>. HIDE DEF first
    <2>3. DaysBefore(year, first) = 0
      BY <1>1, <2>2, DaysBeforeIs, Zenon
    <2>. QED
      BY <2>1, <2>2, <2>3
  <1>. QED
    BY <1>1, <1>2, <1>3, <1>4

LEMMA SundayIs ==
  ASSUME NEW date, IsDate(date)
  PROVE  /\ Reports!DayOf(date) \in Int
         /\ Reports!Sunday(date) \in Int /\ Reports!Weekday(Reports!Sunday(date)) = 0
         /\ Reports!Sunday(date) <= Reports!DayOf(date)
         /\ Reports!DayOf(date) <= Reports!Sunday(date) + 6
  <1>. DEFINE d == Reports!DayOf(date)
  <1>1. d \in Int
    <2>1. date.year \in Int /\ date.month \in Nat \ {0} /\ date.day \in Int
      <3>1. date.year \in Int
        BY DEF IsDate
      <3>. QED
        BY <3>1, MonthHas DEF IsDate
    <2>2. d = Reports!DayNumber(date.year, date.month, date.day)
      BY DEF Reports!DayOf
    <2>. DEFINE y == date.year
                m == date.month
                n == date.day
    <2>3. y \in Int /\ m \in Nat \ {0} /\ n \in Int
      BY <2>1
    <2>. HIDE DEF y, m, n, d
    <2>4. /\ Reports!DayNumber(y, m, 1) \in Int
          /\ Reports!DayNumber(y, m, n) = Reports!DayNumber(y, m, 1) + n - 1
      BY <2>3, DaysNumbered, Zenon
    <2>. QED
      BY <2>2, <2>3, <2>4 DEF y, m, n
  <1>. HIDE DEF d
  <1>2. /\ d % 7 \in 0..6 /\ d - (d % 7) \in Int /\ (d - (d % 7)) % 7 = 0
    BY <1>1
  <1>3. Reports!Sunday(date) = d - (d % 7)
    BY DEF Reports!Sunday, Reports!Weekday, d
  <1>. DEFINE w == d % 7
              sunday == d - w
  <1>4. w \in 0..6 /\ sunday \in Int /\ sunday % 7 = 0 /\ Reports!Sunday(date) = sunday
    BY <1>2, <1>3
  <1>5. sunday = d - w
    OBVIOUS
  <1>. HIDE DEF w, sunday
  <1>6. sunday <= d /\ d <= sunday + 6
    BY <1>1, <1>4, <1>5
  <1>. QED
    BY <1>1, <1>4, <1>6 DEF Reports!Weekday, d

LEMMA UpTo ==
  ASSUME NEW n \in Nat
  PROVE  IsFiniteSet(0..n) /\ Cardinality(0..n) = n + 1
  BY FS_Interval

(* A week from a Sunday has each weekday once.                             *)
LEMMA WeekHasEach ==
  ASSUME NEW sunday \in Int, sunday % 7 = 0, NEW D \in SUBSET (0..6)
  PROVE  /\ IsFiniteSet(D) /\ Cardinality(D) \in Nat
         /\ Cardinality({day \in sunday..(sunday + 7 - 1) : day % 7 \in D}) = Cardinality(D)
  <1>. DEFINE marked == {day \in sunday..(sunday + 7 - 1) : day % 7 \in D}
              f == [k \in D |-> sunday + k]
  <1>1. ASSUME NEW k \in 0..6 PROVE (sunday + k) % 7 = k
    BY <1>1
  <1>2. \A day \in marked : \E k \in D : day = sunday + k
    <2>. SUFFICES ASSUME NEW day \in marked PROVE day - sunday \in D /\ day = sunday + (day - sunday)
      OBVIOUS
    <2>1. day \in Int /\ day - sunday \in 0..6 /\ day = sunday + (day - sunday)
      OBVIOUS
    <2>2. day % 7 = day - sunday
      BY <1>1, <2>1
    <2>. QED
      BY <2>1, <2>2
  <1>3. \A k \in D : sunday + k \in marked
    BY <1>1
  <1>4. f \in Bijection(D, marked)
    <2>1. f \in [D -> marked]
      BY <1>3
    <2>2. \A day \in marked : \E k \in D : f[k] = day
      BY <1>2
    <2>3. \A k, l \in D : f[k] = f[l] => k = l
      OBVIOUS
    <2>. HIDE DEF f, marked
    <2>. QED
      BY <2>1, <2>2, <2>3 DEF Bijection, Surjection, Injection, IsInjective
  <1>5. IsFiniteSet(D)
    <2>. DEFINE six == 6
    <2>1. six \in Nat /\ D \subseteq 0..six
      OBVIOUS
    <2>. HIDE DEF six
    <2>2. IsFiniteSet(0..six)
      BY <2>1, UpTo
    <2>. QED
      BY <2>1, <2>2, FS_Subset
  <1>. HIDE DEF marked, f
  <1>6. Cardinality(marked) = Cardinality(D)
    BY <1>4, <1>5, FS_Bijection DEF ExistsBijection
  <1>. QED
    BY <1>5, <1>6, FS_CardinalityType DEF marked

(* Where a month's roster starts.                                          *)
LEMMA MonthlyRoster ==
  ASSUME NEW date, IsDate(date)
  PROVE  LET y == date.year
             m == date.month
             first == Reports!DayNumber(y, 1, 1)
             astray == m = 1 /\ Reports!Sunday(date) < first
             start == Reports!RosterStart("monthly", date)
         IN /\ start \in Int
            /\ IF astray THEN start = Reports!DayNumber(y - 1, 1, 1)
                         ELSE start = Reports!DayNumber(y, m, 1)
            /\ Reports!RosterLength("monthly", date) = Reports!DaysInMonth(y, m)
            /\ Reports!DaysInMonth(y, m) \in 28..31
            /\ m = 1 => Reports!DaysInMonth(y, m) = 31
  <1>. DEFINE y == date.year
              m == date.month
              n == date.day
              first == Reports!DayNumber(y, 1, 1)
              sunday == Reports!Sunday(date)
  <1>1. y \in 2023..2099 /\ m \in 1..12 /\ n \in 1..Reports!DaysInMonth(y, m)
    BY DEF IsDate
  <1>2. Reports!DayOf(date) = Reports!DayNumber(y, m, n)
    BY DEF Reports!DayOf
  <1>3. Reports!RosterLength("monthly", date) = Reports!DaysInMonth(y, m)
    BY DEF Reports!RosterLength
  <1>4. Reports!RosterStart("monthly", date) =
          Reports!DayNumber(IF sunday < first THEN y - 1 ELSE y, m, 1)
    BY DEF Reports!RosterStart, Reports!YearOfSunday
  <1>5. /\ Reports!DayOf(date) \in Int /\ sunday \in Int
        /\ sunday <= Reports!DayOf(date) /\ Reports!DayOf(date) <= sunday + 6
    BY SundayIs
  <1>. HIDE DEF y, m, n, first, sunday
  <1>6. Reports!DaysInMonth(y, m) \in 28..31
    BY <1>1, MonthHas
  <1>7. m = 1 => Reports!DaysInMonth(y, m) = 31
    BY DEF Reports!DaysInMonth
  <1>a. y \in Int /\ m \in Nat \ {0} /\ n \in Int /\ 1 \in Nat \ {0}
    BY <1>1, <1>6
  <1>8. /\ Reports!DayNumber(y, m, 1) \in Int
        /\ Reports!DayNumber(y, m, n) = Reports!DayNumber(y, m, 1) + n - 1
        /\ Reports!DayNumber(y, m, 1) = first + DaysBefore(y, m)
    BY <1>a, DaysNumbered, Zenon DEF first
  <1>9. /\ DaysBefore(y, m) \in Nat /\ (m # 1 => DaysBefore(y, m) >= 28)
    BY <1>a, DaysBeforeIs, Zenon
  <1>10. first \in Int
    BY <1>a, DaysNumbered, Zenon DEF first
  <1>11. sunday < first => m = 1
    BY <1>1, <1>2, <1>5, <1>6, <1>8, <1>9, <1>10
  <1>12. m = 1 => Reports!DayNumber(y - 1, m, 1) \in Int
    <2>1. y - 1 \in Int
      BY <1>1
    <2>. QED
      BY <1>a, <2>1, DaysNumbered, Zenon
  <1>13. CASE sunday < first
    BY <1>3, <1>4, <1>6, <1>7, <1>11, <1>12, <1>13 DEF y, m, first, sunday
  <1>14. CASE ~(sunday < first)
    BY <1>3, <1>4, <1>6, <1>7, <1>8, <1>14 DEF y, m, first, sunday
  <1>. QED
    BY <1>13, <1>14

(* Pages of sixteen columns.                                               *)
LEMMA PageHolds ==
  ASSUME NEW start \in Int, NEW days \in Nat
  PROVE  LET all == start..(start + days - 1)
             page(day) == (day - start) \div 16
             pages == [p \in {page(day) : day \in all} |-> {day \in all : page(day) = p}]
         IN /\ UNION {pages[p] : p \in DOMAIN pages} = all
            /\ \A p \in DOMAIN pages : Cardinality(pages[p]) <= 16
  <1>. DEFINE all == start..(start + days - 1)
              page(day) == (day - start) \div 16
              numbers == {page(day) : day \in all}
              on(p) == {day \in all : page(day) = p}
              pages == [p \in numbers |-> on(p)]
  <1>1. UNION {pages[p] : p \in DOMAIN pages} = all
    <2>1. \A p \in numbers : pages[p] \subseteq all
      OBVIOUS
    <2>2. \A day \in all : page(day) \in numbers /\ day \in pages[page(day)]
      OBVIOUS
    <2>3. DOMAIN pages = numbers
      OBVIOUS
    <2>. HIDE DEF all, numbers, pages
    <2>. QED
      BY <2>1, <2>2, <2>3
  <1>2. ASSUME NEW p \in DOMAIN pages PROVE Cardinality(pages[p]) <= 16
    <2>1. p \in Int
      <3>1. PICK day \in all : p = page(day)
        OBVIOUS
      <3>2. day - start \in Int
        BY <3>1
      <3>. QED
        BY <3>1, <3>2
    <2>. DEFINE from == start + 16 * p
    <2>2. from \in Int
      BY <2>1
    <2>3. pages[p] \subseteq from..(from + 15)
      <3>. SUFFICES ASSUME NEW day \in all, page(day) = p PROVE day \in from..(from + 15)
        OBVIOUS
      <3>. DEFINE k == day - start
      <3>1. k \in Int /\ k \div 16 = p /\ day = start + k
        OBVIOUS
      <3>. HIDE DEF k
      <3>2. 16 * p <= k /\ k < 16 * p + 16
        BY <3>1
      <3>. QED
        BY <2>1, <3>1, <3>2
    <2>. HIDE DEF from, pages
    <2>4. IsFiniteSet(from..(from + 15)) /\ Cardinality(from..(from + 15)) = 16
      <3>1. from + 15 \in Int /\ from + 15 - from + 1 = 16 /\ from <= from + 15
        BY <2>2
      <3>. QED
        BY <2>2, <3>1, FS_Interval
    <2>5. IsFiniteSet(pages[p]) /\ Cardinality(pages[p]) <= 16
      BY <2>3, <2>4, FS_Subset
    <2>. QED
      BY <2>5
  <1>. QED
    BY <1>1, <1>2

LEMMA RosterIsSound ==
  ASSUME NEW date, IsDate(date)
  PROVE  Reports!RosterSound(date)
  <1>. DEFINE y == date.year
              m == date.month
              first == Reports!DayNumber(y, 1, 1)
              sunday == Reports!Sunday(date)
              astray == m = 1 /\ sunday < first
              length == Reports!DaysInMonth(y, m)
              start == Reports!RosterStart("monthly", date)
              monthly == Reports!RosterDays("monthly", date)
              weekly == Reports!RosterDays("weekly", date)
  <1>1. /\ Reports!DayOf(date) \in Int /\ sunday \in Int /\ sunday % 7 = 0
        /\ sunday <= Reports!DayOf(date) /\ Reports!DayOf(date) <= sunday + 6
    BY SundayIs DEF Reports!Weekday
  <1>2. /\ start \in Int /\ length \in 28..31 /\ (m = 1 => length = 31)
        /\ IF astray THEN start = Reports!DayNumber(y - 1, 1, 1)
                     ELSE start = Reports!DayNumber(y, m, 1)
        /\ Reports!RosterLength("monthly", date) = length
    BY MonthlyRoster
  <1>3. monthly = start..(start + length - 1)
    BY <1>2 DEF Reports!RosterDays
  <1>4. weekly = sunday..(sunday + 7 - 1)
    BY DEF Reports!RosterDays, Reports!RosterStart, Reports!RosterLength
  <1>5. Reports!RosterDays("fortnightly", date) = sunday..(sunday + 14 - 1)
    BY DEF Reports!RosterDays, Reports!RosterStart, Reports!RosterLength
  <1>6. /\ Reports!DayOf(date) \in weekly
        /\ Reports!DayOf(date) \in Reports!RosterDays("fortnightly", date)
    <2>. HIDE DEF sunday, weekly
    <2>. QED
      BY <1>1, <1>4, <1>5
  <1>7. monthly = IF astray THEN {Reports!DayNumber(y - 1, 1, d) : d \in 1..31}
                  ELSE {Reports!DayNumber(y, m, d) : d \in 1..length}
    <2>1. y \in Int /\ y - 1 \in Int /\ m \in Nat \ {0} /\ 1 \in Nat \ {0}
      BY DEF IsDate
    <2>2. /\ \A d \in Int : Reports!DayNumber(y, m, d) = Reports!DayNumber(y, m, 1) + d - 1
          /\ Reports!DayNumber(y, m, 1) \in Int
      <3>. HIDE DEF y, m
      <3>. QED
        BY <2>1, DaysNumbered, Zenon
    <2>3. /\ \A d \in Int : Reports!DayNumber(y - 1, 1, d) = Reports!DayNumber(y - 1, 1, 1) + d - 1
          /\ Reports!DayNumber(y - 1, 1, 1) \in Int
      <3>. HIDE DEF y
      <3>. QED
        BY <2>1, DaysNumbered, Zenon
    <2>4. ASSUME NEW s \in Int, NEW n \in Nat
          PROVE  s..(s + n - 1) = {s + d - 1 : d \in 1..n}
      <3>1. \A k \in s..(s + n - 1) : k - s + 1 \in 1..n /\ k = s + (k - s + 1) - 1
        OBVIOUS
      <3>2. \A d \in 1..n : s + d - 1 \in s..(s + n - 1)
        OBVIOUS
      <3>. QED
        BY <3>1, <3>2
    <2>. HIDE DEF y, m, length, start, monthly, first, sunday
    <2>5. CASE astray
      <3>1. length = 31 /\ start = Reports!DayNumber(y - 1, 1, 1)
        BY <1>2, <2>5
      <3>2. {Reports!DayNumber(y - 1, 1, d) : d \in 1..31} = {start + d - 1 : d \in 1..31}
        <4>1. \A d \in 1..31 : Reports!DayNumber(y - 1, 1, d) = start + d - 1
          BY <2>3, <3>1
        <4>. QED
          BY <4>1, Zenon
      <3>3. monthly = {start + d - 1 : d \in 1..31}
        BY <1>2, <1>3, <2>4, <3>1
      <3>. QED
        BY <2>5, <3>2, <3>3
    <2>6. CASE ~astray
      <3>1. start = Reports!DayNumber(y, m, 1)
        BY <1>2, <2>6
      <3>2. {Reports!DayNumber(y, m, d) : d \in 1..length} = {start + d - 1 : d \in 1..length}
        <4>1. \A d \in 1..length : Reports!DayNumber(y, m, d) = start + d - 1
          BY <1>2, <2>2, <3>1
        <4>. QED
          BY <4>1, Zenon
      <3>3. monthly = {start + d - 1 : d \in 1..length}
        <4>1. start \in Int /\ length \in Nat
          BY <1>2
        <4>. QED
          BY <1>3, <2>4, <4>1, Zenon
      <3>. QED
        BY <2>6, <3>2, <3>3
    <2>. QED
      BY <2>5, <2>6
  <1>8. LET pages == Reports!RosterPages("monthly", date) IN
        /\ UNION {pages[p] : p \in DOMAIN pages} = monthly
        /\ \A p \in DOMAIN pages : Reports!Cardinality(pages[p]) <= 16
    <2>. DEFINE all == start..(start + length - 1)
                pages == [p \in {(day - start) \div 16 : day \in all} |->
                           {day \in all : (day - start) \div 16 = p}]
    <2>1. Reports!RosterPages("monthly", date) = pages
      <3>1. monthly = all
        BY <1>3
      <3>. HIDE DEF all
      <3>. QED
        BY <3>1, Zenon DEF Reports!RosterPages
    <2>. HIDE DEF start, length
    <2>2. /\ UNION {pages[p] : p \in DOMAIN pages} = all
          /\ \A p \in DOMAIN pages : Cardinality(pages[p]) <= 16
      <3>1. start \in Int /\ length \in Nat
        BY <1>2
      <3>. QED
        BY <3>1, PageHolds, Zenon
    <2>. HIDE DEF pages, monthly, all
    <2>3. monthly = all
      BY <1>3 DEF all
    <2>. QED
      BY <2>1, <2>2, <2>3, CountIs
  <1>9. ASSUME NEW own \in {{}, {1, 3}}
        PROVE  Reports!Cardinality(Reports!Marked(weekly, own, 0..5)) = IF own = {} THEN 6 ELSE 2
    <2>. DEFINE D == IF own = {} THEN 0..5 ELSE own
    <2>1. Reports!Marked(weekly, own, 0..5) = {day \in sunday..(sunday + 7 - 1) : day % 7 \in D}
      BY <1>4 DEF Reports!Marked, Reports!Weekday
    <2>2. D \in SUBSET (0..6)
      OBVIOUS
    <2>3. Cardinality(D) = IF own = {} THEN 6 ELSE 2
      <3>. DEFINE five == 5
      <3>0. five \in Nat /\ five = 5
        OBVIOUS
      <3>. HIDE DEF five
      <3>1. Cardinality(0..five) = five + 1
        BY <3>0, UpTo
      <3>2. Cardinality({1, 3}) = 2
        <4>1. Cardinality({1}) = 1 /\ IsFiniteSet({1})
          BY FS_Singleton
        <4>2. Cardinality({1} \cup {3}) = 1 + 1
          BY <4>1, FS_AddElement
        <4>3. {1} \cup {3} = {1, 3}
          OBVIOUS
        <4>. QED
          BY <4>2, <4>3
      <3>. QED
        BY <3>0, <3>1, <3>2
    <2>. HIDE DEF D, sunday, weekly
    <2>4. Cardinality({day \in sunday..(sunday + 7 - 1) : day % 7 \in D}) = Cardinality(D)
      BY <1>1, <2>2, WeekHasEach
    <2>. QED
      BY <2>1, <2>3, <2>4, CountIs
  <1>. QED
    BY <1>6, <1>7, <1>8, <1>9, Zenon DEF Reports!RosterSound

(* Of whichever history of records and whichever date they are asked, the  *)
(* reports agree and the roster has its days (report.service.ts,           *)
(* routes/reports.ts).                                                     *)
THEOREM PartsReportsSound == PartsSpec => []ReportsSound
  <1>. DEFINE Given == part \in DOMAIN Inputs /\ input \in Inputs[part]
  <1>1. PartsInit => Given
    BY DEF PartsInit
  <1>2. Given /\ [PartsNext]_partsVars => Given'
    <2>. SUFFICES ASSUME Given, [PartsNext]_partsVars PROVE Given'
      OBVIOUS
    <2>1. UNCHANGED <<part, input>>
      BY DEF PartsNext, partsVars
    <2>. QED
      BY <2>1
  <1>3. Given => ReportsSound
    <2>. SUFFICES ASSUME Given PROVE ReportsSound
      OBVIOUS
    <2>1. part = "reports" => IsReport(input)
      BY ReportsAssumption
    <2>2. IsReport(input) => Reports!ReportsSound(input.records)
      BY ReportsAgree DEF IsReport
    <2>3. part = "roster" => IsDate(input)
      BY ReportsAssumption
    <2>4. IsDate(input) => Reports!RosterSound(input)
      BY RosterIsSound
    <2>. QED
      BY <2>1, <2>2, <2>3, <2>4, Zenon DEF ReportsSound
  <1>. HIDE DEF Given
  <1>. QED
    BY <1>1, <1>2, <1>3, PTL DEF PartsSpec
=============================================================================
