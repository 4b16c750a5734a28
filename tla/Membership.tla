----------------------------- MODULE Membership -----------------------------
(***************************************************************************)
(* The members of one organisation: created, added from the platform,      *)
(* updated and removed, with the last-admin guard, the employee cap and    *)
(* the employee count that the subscription keeps.                         *)
(*                                                                         *)
(* A handler checks, writes and counts in separate statements. Whoever has *)
(* been an admin may call: a demoted or removed admin keeps the role of    *)
(* his token.                                                              *)
(***************************************************************************)
EXTENDS Integers, FiniteSets

CONSTANTS
  Users,       \* the people who may become members
  Founder,     \* the admin the organisation starts with
  Platform,    \* the users known to other organisations from the start
  Handlers,    \* the concurrent HTTP handlers
  MemberRoles, \* the roles that forms give, ORG_ADMIN among them
  Cap,         \* the plan's limit of employees, 0 for none
  MaxCalls     \* bound on the calls of a behaviour

ASSUME MembershipAssumption ==
  /\ Founder \in Users /\ "ORG_ADMIN" \in MemberRoles
  /\ IsFiniteSet(Users)
  /\ Cap \in Nat /\ MaxCalls \in Nat

Counted == MemberRoles \ {"ORG_ADMIN"}
Switches == {"same", "on", "off"}

None == [role |-> "none"]
Membership == [role : MemberRoles, isActive : BOOLEAN, left : BOOLEAN, pin : {"new", "old", "kept"}]

IdleHandler == [op |-> "idle"]
HandlerStates ==
  {IdleHandler}
  \cup [op : {"create", "add", "reactivate"}, user : Users, role : MemberRoles]
  \cup [op : {"update"}, user : Users, role : MemberRoles \cup {"same"},
        isActive : Switches, was : BOOLEAN]
  \cup [op : {"remove"}, user : Users]
  \cup [op : {"sync", "pin"}, returned : SUBSET Users]
  \cup [op : {"store"}, returned : SUBSET Users, value : Nat]

VARIABLES
  member,        \* user -> org_memberships row, or None; its PIN is "old" once the
                 \* member has left, "kept" when the return failed to replace it
  employeeCount, \* org_subscriptions.currentEmployeeCount
  handler,       \* handler -> what it is in the middle of
  drift,         \* history: the count was left wrong, and no sync has made it good
  contested,     \* history: the guard was passed by, or ran while an admin was going
  overbooked,    \* history: the cap was checked against a count that was not settled
  calls          \* how many calls there have been, for the bound

memberVars == <<member, employeeCount, handler, drift, contested, overbooked, calls>>

MembersTypeOK ==
  /\ member \in [Users -> Membership \cup {None}]
  /\ employeeCount \in Nat
  /\ handler \in [Handlers -> HandlerStates]
  /\ {drift, contested, overbooked} \subseteq BOOLEAN
  /\ calls \in 0..MaxCalls

Present(u) == member[u] # None /\ member[u].isActive /\ ~member[u].left
Admins == {u \in Users : Present(u) /\ member[u].role = "ORG_ADMIN"}
Employees == {u \in Users : Present(u) /\ member[u].role \in Counted}

MembersInit ==
  /\ member = [u \in Users |-> IF u = Founder
                 THEN [role |-> "ORG_ADMIN", isActive |-> TRUE, left |-> FALSE, pin |-> "new"]
                 ELSE None]
  /\ employeeCount = 0
  /\ handler = [h \in Handlers |-> IdleHandler]
  /\ drift = FALSE
  /\ contested = FALSE
  /\ overbooked = FALSE
  /\ calls = 0

Start(h, state) == /\ handler[h] = IdleHandler /\ calls < MaxCalls
                   /\ handler' = [handler EXCEPT ![h] = state]
                   /\ calls' = calls + 1
Become(h, state) == /\ handler' = [handler EXCEPT ![h] = state]
                    /\ UNCHANGED calls

Put(u, row) == member' = [member EXCEPT ![u] = row]

(***************************************************************************)
(* What else is going on, for the history variables.                       *)
(***************************************************************************)
Growing(g) == handler[g].op \in {"create", "add", "reactivate"}
Syncing(g) == handler[g].op \in {"sync", "store"}

(* A write under way that may end an admin: a removal, or one of a row's   *)
(* role or activity, whatever the row was when it was read.                *)
Ending(g) ==
  \/ handler[g].op = "remove"
  \/ handler[g].op = "reactivate" /\ handler[g].role # "ORG_ADMIN"
  \/ handler[g].op = "update" /\ \/ handler[g].role \in Counted
                                 \/ handler[g].isActive = "off"
AnotherEnding(h) == \E g \in Handlers \ {h} : Ending(g)
Unsettled(h) == drift \/ \E g \in Handlers \ {h} : Growing(g) \/ Syncing(g)

(***************************************************************************)
(* Creating a user, and adding one who has an account already.             *)
(***************************************************************************)
(* A mistaken form: the cap itself still lets one in. *)
UnderCapOrAt == Cap = 0 \/ employeeCount <= Cap

UnderCap == Cap = 0 \/ employeeCount < Cap

CreateCheck(h, u, role) ==
  /\ UnderCap
  /\ u \notin Platform /\ member[u] = None
  /\ Start(h, [op |-> "create", user |-> u, role |-> role])
  /\ overbooked' = (overbooked \/ Unsettled(h))
  /\ UNCHANGED <<member, employeeCount, drift, contested>>

AddCheck(h, u, role) ==
  /\ UnderCap
  /\ u \in Platform \/ member[u] # None
  /\ member[u] = None \/ ~Present(u)
  /\ Start(h, [op |-> IF member[u] = None THEN "add" ELSE "reactivate",
               user |-> u, role |-> role])
  /\ overbooked' = (overbooked \/ Unsettled(h))
  /\ contested' = (contested \/ (member[u] # None /\ role # "ORG_ADMIN" /\ AnotherEnding(h)))
  /\ UNCHANGED <<member, employeeCount, drift>>

(* A second membership, or a second account of an e-mail, is refused by    *)
(* the unique keys (see Fail). *)
Insert(h) ==
  /\ handler[h].op \in {"create", "add"}
  /\ LET u == handler[h].user IN
     /\ member[u] = None
     /\ Put(u, [role |-> handler[h].role, isActive |-> TRUE, left |-> FALSE, pin |-> "new"])
     /\ Become(h, [op |-> "sync", returned |-> {}])
  /\ UNCHANGED <<employeeCount, drift, contested, overbooked>>

Reactivate(h) ==
  /\ handler[h].op = "reactivate"
  /\ LET u == handler[h].user IN
     /\ Put(u, [role |-> handler[h].role, isActive |-> TRUE, left |-> FALSE,
                pin |-> member[u].pin])
     /\ Become(h, [op |-> "sync", returned |-> {u}])
  /\ UNCHANGED <<employeeCount, drift, contested, overbooked>>

(* The last statement of a return, and the admin's reset of a PIN. *)
NewPin(u) == Put(u, [member[u] EXCEPT !.pin = "new"])

ReactivatePin(h) ==
  /\ handler[h].op = "pin"
  /\ \E u \in handler[h].returned : NewPin(u)
  /\ Become(h, IdleHandler)
  /\ UNCHANGED <<employeeCount, drift, contested, overbooked>>

ResetAttendancePin(u) ==
  /\ member[u] # None /\ ~member[u].left
  /\ NewPin(u)
  /\ UNCHANGED <<employeeCount, handler, drift, contested, overbooked, calls>>

(***************************************************************************)
(* Updating a member: the last-admin guard looks at demotions only.        *)
(***************************************************************************)
(* A mistaken form: the admin who is ended counts himself. *)
AnotherAdminOrSelf(u) == u \in Users /\ Admins # {}

AnotherAdmin(u) == Admins \ {u} # {}

UpdateCheck(h, u, role, switch) ==
  /\ <<role, switch>> # <<"same", "same">>
  /\ member[u] # None
  /\ (role \in Counted /\ member[u].role = "ORG_ADMIN") => AnotherAdmin(u)
  /\ Start(h, [op |-> "update", user |-> u, role |-> role, isActive |-> switch,
               was |-> member[u].isActive])
  /\ contested' = (contested \/ (Ending(h)' /\ AnotherEnding(h))
                   \/ (switch = "off" /\ Admins = {u}))
  /\ UNCHANGED <<member, employeeCount, drift, overbooked>>

(* A mistaken form: a role the form leaves out is written as well. *)
UpdatedBlank(row, form) ==
  [row EXCEPT !.role = form.role,
              !.isActive = IF form.isActive = "same" THEN @ ELSE form.isActive = "on"]

Updated(row, form) ==
  [row EXCEPT !.role = IF form.role = "same" THEN @ ELSE form.role,
              !.isActive = IF form.isActive = "same" THEN @ ELSE form.isActive = "on"]
Switched(form) == form.isActive # "same" /\ (form.isActive = "on") # form.was

UpdateWrite(h) ==
  /\ handler[h].op = "update"
  /\ LET u == handler[h].user
         row == Updated(member[u], handler[h])
         changed == row.role # member[u].role \/ row.isActive # member[u].isActive IN
     /\ Put(u, row)
     /\ Become(h, IF Switched(handler[h])
                  THEN [op |-> "sync", returned |-> {}] ELSE IdleHandler)
     /\ drift' = (drift \/ (changed /\ ~Switched(handler[h])))
     /\ overbooked' = (overbooked \/ (changed /\ row.isActive /\ row.role \in Counted))
  /\ UNCHANGED <<employeeCount, contested>>

(***************************************************************************)
(* Removing a member.                                                      *)
(***************************************************************************)
(* Another admin calls: once the guard has passed there is one. *)
RemoveCheck(h, u) ==
  /\ member[u] # None
  /\ member[u].role = "ORG_ADMIN" => AnotherAdmin(u)
  /\ Start(h, [op |-> "remove", user |-> u])
  /\ contested' = (contested \/ AnotherEnding(h))
  /\ UNCHANGED <<member, employeeCount, drift, overbooked>>

RemoveWrite(h) ==
  /\ handler[h].op = "remove"
  /\ LET u == handler[h].user IN
     /\ Put(u, [member[u] EXCEPT !.isActive = FALSE, !.left = TRUE, !.pin = "old"])
     /\ Become(h, [op |-> "sync", returned |-> {}])
  /\ UNCHANGED <<employeeCount, drift, contested, overbooked>>

(***************************************************************************)
(* Counting the employees and storing the count.                           *)
(***************************************************************************)
SyncCount(h) ==
  /\ handler[h].op = "sync"
  /\ Become(h, [op |-> "store", returned |-> handler[h].returned,
                value |-> Cardinality(Employees)])
  /\ UNCHANGED <<member, employeeCount, drift, contested, overbooked>>

(* A mistaken form: a return keeps the PIN it finds. *)
SyncedWithoutPin(h) == IF h \in Handlers THEN IdleHandler ELSE handler[h]

Synced(h) == IF handler[h].returned = {} THEN IdleHandler
             ELSE [op |-> "pin", returned |-> handler[h].returned]

(* With no other sync between its statements, a right count is right. *)
Alone(h) == \A g \in Handlers \ {h} : handler[g].op # "store"

SyncStore(h) ==
  /\ handler[h].op = "store"
  /\ employeeCount' = handler[h].value
  /\ Become(h, Synced(h))
  /\ drift' = IF Alone(h) /\ handler[h].value = Cardinality(Employees) THEN FALSE
              ELSE drift \/ ~Alone(h)
  /\ UNCHANGED <<member, contested, overbooked>>

(* A sync that fails is logged and the handler goes on. *)
SyncFail(h) ==
  /\ Syncing(h)
  /\ Become(h, Synced(h))
  /\ drift' = TRUE
  /\ UNCHANGED <<member, employeeCount, contested, overbooked>>

(* Any other statement that throws ends the handler: a unique key is       *)
(* violated, the database is not there.                                    *)
Fail(h) ==
  /\ handler[h] # IdleHandler /\ ~Syncing(h)
  /\ member' = [u \in Users |-> IF handler[h].op = "pin" /\ u \in handler[h].returned
                                 /\ member[u].pin = "old"
                              THEN [member[u] EXCEPT !.pin = "kept"] ELSE member[u]]
  /\ Become(h, IdleHandler)
  /\ UNCHANGED <<employeeCount, drift, contested, overbooked>>

MembersNext ==
  \/ \E h \in Handlers :
       \/ \E u \in Users, role \in MemberRoles : CreateCheck(h, u, role) \/ AddCheck(h, u, role)
       \/ \E u \in Users, role \in MemberRoles \cup {"same"}, switch \in Switches :
            UpdateCheck(h, u, role, switch)
       \/ \E u \in Users : RemoveCheck(h, u)
       \/ Insert(h) \/ Reactivate(h) \/ ReactivatePin(h) \/ UpdateWrite(h) \/ RemoveWrite(h)
       \/ SyncCount(h) \/ SyncStore(h) \/ SyncFail(h) \/ Fail(h)
  \/ \E u \in Users : ResetAttendancePin(u)

MembersSpec == MembersInit /\ [][MembersNext]_memberVars
-----------------------------------------------------------------------------
(* The organisation keeps an active admin, whoever is demoted and removed, *)
(* unless the last one is deactivated, which has no guard, or two handlers *)
(* end admins at once: each counts the admin the other is about to end     *)
(* (user.service.ts:527-548, 693-710).                                     *)
AdminRemains == contested \/ Admins # {}

(* The stored count is that of the active employees whenever no sync is   *)
(* under way, and the plan's cap holds. The count excepts a change that    *)
(* syncs nothing (a role, an activity another request has changed), a sync *)
(* that failed and two at once, until the next sync makes it good; the cap *)
(* excepts checks against a count that was not settled, and an update that *)
(* makes someone an active employee, which checks no cap                   *)
(* (user.service.ts:734, 176-191, 334-347).                                *)
CountAndCap ==
  /\ drift \/ (\E h \in Handlers : Syncing(h)) \/ employeeCount = Cardinality(Employees)
  /\ overbooked \/ Cap = 0 \/ Cardinality(Employees) <= Cap

(* Both: the organisation stays manageable and within its plan, whatever   *)
(* handlers create, return, update and remove its members at once          *)
(* (user.service.ts:176-191, 334-347, 527-548, 693-710, 734).              *)
MembersKept == AdminRemains /\ CountAndCap

(* A member who has come back does not clock with the PIN of before, once  *)
(* the return is through: the PIN is the last statement of the return      *)
(* (user.service.ts:384-412), and one that fails before it keeps the PIN.  *)
FreshPinOnReturn ==
  \A u \in Users : Present(u) /\ member[u].pin = "old" =>
    \E h \in Handlers : handler[h].op \in {"sync", "store", "pin"} /\ u \in handler[h].returned
=============================================================================
