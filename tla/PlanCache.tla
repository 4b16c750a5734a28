------------------------------ MODULE PlanCache ------------------------------
(***************************************************************************)
(* The cache of plans in the memory of the server, through which every     *)
(* feature check sees an organisation's subscription (plan.service.ts).    *)
(*                                                                         *)
(* Who changes a row of org_subscriptions (the super admin's calls, the    *)
(* nightly jobs, syncEmployeeCount) awaits the update and then empties the *)
(* entry: in between, the invalidation is owed. Whoever switches a feature *)
(* of a plan, or changes its price, empties nothing. A lookup awaits the   *)
(* row with its plan and then stores the entry. The dates of the reminders *)
(* that the jobs note in the row are left out: no check looks at them.     *)
(***************************************************************************)
EXTENDS FiniteSets

CONSTANTS
  Orgs,       \* the organisations
  Plans,      \* the pricing plans
  Terms,      \* what a row says besides its plan: status, overrides, price
  Writers,    \* calls, jobs and syncs in progress at once
  Lookups     \* feature checks in progress at once

Row == [plan : Plans, terms : Terms]
NoRow == [terms |-> "NONE"]
OrgPlan == [plan : Plans, terms : Terms, features : BOOLEAN] \cup {NoRow}
NoEntry == [terms |-> "NOT_CACHED"]
Idle == [op |-> "idle"]
LookupStates ==
  {Idle} \cup [op : {"lookup"}, org : Orgs, read : OrgPlan, overtaken : BOOLEAN]

VARIABLES
  rows,       \* org -> its subscription, or NoRow
  features,   \* plan -> its features, switched on or off
  owed,       \* <<writer, org>>: committed, and not invalidated yet
  lookup,     \* lookup -> what it has read, not cached yet
  cache,      \* org -> planCache entry
  slipped     \* history: orgs whose entry no invalidation will take away

vars == <<rows, features, owed, lookup, cache, slipped>>

TypeOK ==
  /\ rows \in [Orgs -> Row \cup {NoRow}]
  /\ features \in [Plans -> BOOLEAN]
  /\ owed \subseteq Writers \X Orgs
  /\ lookup \in [Lookups -> LookupStates]
  /\ cache \in [Orgs -> OrgPlan \cup {NoEntry}]
  /\ slipped \subseteq Orgs

Init ==
  /\ rows = [o \in Orgs |-> NoRow]
  /\ features = [p \in Plans |-> TRUE]
  /\ owed = {}
  /\ lookup = [l \in Lookups |-> Idle]
  /\ cache = [o \in Orgs |-> NoEntry]
  /\ slipped = {}

(* What getOrgPlan returns for the organisation. *)
Current(o) ==
  IF rows[o] = NoRow THEN NoRow
  ELSE [plan |-> rows[o].plan, terms |-> rows[o].terms, features |-> features[rows[o].plan]]

(* The lookups under way for orgs have read what is no longer to be stored. *)
Overtake(orgs) ==
  lookup' = [l \in Lookups |->
               IF lookup[l] # Idle /\ lookup[l].org \in orgs
               THEN [lookup[l] EXCEPT !.overtaken = TRUE] ELSE lookup[l]]

-----------------------------------------------------------------------------
(* A writer's transaction, or the updateMany of syncEmployeeCount. It      *)
(* writes no other row before it has invalidated the entry of this one.    *)
Commit(w, o, row) ==
  /\ \A p \in Orgs : <<w, p>> \notin owed
  /\ rows' = [rows EXCEPT ![o] = row]
  /\ owed' = owed \cup {<<w, o>>}
  /\ UNCHANGED <<features, lookup, cache, slipped>>

(* Mutant of Invalidated: the entry stays until it times out. *)
NeverInvalidated(o) == cache

Invalidated(o) == [cache EXCEPT ![o] = NoEntry]

InvalidatePlanCache(w, o) ==
  /\ <<w, o>> \in owed
  /\ owed' = owed \ {<<w, o>>}
  /\ cache' = Invalidated(o)
  /\ slipped' = slipped \ {o}
  /\ Overtake({o})
  /\ UNCHANGED <<rows, features>>

(* The commit is done but its answer is lost: the writer gets an error and *)
(* invalidates nothing.                                                    *)
CommitUnheard(w, o) ==
  /\ <<w, o>> \in owed
  /\ owed' = owed \ {<<w, o>>}
  /\ slipped' = slipped \cup {o}
  /\ Overtake({o})
  /\ UNCHANGED <<rows, features, cache>>

(* PATCH /super-admin/plans/:tier/features, and likewise /price.           *)
EditPlan(p) ==
  LET its == {o \in Orgs : rows[o] # NoRow /\ rows[o].plan = p}
  IN  /\ features' = [features EXCEPT ![p] = ~@]
      /\ slipped' = slipped \cup its
      /\ Overtake(its)
      /\ UNCHANGED <<rows, owed, cache>>

-----------------------------------------------------------------------------
GetOrgPlanRead(l, o) ==
  /\ lookup[l] = Idle
  /\ cache[o] = NoEntry
  /\ lookup' = [lookup EXCEPT ![l] = [op |-> "lookup", org |-> o, read |-> Current(o),
                                      overtaken |-> FALSE]]
  /\ UNCHANGED <<rows, features, owed, cache, slipped>>

GetOrgPlanSet(l) ==
  /\ lookup[l] # Idle
  /\ cache' = [cache EXCEPT ![lookup[l].org] = lookup[l].read]
  /\ slipped' = IF lookup[l].overtaken THEN slipped \cup {lookup[l].org}
                ELSE slipped \ {lookup[l].org}
  /\ lookup' = [lookup EXCEPT ![l] = Idle]
  /\ UNCHANGED <<rows, features, owed>>

(* The query throws, and the request with it. *)
GetOrgPlanFail(l) ==
  /\ lookup[l] # Idle
  /\ lookup' = [lookup EXCEPT ![l] = Idle]
  /\ UNCHANGED <<rows, features, owed, cache, slipped>>

(* isCacheValid: an entry of five minutes ago is read again. *)
CacheExpire(o) ==
  /\ cache[o] # NoEntry
  /\ cache' = [cache EXCEPT ![o] = NoEntry]
  /\ slipped' = slipped \ {o}
  /\ UNCHANGED <<rows, features, owed, lookup>>

(* The server restarts: invalidations are lost, and the cache with them. *)
Restart ==
  /\ owed' = {}
  /\ lookup' = [l \in Lookups |-> Idle]
  /\ cache' = [o \in Orgs |-> NoEntry]
  /\ slipped' = {}
  /\ UNCHANGED <<rows, features>>

Next ==
  \/ \E w \in Writers, o \in Orgs :
       \/ \E row \in Row : Commit(w, o, row)
       \/ InvalidatePlanCache(w, o) \/ CommitUnheard(w, o)
  \/ \E p \in Plans : EditPlan(p)
  \/ \E l \in Lookups :
       GetOrgPlanSet(l) \/ GetOrgPlanFail(l) \/ \E o \in Orgs : GetOrgPlanRead(l, o)
  \/ \E o \in Orgs : CacheExpire(o)
  \/ Restart

Spec == Init /\ [][Next]_vars
-----------------------------------------------------------------------------
(* Once the last invalidation that is owed has run, a cached plan is the   *)
(* one in the database (plan.service.ts:108-112, "so the next request gets *)
(* fresh data immediately"), except, until it times out, an entry that no  *)
(* invalidation will take away: a lookup stored it that an invalidation    *)
(* has overtaken, its plan was edited, or the commit was not heard of.     *)
CacheFresh ==
  \A o \in Orgs :
    cache[o] \notin {NoEntry, Current(o)} => o \in slipped \/ \E w \in Writers : <<w, o>> \in owed
=============================================================================
