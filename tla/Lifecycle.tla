----------------------------- MODULE Lifecycle -----------------------------
(***************************************************************************)
(* What a subscription's status promises the organisation: a trial ends in *)
(* a grace period, a grace period in the free plan or in a suspension, and *)
(* only a suspension in expiry. A super admin may suspend, start over or   *)
(* reactivate. While an operation is under way that read the subscription  *)
(* before another one changed it, the standing is "CONTENDED" and nothing  *)
(* is promised until it has finished.                                      *)
(***************************************************************************)
CONSTANT Orgs

VARIABLE standing   \* organisation -> status, "NONE" before a plan is assigned

Statuses == {"TRIALING", "GRACE_PERIOD", "ACTIVE", "SUSPENDED", "EXPIRED"}
Standings == Statuses \cup {"NONE", "CONTENDED"}

Init == standing = [o \in Orgs |-> "NONE"]

Becomes(o, froms, to) ==
  /\ standing[o] \in froms
  /\ standing' = [standing EXCEPT ![o] = to]

StartTrial(o) == Becomes(o, Standings, "TRIALING")
Activate(o) == Becomes(o, Standings, "ACTIVE")
EndTrial(o) == Becomes(o, {"TRIALING"}, "GRACE_PERIOD")
Suspend(o) == Becomes(o, Statuses \ {"SUSPENDED"}, "SUSPENDED")
Expire(o) == Becomes(o, {"SUSPENDED"}, "EXPIRED")
Contend(o) == Becomes(o, Standings, "CONTENDED")

(* What was under way ends, for several organisations when the server stops. *)
Settle(os, found) ==
  /\ \A o \in os : standing[o] = "CONTENDED"
  /\ standing' = [o \in Orgs |-> IF o \in os THEN found[o] ELSE standing[o]]

Next ==
  \/ \E o \in Orgs : \/ StartTrial(o) \/ Activate(o) \/ EndTrial(o)
                     \/ Suspend(o) \/ Expire(o) \/ Contend(o)
  \/ \E os \in SUBSET Orgs, found \in [Orgs -> Statuses] : Settle(os, found)

Spec == Init /\ [][Next]_standing
=============================================================================
