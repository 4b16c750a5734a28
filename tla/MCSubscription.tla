--------------------------- MODULE MCSubscription ---------------------------
(***************************************************************************)
(* A small instance of Subscription for TLC: the paid plan comes with a    *)
(* trial of one day, the free plan without; a suspension is abandoned      *)
(* after two days; one employee fits into the free plan, two do not.       *)
(***************************************************************************)
EXTENDS Subscription

MCTrialDays == [tier \in Tiers |-> IF tier = Starter THEN 0 ELSE 1]
MCExtensions == {1}
=============================================================================
