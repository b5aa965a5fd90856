----------------------------- MODULE PromoSlots -----------------------------
(***************************************************************************)
(* What a promo code promises the shop: never more redemptions in use than  *)
(* its redemption cap.  A redemption is in use from the moment its row      *)
(* exists until it is released; it may be taken back only by release.       *)
(***************************************************************************)
EXTENDS Integers, FiniteSets

CONSTANTS Attempts, RedemptionCap

VARIABLE holders  \* attempts whose redemption is RESERVED or CONFIRMED

Init == holders = {}

Acquire(a) ==
  /\ a \notin holders
  /\ Cardinality(holders) < RedemptionCap
  /\ holders' = holders \cup {a}

Release(a) ==
  /\ a \in holders
  /\ holders' = holders \ {a}

Next == \E a \in Attempts : Acquire(a) \/ Release(a)

Spec == Init /\ [][Next]_holders
============================================================================
