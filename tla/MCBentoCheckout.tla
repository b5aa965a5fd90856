-------------------------- MODULE MCBentoCheckout --------------------------
(***************************************************************************)
(* Instance of BentoCheckout for TLC: every attempt is for the same         *)
(* customer and package, so that each checkout meets the earlier ones.      *)
(***************************************************************************)
EXTENDS BentoCheckout, TLC

OnePlan == [a \in Attempts |-> "single_meal"]

Symmetry == Permutations(Requests) \cup Permutations(Attempts)
============================================================================
