------------------------------ MODULE Mishaps -------------------------------
(***************************************************************************)
(* What goes wrong: statements that throw, calls that are not answered,      *)
(* processes that die.  The modules that extend this one bound together how  *)
(* often it happens in a behaviour.                                          *)
(***************************************************************************)
EXTENDS Naturals

CONSTANT MaxMishaps \* bound

ASSUME MishapsAssumption == MaxMishaps \in Nat

VARIABLE mishaps

Mishap == mishaps < MaxMishaps /\ mishaps' = mishaps + 1
=============================================================================
