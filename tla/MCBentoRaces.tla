---------------------------- MODULE MCBentoRaces ----------------------------
(***************************************************************************)
(* Instance of BentoCheckout for TLC, for two questions that are too large  *)
(* to ask together.  A behaviour is about the promo code, with its one slot *)
(* and at most one mishap, or about the payment, with no code to use and    *)
(* everything a payer and Xendit may do.                                    *)
(***************************************************************************)
EXTENDS MCBentoCheckout

VARIABLE part

Paying == INSTANCE BentoCheckout
            WITH RedemptionCap <- 0, OverlappingFailures <- TRUE, CaptureAfterFailure <- TRUE

MCInit == Init /\ part \in {"promo", "payment"}

MCNext ==
  /\ \/ part = "promo" /\ Next /\ mishaps' <= 1
     \/ part = "payment" /\ Paying!Next
  /\ UNCHANGED part

MCSpec == MCInit /\ [][MCNext]_<<part, vars>>
=============================================================================
