----------------------------- MODULE MCPayment ------------------------------
(***************************************************************************)
(* Instance of BentoCheckout and MemberApp for TLC, for what must happen in *)
(* the end after a payment.  A behaviour is about the server, or about the   *)
(* app that sends a member to pay.                                           *)
(***************************************************************************)
EXTENDS MCBentoCheckout, MemberApp

VARIABLE part

MCInit ==
  /\ Init /\ AppInit
  /\ part \in {"server", "app"}
  /\ part = "server" => wonder = "none"
  /\ part = "app" => ~demoMode

MCNext ==
  /\ \/ part = "server" /\ Next /\ UNCHANGED appVars
     \/ part = "app" /\ AppNext /\ UNCHANGED vars
  /\ UNCHANGED part

\* Nothing that either is fair about is enabled at the start, where the other one stays.
MCSpec == MCInit /\ [][MCNext]_<<part, vars, appVars>> /\ Fairness /\ AppFairness
=============================================================================
