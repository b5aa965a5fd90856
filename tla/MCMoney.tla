------------------------------- MODULE MCMoney ------------------------------
(***************************************************************************)
(* Instance of ShopOrder and Ledger for TLC.  The two share no table that a *)
(* property of either needs, so a behaviour is about shop orders or about a *)
(* member's account, and the other one stays in one of its initial states.  *)
(***************************************************************************)
EXTENDS ShopOrder, Ledger, TLC

CreditAndDebit == {1, -1}

Symmetry == Permutations(Requests) \cup Permutations(Orders)

VARIABLE part

\* Bound: where nothing locks the wallet, nothing fails and its ledger holds two entries, enough
\* for what is still claimed there: that what is finished is in the book.
ShortIfUnlocked == account = "points" \/ upsertLocks \/ (Len(entries') <= 2 /\ faults' = 0)

\* Bound: where surprises are allowed, a behaviour has a mishap or a notice of failure.
OneTrouble == allowed = {} \/ mishaps' = 0 \/ failures' = {}

MCInit ==
  /\ Init /\ LedgerInit
  /\ \/ part = "orders" /\ account = "wallet" /\ upsertLocks
     \/ part = "account" /\ promotion = "voucher" /\ ~demoMode /\ allowed = {}

MCNext ==
  /\ \/ part = "orders" /\ Next /\ OneTrouble /\ UNCHANGED ledgerVars
     \/ part = "account" /\ LedgerNext /\ ShortIfUnlocked /\ UNCHANGED vars
  /\ UNCHANGED part

MCSpec == MCInit /\ [][MCNext]_<<part, vars, ledgerVars>>
=============================================================================
