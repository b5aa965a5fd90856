---------------------------- MODULE MCBackground ----------------------------
(***************************************************************************)
(* Instance of Mailer, SalesPlay, SignUp and Catalog for TLC: campaigns,     *)
(* receipts, sign-ups and products share no state but the count of what goes *)
(* wrong, so a behaviour is about one of them.                               *)
(***************************************************************************)
EXTENDS Mailer, SalesPlay, SignUp, Catalog

VARIABLE part \* what the behaviour is about

mailer == <<rows, memberRows, run, admin>>
salesplay == <<now, made, online, stored, points, pulledAt, running, job, item, lost>>
signup == <<member, otp, gifts, task, exhausted>>
vars == <<part, mailer, salesplay, signup, catalogVars, mishaps>>

Init ==
  /\ MailerInit /\ SalesPlayInit /\ SignUpInit /\ CatalogInit
  /\ part \in {"mailer", "salesplay", "signup", "catalog"}
  /\ part # "mailer" => blank = {} /\ gift = [c \in Campaigns |-> FALSE]
  /\ part # "salesplay" => online = {}
  /\ part # "catalog" => canonical = {} /\ uploads = {}

Next ==
  /\ \/ part = "mailer" /\ MailerNext /\ UNCHANGED <<salesplay, signup, catalogVars>>
     \/ part = "salesplay" /\ SalesPlayNext /\ UNCHANGED <<mailer, signup, catalogVars>>
     \/ part = "signup" /\ SignUpNext /\ UNCHANGED <<mailer, salesplay, catalogVars>>
     \/ part = "catalog" /\ CatalogNext /\ UNCHANGED <<mailer, salesplay, signup, mishaps>>
  /\ UNCHANGED part

Spec == Init /\ [][Next]_vars /\ MailerFairness

\* The types of all four (MailerService, SalesplayWebhookService, AuthService, ShopCatalogService, ...).
TypeOK ==
  CASE part = "mailer" -> MailerTypes
    [] part = "salesplay" -> SalesPlayTypes
    [] part = "signup" -> SignUpTypes
    [] part = "catalog" -> CatalogTypes
=============================================================================
