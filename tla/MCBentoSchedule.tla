-------------------------- MODULE MCBentoSchedule --------------------------
(***************************************************************************)
(* Instance of BentoSchedule and Calendar for TLC.  A behaviour is about the *)
(* server, whose requests meet statement by statement, or about the browser *)
(* that sends them, to which a request is one step.                         *)
(***************************************************************************)
EXTENDS BentoSchedule, Calendar, TLC

CONSTANT Parts \* what a behaviour may be about

VARIABLE part

server == <<surprise, closedOn, plan, row, handed, req, calls>>
calendar == <<credits, newest, pickups, others, tab, saves, events>>

Symmetry == Permutations(Requests) \cup Permutations(Plans)

MCInit ==
  /\ Init /\ CalendarInit /\ part \in Parts
  /\ part = "server" => credits = [p \in 1..Sets |-> 1]
  /\ part = "calendar" => surprise = "none"

\* Bound: what two requests of one sort, staff and the settings form can do takes a call less.
CallBound == IF surprise \in {"none", "closing"} THEN MaxCalls ELSE MaxCalls - 1

\* Bound: what the calendar fetches comes while the member is at the draft, and before anybody else
\* changes something.
FetchBound ==
  tab.doing = tab'.doing /\ (tab.doing = "saving" \/ tab.stale) => UNCHANGED <<tab.rules, tab.counted>>

MCNext ==
  /\ \/ part = "server" /\ Next /\ calls' <= CallBound /\ UNCHANGED calendar
     \/ part = "calendar" /\ CalendarNext /\ FetchBound /\ UNCHANGED server
  /\ UNCHANGED part

MCSpec == MCInit /\ [][MCNext]_<<part, vars, calendar>>

\* Server and calendar keep their types: no count of meals in a draft leaves its range.
Types == TypeOK /\ (part = "calendar" => CalendarTypeOK)
============================================================================
