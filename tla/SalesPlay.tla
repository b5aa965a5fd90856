----------------------------- MODULE SalesPlay -----------------------------
(***************************************************************************)
(* Receipts and credit notes of the shop's till, which reach the server by   *)
(* webhook, by the nightly reconcile and by a pull an administrator starts.  *)
(*                                                                          *)
(* Time is counted in parts of a day: 2 * d is the night of day d in Malaysia*)
(* (0:00 to 8:00), 2 * d + 1 the rest of it.  A day of UTC begins at 8:00 in *)
(* Malaysia, so it is the parts 2 * d + 1 and 2 * d + 2.                      *)
(***************************************************************************)
EXTENDS Integers, FiniteSets, Mishaps

CONSTANTS
  Receipts, Notes, \* receipts of members, credit notes
  Handlers,        \* webhook requests that can be in flight at once
  Lookback,        \* reconcileLookbackDays
  End,             \* bound: the last part of a day
  NoRecord

ASSUME SalesPlayAssumption == Lookback \in Nat /\ End \in Nat

VARIABLES
  now,
  made,     \* when a record was made at the till
  online,   \* receipts that settle an order of the online shop
  stored,   \* posReceipt and posCreditNote
  points,   \* ledger entries of a receipt
  pulledAt, \* lastPulledAt of the receipts
  running,  \* "running" of the pull service
  job,      \* local state of the two pulls
  item,     \* the record a webhook request or a pull is at, and the step
  lost      \* history: receipts that were stored by a request that did not get to their points

salesplayVars == <<now, made, online, stored, points, pulledAt, running, job, item, lost, mishaps>>

Records == Receipts \cup Notes

\* The reconcile of the timer and a pull an administrator starts.  No pull takes hours, so the
\* timer does not meet its own.
Jobs == {"nightly", "manual"}
Workers == Handlers \cup Jobs
Never == End + 1

IdleJob == [step |-> "idle", left |-> {}]
Nothing == [at |-> NoRecord, step |-> "none"]

JobState == [
  step : {"idle", "receipts", "receipt items", "notes", "note items"},
  left : SUBSET Records]  \* what the pages hold and has not been ingested

SalesPlayTypes ==
  /\ now \in 0..End /\ made \in [Records -> 0..Never]
  /\ online \subseteq Receipts /\ stored \subseteq Records /\ lost \subseteq Receipts
  /\ points \in [Receipts -> Nat]
  /\ pulledAt \in -1..End /\ running \in BOOLEAN
  /\ job \in [Jobs -> JobState]
  /\ item \in [Workers -> [at : Records, step : {"find", "create"}]
                         \cup [at : Receipts, step : {"award"}] \cup {Nothing}]
  /\ mishaps \in 0..MaxMishaps

SalesPlayInit ==
  /\ now = 0
  /\ made = [x \in Records |-> Never]
  /\ online \in SUBSET Receipts
  /\ stored = {}
  /\ points = [x \in Receipts |-> 0]
  /\ pulledAt = -1 /\ running = FALSE
  /\ job = [j \in Jobs |-> IdleJob]
  /\ item = [w \in Workers |-> Nothing]
  /\ lost = {}
  /\ mishaps = 0

---------------------------------------------------------------------------
(* ingestReceipt and ingestCreditNote *)

ItemAt(w, s) == item[w].step = s
ItemTo(w, s) == item' = [item EXCEPT ![w].step = s]
Done(w) == item' = [item EXCEPT ![w] = Nothing]

\* A sale or a refund at the till.
Make(x) ==
  /\ made[x] = Never /\ made' = [made EXCEPT ![x] = now]
  /\ UNCHANGED <<now, online, stored, points, pulledAt, running, job, item, lost, mishaps>>

\* SalesPlay delivers a record, perhaps for the hundredth time.
Webhook(h, x) ==
  /\ made[x] # Never
  /\ item[h] = Nothing /\ item' = [item EXCEPT ![h] = [at |-> x, step |-> "find"]]
  /\ UNCHANGED <<now, made, online, stored, points, pulledAt, running, job, lost, mishaps>>

Find(w) ==
  /\ ItemAt(w, "find")
  /\ IF item[w].at \in stored THEN Done(w) ELSE ItemTo(w, "create")
  /\ UNCHANGED <<now, made, online, stored, points, pulledAt, running, job, lost, mishaps>>

\* Mutant: the table has no unique constraint.
TakenNever(x) == FALSE

\* The unique constraint on SalesPlay's id.
Taken(x) == x \in stored

\* Mutant: credit notes earn points too.
EarnsAny(x) == x \notin online

\* What of maybeAwardLoyalty depends on the record.
Earns(x) == x \in Receipts \ online

Create(w) ==
  LET x == item[w].at IN
  /\ ItemAt(w, "create")
  /\ IF Taken(x) THEN Done(w) /\ UNCHANGED stored
     ELSE /\ stored' = stored \cup {x}
          /\ IF Earns(x) THEN ItemTo(w, "award") ELSE Done(w)
  /\ UNCHANGED <<now, made, online, points, pulledAt, running, job, lost, mishaps>>

\* maybeAwardLoyalty
Award(w) ==
  /\ ItemAt(w, "award") /\ Done(w)
  /\ points' = [points EXCEPT ![item[w].at] = @ + 1]
  /\ UNCHANGED <<now, made, online, stored, pulledAt, running, job, lost, mishaps>>

Unawarded(W) == {item[w].at : w \in {w \in W : ItemAt(w, "award")}}

\* One of these statements throws: it is logged, and the next record is taken.
ItemFails(w) ==
  /\ item[w] # Nothing /\ Done(w)
  /\ Mishap
  /\ lost' = lost \cup Unawarded({w})
  /\ UNCHANGED <<now, made, online, stored, points, pulledAt, running, job>>

---------------------------------------------------------------------------
(* The pulls *)

JobAt(j, s) == job[j].step = s

\* startOfTodayMyt: the midnight of UTC of today's date in Malaysia, which is 8:00 there.
StartOfToday == 2 * (now \div 2) + 1

\* runReconcileIfDue, every hour
Due == pulledAt < StartOfToday

\* Mutant: what is pulled begins where the last pull ended.
FromLastPull == pulledAt

\* salesplayFromDateTime: the day of UTC that is Lookback days back.
FromDate == 2 * ((now - 1) \div 2 - Lookback) + 1

StartPull(j) ==
  /\ JobAt(j, "idle")
  /\ IF j = "nightly" THEN ~running /\ Due /\ UNCHANGED mishaps ELSE Mishap
  /\ job' = [job EXCEPT ![j].step = "receipts"]
  /\ UNCHANGED <<now, made, online, stored, points, pulledAt, running, item, lost>>

\* pullResource, unless another pull is in it.  A page that is not answered is the last one, and
\* a backfill begins at a cursor, so what it sees may be anything.
Pull(j, there, items, next) ==
  \/ /\ running /\ next
     /\ UNCHANGED <<running, mishaps>>
  \/ /\ ~running /\ running' = TRUE
     /\ \E got \in SUBSET there :
          /\ job' = [job EXCEPT ![j].step = items, ![j].left = got]
          /\ IF j = "manual" \/ got = there THEN UNCHANGED mishaps
             ELSE Mishap

\* What SalesPlay has of it.
Found(j, X) == {x \in X : made[x] # Never /\ (j = "nightly" => made[x] >= FromDate)}

PullReceipts(j) ==
  /\ JobAt(j, "receipts")
  /\ Pull(j, Found(j, Receipts), "receipt items", job' = [job EXCEPT ![j].step = "notes"])
  /\ UNCHANGED <<now, made, online, stored, points, pulledAt, item, lost>>

PullNotes(j) ==
  /\ JobAt(j, "notes")
  /\ Pull(j, Found(j, Notes), "note items", job' = [job EXCEPT ![j] = IdleJob])
  /\ UNCHANGED <<now, made, online, stored, points, pulledAt, item, lost>>

\* The next record of the pages.
Take(j) ==
  /\ item[j] = Nothing
  /\ \E x \in job[j].left :
       /\ item' = [item EXCEPT ![j] = [at |-> x, step |-> "find"]]
       /\ job' = [job EXCEPT ![j].left = @ \ {x}]
  /\ UNCHANGED <<now, made, online, stored, points, pulledAt, running, lost, mishaps>>

Ingested(j) == job[j].left = {} /\ item[j] = Nothing

\* markPulled, also if a page was not answered; the credit notes follow.
ReceiptsPulled(j) ==
  /\ JobAt(j, "receipt items") /\ Ingested(j)
  /\ pulledAt' = now /\ running' = FALSE
  /\ job' = [job EXCEPT ![j].step = "notes"]
  /\ UNCHANGED <<now, made, online, stored, points, item, lost, mishaps>>

NotesPulled(j) ==
  /\ JobAt(j, "note items") /\ Ingested(j)
  /\ running' = FALSE
  /\ job' = [job EXCEPT ![j] = IdleJob]
  /\ UNCHANGED <<now, made, online, stored, points, pulledAt, item, lost, mishaps>>

\* A statement of the pull throws, e.g. markPulled: the finally block resets running.
PullFails(j) ==
  /\ job[j].step \in {"receipt items", "note items"} /\ Ingested(j)
  /\ Mishap
  /\ running' = FALSE
  /\ job' = [job EXCEPT ![j] = IdleJob]
  /\ UNCHANGED <<now, made, online, stored, points, pulledAt, item, lost>>

\* The process dies and is started again.
Crash ==
  /\ Mishap
  /\ running' = FALSE
  /\ job' = [j \in Jobs |-> IdleJob]
  /\ item' = [w \in Workers |-> Nothing]
  /\ lost' = lost \cup Unawarded(Workers)
  /\ UNCHANGED <<now, made, online, stored, points, pulledAt>>

\* Time passes.  The server is up for an hour of the daytime, so the reconcile has had its turn
\* before midnight, and no pull or request takes hours.
Tick ==
  /\ now < End /\ now' = now + 1
  /\ now % 2 = 1 => ~Due
  /\ \A j \in Jobs : JobAt(j, "idle")
  /\ \A w \in Workers : item[w] = Nothing
  /\ UNCHANGED <<made, online, stored, points, pulledAt, running, job, item, lost, mishaps>>

SalesPlayNext ==
  \/ \E x \in Records : Make(x) \/ \E h \in Handlers : Webhook(h, x)
  \/ \E w \in Workers : Find(w) \/ Create(w) \/ Award(w) \/ ItemFails(w)
  \/ \E j \in Jobs :
       \/ StartPull(j) \/ PullReceipts(j) \/ PullNotes(j) \/ Take(j)
       \/ ReceiptsPulled(j) \/ NotesPulled(j) \/ PullFails(j)
  \/ Crash
  \/ Tick

SalesPlaySpec == SalesPlayInit /\ [][SalesPlayNext]_salesplayVars

---------------------------------------------------------------------------
(* Properties *)

\* A receipt is worth its points exactly once, however webhooks and pulls overlap and repeat
\* it, and not at all if it settles an order of the online shop; the points are lost if the
\* request that stored it fails or dies before it awards them (ingestReceipt).
PointsExactlyOnce ==
  \A x \in Receipts :
    points[x] = IF x \in stored \ (online \cup lost \cup Unawarded(Workers)) THEN 1 ELSE 0

\* What no webhook delivered, the reconcile has stored before it falls out of its window,
\* provided that fewer nights than Lookback went wrong (reconcile, pullResource).
NothingMissed ==
  mishaps < Lookback =>
    \A x \in Records : made[x] < FromDate => x \in stored
=============================================================================
