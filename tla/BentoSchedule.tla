--------------------------- MODULE BentoSchedule ---------------------------
(***************************************************************************)
(* The pickups of a member's bento plans: the member and the staff schedule  *)
(* them, the counter hands them out, an administrator closes operations.     *)
(*                                                                          *)
(* A row of bento_delivery_days is found by its plan and its date; its id is *)
(* what a request has in its hands.  A row that is deleted and created again *)
(* has a new id, so a deleted row leaves the ids of every other request.     *)
(* An action is one statement with the synchronous code after it.            *)
(***************************************************************************)
EXTENDS Kitchen, FiniteSets, FiniteSetsExt

CONSTANTS
  Plans,        \* paid plans, all of one member
  Requests,     \* backend requests that can be in flight at once
  Credits,      \* lunchCredits + dinnerCredits of a plan
  Capacity,     \* dailyCapacityPacks
  MaxHandOuts,  \* bound: how often one pickup is handed out
  MaxCalls,     \* bound: how many requests there are, refunds included
  Surprises,    \* what may happen, see "surprise"
  NoPlan

ASSUME NumberAssumption == {MaxDay, Credits, Capacity, LeadDays, DurationDays, MaxHandOuts,
                             MaxCalls} \subseteq Nat
ASSUME PlanAssumption == NoPlan \notin Plans /\ IsFiniteSet(Plans)
ASSUME SurpriseAssumption == Surprises \subseteq {"none", "overlap", "admin", "closing", "settings"}

VARIABLES
  surprise, \* the one thing that may happen: two requests of one sort at once ("overlap"),
            \* staff who override the rules ("admin"), operations closed while requests are in
            \* flight or by one that dies ("closing"), the settings form saved ("settings")
  closedOn, \* history: the date on which operations were closed last
  plan,     \* BentoSubscription.status
  row,      \* the delivery row of a plan and a day
  handed,   \* history: how often it was handed out
  req,      \* local state of each request
  calls     \* how many there have been

vars == <<surprise, today, clock, opsEnd, closedOn, plan, row, handed, req, calls>>

Pickups == Plans \X Days

Saves == {"member", "admin", "unlock"}   \* callers of scheduleDeliveries
RowStatus == {"none", "SCHEDULED", "DELIVERED", "SKIPPED"}
Row == [status : RowStatus, packs : 0..Credits]
NoRow == [status |-> "none", packs |-> 0]
Nothing == [d \in Days |-> 0]

LocalState == [
  kind   : Saves \cup {"none", "collect", "close"},
  step   : {"idle", "capacity", "delete", "wait", "create", "mark", "end", "skip"},
  plan   : Plans \cup {NoPlan},
  wanted : [Days -> 0..Credits],  \* packs of dto.slots by date
  left   : SUBSET Days,           \* dates whose capacity is still to be checked
  seen   : [Days -> Row],         \* sub.deliveries as read
  read   : SUBSET Pickups,        \* immutableDeliveries, or the rows a collection read
  ids    : SUBSET Pickups,        \* the row ids it holds that still denote a row
  cutoff : 0..MaxDay,              \* the date operations end on
  late   : BOOLEAN]               \* the hour has changed since it began

Idle == [kind |-> "none", step |-> "idle", plan |-> NoPlan, wanted |-> Nothing, left |-> {},
         seen |-> [d \in Days |-> NoRow], read |-> {}, ids |-> {}, cutoff |-> 0, late |-> FALSE]

TypeOK ==
  /\ surprise \in Surprises
  /\ today \in 0..MaxDay /\ clock \in {"open", "locked", "late"}
  /\ opsEnd \in 0..NoEnd /\ closedOn \in 0..NoEnd
  /\ plan \in [Plans -> {"ACTIVE", "REFUNDED"}]
  /\ row \in [Plans -> [Days -> Row]]
  /\ handed \in [Plans -> [Days -> 0..MaxHandOuts]]
  /\ req \in [Requests -> LocalState] /\ calls \in 0..MaxCalls

Init ==
  /\ surprise \in Surprises
  /\ today = 0 /\ clock = "open" /\ opsEnd = NoEnd /\ closedOn = NoEnd
  /\ plan = [p \in Plans |-> "ACTIVE"]
  /\ row = [p \in Plans |-> [d \in Days |-> NoRow]]
  /\ handed = [p \in Plans |-> [d \in Days |-> 0]]
  /\ req = [r \in Requests |-> Idle] /\ calls = 0

---------------------------------------------------------------------------
(* The date rules and the packs of a day *)

\* Mutant: the date on which operations end is forgotten.
BookableAfterTheEnd(d) ==
  /\ d \in Earliest..(Earliest + DurationDays - 1)
  /\ d \notin ClosedDays

Bookable(d) == d \in Earliest..(Earliest + DurationDays - 1) /\ ~IsDateClosed(d)

Is(p, d, s) == row[p][d].status = s
DaysWith(p, s) == {d \in Days : Is(p, d, s)}
Dates(w) == {d \in Days : w[d] > 0}

\* The packs of the days or plans in S, of which x has n[x]; a sum of packs is their number.
Packs(n, S) == UNION {{x} \X (1..n[x]) : x \in S}

\* Mutant: one pack too many.
SlotsOneMore ==
  {w \in [Days -> 0..(Credits + 1)] : Cardinality(Packs(w, Days)) \in 1..(Credits + 1)}

\* The slots of a request, summed by date: the credits are one pool for all its packs.
Slots == {w \in [Days -> 0..Credits] : Cardinality(Packs(w, Days)) \in 1..Credits}

\* packsInDeliveryRow, summed over the rows of a plan that have one of the statuses.
PacksOf(p, statuses) ==
  Cardinality(Packs([d \in Days |-> row[p][d].packs], {d \in Days : row[p][d].status \in statuses}))

\* countScheduledPacksOnDate
Cooked(d, P) == {p \in P : plan[p] = "ACTIVE" /\ Is(p, d, "SCHEDULED")}
PacksOn(d, P) == Cardinality(Packs([p \in Plans |-> row[p][d].packs], Cooked(d, P)))

---------------------------------------------------------------------------
(* Requests *)

SameSort(k, l) == k = l \/ {k, l} \subseteq Saves

\* A request begins; "overlap" and "closing" say what may be in flight with it.
Begin(r, k) ==
  /\ req[r] = Idle
  /\ calls < MaxCalls /\ calls' = calls + 1
  /\ surprise = "overlap" \/ \A q \in Requests : ~SameSort(req[q].kind, k)
  /\ surprise = "closing" \/ \A q \in Requests :
       req[q].kind # "close" /\ (k = "close" => req[q] = Idle)

At(r, s) == req[r].step = s
Done(r) == req' = [req EXCEPT ![r] = Idle]

\* Rows a transaction that has deleted them, and not committed, keeps locked.
LockedRows(R) == UNION {req[q].ids : q \in {q \in R : At(q, "create")}}
Free(r, S) == S \cap LockedRows(Requests \ {r}) = {}

---------------------------------------------------------------------------
(* scheduleDeliveries *)

\* assertLockedDeliveriesUnchanged
LockedUnchanged(seen, w) ==
  \A d \in Days : seen[d].status = "SCHEDULED" /\ Locked(d) => w[d] = seen[d].packs

\* immutableDeliveries
Frozen(c, d) ==
  \/ c.seen[d].status \in {"DELIVERED", "SKIPPED"}
  \/ c.seen[d].status = "SCHEDULED" /\ c.kind # "unlock" /\ Locked(d)

\* Mutant: the locked rows are not excepted from the deletion.
KeptNone(c, d) == FALSE

\* lockedScheduledIds
Kept(c, d) == c.seen[d].status = "SCHEDULED" /\ c.kind # "unlock" /\ Locked(d)

\* After the checks: what the transaction must not touch.  An id that is gone by now protects
\* nothing, but its date stays among those that are not created again.
Decide(r, c) ==
  req' = [req EXCEPT ![r] =
    IF c.kind = "unlock" \/ LockedUnchanged(c.seen, c.wanted)
    THEN [c EXCEPT !.step = "delete", !.left = {}, !.seen = Idle.seen,
                   !.read = {c.plan} \X {d \in Days : Frozen(c, d)},
                   !.ids = {i \in @ : Kept(c, i[2])}]
    ELSE Idle]

\* The plan and its deliveries are read, and the slots checked against them and the rules.
\* Dates the plan has a row on are exempt from the date rules, and staff from all of them.
ScheduleRead(r, k, p, w) ==
  LET c == [Idle EXCEPT !.kind = k, !.step = "capacity", !.plan = p, !.wanted = w,
                        !.left = Dates(w), !.seen = row[p],
                        !.ids = {p} \X {d \in Days : ~Is(p, d, "none")}]
  IN
  /\ Begin(r, k)
  /\ k # "member" => surprise = "admin"
  /\ plan[p] = "ACTIVE"
  /\ k = "member" => \A d \in Dates(w) : Is(p, d, "none") => Bookable(d)
  /\ IF k = "member" THEN req' = [req EXCEPT ![r] = c] ELSE Decide(r, c)
  /\ UNCHANGED <<surprise, today, clock, opsEnd, closedOn, plan, row, handed>>

\* Mutant: the packs of the request itself are not counted.
FullWithout(c, d) == PacksOn(d, Plans \ {c.plan}) > Capacity

Full(c, d) == PacksOn(d, Plans \ {c.plan}) + c.wanted[d] > Capacity

\* assertDailyCapacity: the packs of the other plans, one date after the other.  After the
\* last one the locked rows are compared with what was read at the beginning.
CheckCapacity(r) ==
  LET c == req[r]
      d == Min(c.left)
  IN
  /\ At(r, "capacity")
  /\ \/ Full(c, d) /\ Done(r)
     \/ ~Full(c, d) /\ c.left = {d} /\ Decide(r, c)
     \/ ~Full(c, d) /\ c.left # {d} /\ req' = [req EXCEPT ![r].left = @ \ {d}]
  /\ UNCHANGED <<surprise, today, clock, opsEnd, closedOn, plan, row, handed, calls>>

\* Mutant: deleteMany does not look at the status.
DeletableAny(p, d, kept) == ~Is(p, d, "none") /\ <<p, d>> \notin kept

Deletable(p, d, kept) == Is(p, d, "SCHEDULED") /\ <<p, d>> \notin kept

\* deleteMany, the first statement of the transaction.  From here on ids are the rows it
\* deletes: those it sees now, which it waits for if another transaction has them locked.
DeleteScheduled(r) ==
  LET p == req[r].plan
      doomed == {p} \X {d \in Days : Deletable(p, d, req[r].ids)}
  IN
  /\ At(r, "delete")
  /\ req' = [req EXCEPT ![r].ids = doomed, ![r].step = IF Free(r, doomed) THEN "create" ELSE "wait"]
  /\ UNCHANGED <<surprise, today, clock, opsEnd, closedOn, plan, row, handed, calls>>

\* The wait is over: a row is deleted if it is still there and still matches.
DeleteResumed(r) ==
  /\ At(r, "wait") /\ Free(r, req[r].ids)
  /\ req' = [req EXCEPT ![r].ids = {i \in @ : Is(i[1], i[2], "SCHEDULED")}, ![r].step = "create"]
  /\ UNCHANGED <<surprise, today, clock, opsEnd, closedOn, plan, row, handed, calls>>

\* The rows are created and the transaction commits, unless one of the dates is taken.
CreateRows(r) ==
  LET p == req[r].plan
      deleted == {d \in Days : <<p, d>> \in req[r].ids}
      created == {d \in Dates(req[r].wanted) : <<p, d>> \notin req[r].read}
      taken == \E d \in created \ deleted : ~Is(p, d, "none")
  IN
  /\ At(r, "create") /\ Free(r, {p} \X created)
  /\ \/ taken /\ Done(r) /\ UNCHANGED row
     \/ /\ ~taken
        /\ row' = [row EXCEPT ![p] = [d \in Days |->
             IF d \in created THEN [status |-> "SCHEDULED", packs |-> req[r].wanted[d]]
             ELSE IF d \in deleted THEN NoRow ELSE @[d]]]
        /\ req' = [q \in Requests |-> IF q = r THEN Idle ELSE [req[q] EXCEPT !.ids = @ \ req[r].ids]]
  /\ UNCHANGED <<surprise, today, clock, opsEnd, closedOn, plan, handed, calls>>

---------------------------------------------------------------------------
(* The counter and the administrators *)

\* Mutant: the counter does not look at the status.
CollectableAny(p, d) == d = today /\ plan[p] = "ACTIVE" /\ ~Is(p, d, "none")

Collectable(p, d) == d = today /\ plan[p] = "ACTIVE" /\ Is(p, d, "SCHEDULED")

\* collectBentoPickup reads today's rows of the member's plans ...
CollectRead(r) ==
  LET pending == {i \in Pickups : Collectable(i[1], i[2])}
  IN
  /\ Begin(r, "collect") /\ pending # {}
  /\ req' = [req EXCEPT ![r] = [Idle EXCEPT !.kind = "collect", !.step = "mark",
                                           !.read = pending, !.ids = pending]]
  /\ UNCHANGED <<surprise, today, clock, opsEnd, closedOn, plan, row, handed>>

\* updateMany where the id is one of these
Marked(ids, s) ==
  [p \in Plans |-> [d \in Days |->
     IF <<p, d>> \in ids THEN [row[p][d] EXCEPT !.status = s] ELSE row[p][d]]]

\* ... and marks them by id; the answer tells the staff to hand out what was read.
CollectMark(r) ==
  /\ At(r, "mark") /\ Free(r, req[r].ids)
  /\ \A i \in req[r].read : handed[i[1]][i[2]] < MaxHandOuts
  /\ row' = Marked(req[r].ids, "DELIVERED")
  /\ handed' = [p \in Plans |-> [d \in Days |->
       handed[p][d] + IF <<p, d>> \in req[r].read THEN 1 ELSE 0]]
  /\ Done(r)
  /\ UNCHANGED <<surprise, today, clock, opsEnd, closedOn, plan, calls>>

\* closeBentoOperations reads the rows after the cutoff, ...
CloseRead(r, cutoff) ==
  /\ Begin(r, "close")
  /\ req' = [req EXCEPT ![r] = [Idle EXCEPT !.kind = "close", !.step = "end", !.cutoff = cutoff,
       !.ids = {i \in Pickups : Is(i[1], i[2], "SCHEDULED") /\ i[2] > cutoff}]]
  /\ UNCHANGED <<surprise, today, clock, opsEnd, closedOn, plan, row, handed>>

\* ... saves the date, ...
CloseSave(r) ==
  /\ At(r, "end")
  /\ opsEnd' = req[r].cutoff /\ closedOn' = req[r].cutoff
  /\ req' = [req EXCEPT ![r].step = "skip"]
  /\ UNCHANGED <<surprise, today, clock, plan, row, handed, calls>>

\* ... and marks by id the rows it read.
CloseSkip(r) ==
  /\ At(r, "skip") /\ Free(r, req[r].ids)
  /\ row' = Marked(req[r].ids, "SKIPPED")
  /\ Done(r)
  /\ UNCHANGED <<surprise, today, clock, opsEnd, closedOn, plan, handed, calls>>

\* The process dies between two of these statements.
CloseDies(r) ==
  /\ surprise = "closing"
  /\ req[r].kind = "close" /\ Done(r)
  /\ UNCHANGED <<surprise, today, clock, opsEnd, closedOn, plan, row, handed, calls>>

\* The settings form sends every setting but operationsEndDate, and what is not sent is null.
SaveSettings ==
  /\ surprise = "settings"
  /\ opsEnd' = NoEnd
  /\ UNCHANGED <<surprise, today, clock, closedOn, plan, row, handed, req, calls>>

\* markBentoSubscriptionRefunded
Refund(p) ==
  /\ plan[p] = "ACTIVE" /\ calls < MaxCalls /\ calls' = calls + 1
  /\ plan' = [plan EXCEPT ![p] = "REFUNDED"]
  /\ UNCHANGED <<surprise, today, clock, opsEnd, closedOn, row, handed, req>>

\* The hour changes; no request is so slow that it sees it change twice.
Tick ==
  /\ \A r \in Requests : ~req[r].late
  /\ \/ clock = "open" /\ clock' = "locked" /\ UNCHANGED today
     \/ clock = "locked" /\ clock' = "late" /\ UNCHANGED today
     \/ clock = "late" /\ today < MaxDay /\ clock' = "open" /\ today' = today + 1
  /\ req' = [r \in Requests |-> IF req[r] = Idle THEN Idle ELSE [req[r] EXCEPT !.late = TRUE]]
  /\ UNCHANGED <<surprise, opsEnd, closedOn, plan, row, handed, calls>>

Next ==
  \/ \E r \in Requests :
       \/ \E k \in Saves, p \in Plans, w \in Slots : ScheduleRead(r, k, p, w)
       \/ CheckCapacity(r) \/ DeleteScheduled(r) \/ DeleteResumed(r) \/ CreateRows(r)
       \/ CollectRead(r) \/ CollectMark(r)
       \/ \E cutoff \in 0..(MaxDay - 1) : CloseRead(r, cutoff)
       \/ CloseSave(r) \/ CloseSkip(r) \/ CloseDies(r)
  \/ SaveSettings
  \/ \E p \in Plans : Refund(p)
  \/ Tick

Spec == Init /\ [][Next]_vars

---------------------------------------------------------------------------
(* Properties *)

Never(S) == surprise \notin S

\* What is still to be picked up never exceeds the credits of the plan, whatever is collected,
\* cancelled or locked meanwhile, as long as no two requests schedule it at once
\* (validateScheduleSlots checks the request, not the rows).
ScheduledWithinCredits ==
  Never({"overlap"}) => \A p \in Plans : PacksOf(p, {"SCHEDULED"}) <= Credits

\* The kitchen cooks at most its daily capacity, unless staff override it or two members
\* schedule at once (assertDailyCapacity reads before the transaction).
WithinCapacity ==
  Never({"overlap", "admin"}) => \A d \in Days : PacksOn(d, Plans) <= Capacity

\* What is scheduled keeps both limits, that of its plan and that of its day, each unless what
\* can break it happens (scheduleDeliveries).
WithinLimits == ScheduledWithinCredits /\ WithinCapacity

\* After closeBentoOperations no pickup is scheduled past the date, unless staff override it,
\* a request was in flight, the closing was interrupted, or the settings form was saved.
NothingPastTheEnd ==
  Never({"closing", "admin", "settings"}) /\ (\A r \in Requests : req[r].kind # "close") =>
    \A p \in Plans : \A d \in DaysWith(p, "SCHEDULED") : d <= closedOn

\* A pickup is handed out once, and exactly when its row is DELIVERED, however scheduling
\* and collecting interleave, unless staff rewrite the day, the day is cancelled in flight,
\* or two counters scan the member at once.
HandedOutOnce ==
  Never({"overlap", "admin", "closing"}) => \A p \in Plans, d \in Days :
    handed[p][d] = IF Is(p, d, "DELIVERED") THEN 1 ELSE 0

\* Delivered days are immutable for everyone, staff included (deleteMany looks at the status
\* again when it gets the row), unless operations are closed in flight.
DeliveredIsFinal ==
  [][Never({"closing"}) => \A p \in Plans, d \in Days :
       Is(p, d, "DELIVERED") => row'[p][d] = row[p][d]]_vars

\* A pickup whose day has come is not lost: its row stays until it is collected, or skipped
\* by a closing, unless staff override the lock or two requests schedule the plan at once.
PickupKept ==
  [][Never({"overlap", "admin"}) => \A p \in Plans, d \in 1..today :
       ~Is(p, d, "none") => row'[p][d].status # "none" /\ row'[p][d].packs = row[p][d].packs]_vars

\* Refuted.  Meal credits are a pool of which at most the plan's total is used, delivered
\* pickups included (checked for one request at a time, without any surprise).
CreditsRespected ==
  surprise = "none" => \A p \in Plans : PacksOf(p, {"SCHEDULED", "DELIVERED"}) <= Credits
============================================================================
