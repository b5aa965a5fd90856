------------------------------ MODULE Calendar ------------------------------
(***************************************************************************)
(* The calendar in which a member books the pickups of all bento plans as    *)
(* one: the browser merges the plans into a draft, and to save it deals the   *)
(* meals out to the plans and sends one request for each, one after another. *)
(* What the server does with a request is one action here; BentoSchedule has *)
(* its statements.                                                          *)
(***************************************************************************)
EXTENDS Kitchen, SequencesExt

CONSTANTS
  Sets,         \* bound: plans of the member
  MaxMeals,     \* bound: credits of a plan
  MaxPool,      \* bound: credits of all plans
  DailyPacks,   \* dailyCapacityPacks
  MaxTaps,      \* bound: how often a draft is changed
  MaxSaves,     \* bound: how often the member saves
  MaxEvents     \* bound: how often somebody else changes something

VARIABLES
  credits,   \* lunchCredits + dinnerCredits of a plan
  newest,    \* the plans are newest..Sets, the newest first (listMySubscriptions)
  pickups,   \* the delivery rows of a plan
  others,    \* packs that other members have booked
  tab,       \* the calendar in the browser
  saves, events \* how often the member has saved, and somebody else changed something

calendarVars == <<credits, newest, pickups, others, opsEnd, today, clock, tab, saves, events>>

Subscriptions == newest..Sets

Most == Sets * MaxMeals
Meals == [lunch : 0..Most, dinner : 0..Most]
None == [lunch |-> 0, dinner |-> 0]
Empty == [d \in Days |-> None]

PacksIn(m) == m.lunch + m.dinner

\* n[x] things for each x in S, one by one, and how many they are.
Heap(n, S) == UNION {{x} \X (1..n[x]) : x \in S}
SumOf(n, S) == Cardinality(Heap(n, S))

Total(w, D) == SumOf([d \in D |-> PacksIn(w[d])], D)
FilledDays(w) == {d \in Days : w[d] # None}

NoPickup == [status |-> "none", meals |-> None]

CalendarNumbers ==
  /\ {Sets, MaxMeals, MaxDay, DailyPacks, LeadDays, DurationDays, MaxTaps, MaxSaves, MaxEvents} \subseteq Nat
  /\ Sets > 0

ASSUME CalendarAssumption == CalendarNumbers

\* What the browser knows of the rules: whether they have come, which days they rule out, and,
\* as history, the days they close that were in the draft before.
Rules == [known : BOOLEAN, shut : SUBSET Days, early : SUBSET Days]
DefaultRules == [known |-> FALSE, shut |-> {}, early |-> Days]

Closed == [doing |-> "closed", plans |-> <<>>, draft |-> Empty, next |-> 0, from |-> 0,
           rules |-> DefaultRules, counted |-> FALSE, free |-> Days, changed |-> FALSE, taps |-> 0,
           filled |-> FALSE, stale |-> FALSE, touched |-> FALSE]

CalendarTypeOK ==
  /\ credits \in [1..Sets -> 1..MaxMeals] /\ newest \in 1..Sets
  /\ pickups \in [1..Sets -> [Days -> [status : {"none", "SCHEDULED", "DELIVERED", "SKIPPED"}, meals : Meals]]]
  /\ others \in [Days -> 0..DailyPacks]
  /\ opsEnd \in 0..NoEnd /\ today \in 0..MaxDay /\ clock \in {"open", "locked", "late"}
  /\ tab.doing \in {"closed", "open", "saving", "saved", "refused"}
  /\ ToSet(tab.plans) \subseteq Subscriptions /\ tab.next \in 0..Len(tab.plans)
  /\ tab.draft \in [Days -> Meals]
  /\ tab.from \in 0..(MaxDay + LeadDays + 1) /\ tab.rules \in Rules /\ tab.free \subseteq Days
  /\ tab.taps \in 0..MaxTaps
  /\ {tab.counted, tab.changed, tab.filled, tab.stale, tab.touched} \subseteq BOOLEAN
  /\ saves \in 0..MaxSaves /\ events \in 0..MaxEvents

CalendarInit ==
  /\ credits \in [1..Sets -> 1..MaxMeals]
  /\ SumOf(credits, 1..Sets) <= MaxPool
  /\ newest = Sets
  /\ pickups = [p \in 1..Sets |-> [d \in Days |-> NoPickup]]
  /\ others = [d \in Days |-> 0]
  /\ opsEnd = NoEnd /\ today = 0 /\ clock = "open"
  /\ tab = Closed /\ saves = 0 /\ events = 0

---------------------------------------------------------------------------
(* The window and the packs of a day *)

\* The last day that members may book.
WindowEnd == Earliest + DurationDays - 1

\* Packs of the rows that are still to be picked up.
PacksAt(d, P) ==
  SumOf([p \in P |-> PacksIn(pickups[p][d].meals)], {p \in P : pickups[p][d].status = "SCHEDULED"})

---------------------------------------------------------------------------
(* The calendar opens *)

\* mergeDeliveries
MergeDeliveries(P) ==
  LET Merged(m, d) ==
        SumOf([p \in P |-> pickups[p][d].meals[m]], {p \in P : pickups[p][d].status # "SKIPPED"})
  IN [d \in Days |-> [lunch |-> Merged("lunch", d), dinner |-> Merged("dinner", d)]]

Unused(p) == credits[p] - Total(MergeDeliveries({p}), Days)
Pool(P) == SumOf(credits, P)

Least(a, b) == IF a < b THEN a ELSE b

\* Mutant: the pool is not a limit.
AutoFillAll(D, pool, perDay) ==
  [d \in Days |-> IF d \in D THEN [lunch |-> perDay, dinner |-> perDay] ELSE None]

\* Mutant: a short rest of the pool makes the dinners negative.
AutoFillBlind(D, pool, perDay) ==
  [d \in Days |-> IF d \in D THEN [lunch |-> Least(perDay, pool), dinner |-> pool - 2 * perDay] ELSE None]

\* buildAutoFill: so many lunches and so many dinners a day, until the pool is empty.
BuildAutoFill(D, pool, perDay) ==
  LET before(d) == Cardinality({e \in D : e < d}) * 2 * perDay   \* meals of the days before
      left(d) == IF before(d) < pool THEN pool - before(d) ELSE 0
  IN [d \in Days |->
        IF d \notin D THEN None
        ELSE [lunch |-> Least(perDay, left(d)),
              dinner |-> Least(perDay, left(d) - Least(perDay, left(d)))]]

\* The plans that have meals left, or else all of them.
Scheduling ==
  LET needing == {p \in Subscriptions : Unused(p) > 0} IN IF needing # {} THEN needing ELSE Subscriptions

\* getScheduleCapacity: the days that are not full.
FreeDays == {d \in Days : PacksAt(d, Subscriptions) + others[d] < DailyPacks}

\* The plans, the newest first.
InOrder(P) == [i \in 1..Cardinality(P) |-> CHOOSE p \in P : Cardinality({q \in P : q < p}) = i - 1]

\* The member opens the calendar, or it is loaded again after a save.  A draft is filled in at once,
\* under the default rules, and what is fetched later does not change it.
OpenCalendar ==
  LET P == Scheduling
      merged == MergeDeliveries(P)
  IN
  /\ tab.doing \in {"closed", "saved"}
  /\ tab' = [Closed EXCEPT
       !.doing = "open", !.plans = InOrder(P),
       !.draft = IF merged # Empty THEN merged
                 ELSE BuildAutoFill(Earliest..WindowEnd \cap Days, Pool(P), Cardinality(P)),
       !.filled = merged = Empty, !.from = Earliest]
  /\ UNCHANGED <<credits, newest, pickups, others, opsEnd, today, clock, saves, events>>

\* The rules come, if they come.
LoadRules ==
  /\ tab.doing \in {"open", "saving", "refused"} /\ ~tab.rules.known
  /\ tab' = [tab EXCEPT !.rules = [known |-> TRUE, shut |-> {d \in Days : d < Earliest \/ IsDateClosed(d)},
                                   early |-> {d \in FilledDays(tab.draft) : IsDateClosed(d)}]]
  /\ UNCHANGED <<credits, newest, pickups, others, opsEnd, today, clock, saves, events>>

\* So does what is left of the days; if that is what the calendar shows, nothing changes.
LoadCapacity ==
  /\ tab.doing \in {"open", "saving", "refused"} /\ ~tab.counted /\ FreeDays # tab.free
  /\ tab' = [tab EXCEPT !.counted = TRUE, !.free = FreeDays]
  /\ UNCHANGED <<credits, newest, pickups, others, opsEnd, today, clock, saves, events>>

CloseCalendar ==
  /\ tab.doing \in {"open", "saved", "refused"} /\ tab' = Closed
  /\ UNCHANGED <<credits, newest, pickups, others, opsEnd, today, clock, saves, events>>

---------------------------------------------------------------------------
(* The draft *)

PoolLeft == Pool(ToSet(tab.plans)) - Total(tab.draft, Days)

\* Mutant: the browser does not know of the lock.
InteractiveUnlocked(d) ==
  /\ d \in tab.from..(tab.from + DurationDays - 1) /\ d \notin tab.rules.shut /\ d >= today
  /\ tab.draft[d] # None \/ d \in tab.free

\* Mutant: the rules that have come do not matter.
InteractiveUnruled(d) ==
  /\ d \in tab.from..(tab.from + DurationDays - 1) /\ d >= today /\ ~Locked(d)
  /\ tab.draft[d] # None \/ d \in tab.free

IsDayInteractive(d) ==
  /\ d \in tab.from..(tab.from + DurationDays - 1) /\ d \notin tab.rules.shut /\ d >= today /\ ~Locked(d)
  /\ tab.draft[d] # None \/ d \in tab.free

\* setQty.  (What is changed while a save is on its way is gone when the calendar loads again.)
SetQty(new) ==
  /\ tab.doing \in {"open", "refused"} /\ tab.taps < MaxTaps
  /\ new # tab.draft
  /\ tab' = [tab EXCEPT !.doing = "open", !.draft = new, !.changed = TRUE, !.filled = FALSE, !.taps = @ + 1]
  /\ UNCHANGED <<credits, newest, pickups, others, opsEnd, today, clock, saves, events>>

\* One day, one meal more or less.
TapDay(d, m) ==
  /\ IsDayInteractive(d)
  /\ \/ PoolLeft > 0 /\ d \in tab.free /\ SetQty([tab.draft EXCEPT ![d][m] = @ + 1])
     \/ tab.draft[d][m] > 0 /\ SetQty([tab.draft EXCEPT ![d][m] = @ - 1])

\* handleDayTap: the first and the last of several days.
Tapped(from, to) == {d \in from..to : IsDayInteractive(d)}

\* Several days: what the one with the fewest has, one more or less, for all of them.
TapRange(from, to, m) ==
  LET D == Tapped(from, to)
      fewest == CHOOSE n \in {tab.draft[d][m] : d \in D} : \A d \in D : n <= tab.draft[d][m]
      \* no more than there is room for
      more == [d \in D |-> IF d \in tab.free THEN fewest + 1 ELSE Least(fewest + 1, tab.draft[d][m])]
      With(n) == [d \in Days |-> IF d \in D THEN [tab.draft[d] EXCEPT ![m] = n[d]] ELSE tab.draft[d]]
  IN
  /\ Cardinality(D) > 1
  /\ \/ fewest < PoolLeft /\ SetQty(With(more))
     \/ fewest > 0 /\ SetQty(With([d \in D |-> fewest - 1]))

ClearAll ==
  SetQty([d \in Days |-> IF d < today \/ Locked(d) THEN tab.draft[d] ELSE None])

---------------------------------------------------------------------------
(* Saving *)

\* Mutant: the meals are dealt to one plan more than there are.
DealtWrong(w, i, N) ==
  LET Share(m, d) ==
        LET before == SumOf([e \in Days |-> w[e][m]], {e \in Days : e < d})
        IN Cardinality({k \in before..(before + w[d][m] - 1) : k % (N + 1) = i - 1})
  IN [d \in Days |-> [lunch |-> Share("lunch", d), dinner |-> Share("dinner", d)]]

\* The meals of a draft by date, lunches and dinners apart, dealt to N plans in turn: those of
\* the i-th.
Dealt(w, i, N) ==
  LET Share(m, d) ==
        LET before == SumOf([e \in Days |-> w[e][m]], {e \in Days : e < d})
        IN Cardinality({k \in before..(before + w[d][m] - 1) : k % N = i - 1})
  IN [d \in Days |-> [lunch |-> Share("lunch", d), dinner |-> Share("dinner", d)]]

\* handleConfirm: there is something to come, and it was changed or uses all meals.
HandleConfirm ==
  /\ saves < MaxSaves /\ saves' = saves + 1
  /\ tab.doing \in {"open", "refused"}
  /\ \E d \in FilledDays(tab.draft) : d >= today
  /\ tab.changed \/ PoolLeft <= 0
  /\ tab' = [tab EXCEPT !.doing = "saving", !.next = 1, !.touched = FALSE]
  /\ UNCHANGED <<credits, newest, pickups, others, opsEnd, today, clock, events>>

\* assertLockedDeliveriesUnchanged
LockedKept(p, w) ==
  \A d \in Days : pickups[p][d].status = "SCHEDULED" /\ Locked(d) => w[d] = pickups[p][d].meals

\* What scheduleDeliveries checks.
Accepted(p, w) ==
  /\ FilledDays(w) # {} /\ Total(w, Days) <= credits[p]
  /\ \A d \in FilledDays(w) :
       /\ pickups[p][d].status = "none" => d \in Earliest..WindowEnd /\ ~IsDateClosed(d)
       /\ PacksAt(d, Subscriptions \ {p}) + others[d] + PacksIn(w[d]) <= DailyPacks
  /\ LockedKept(p, w)

\* What it writes: the days that are not frozen.
Rescheduled(p, w) ==
  LET frozen(d) == \/ pickups[p][d].status \in {"DELIVERED", "SKIPPED"}
                   \/ pickups[p][d].status = "SCHEDULED" /\ Locked(d)
  IN [pickups EXCEPT ![p] = [d \in Days |->
        IF frozen(d) THEN pickups[p][d]
        ELSE IF w[d] = None THEN NoPickup ELSE [status |-> "SCHEDULED", meals |-> w[d]]]]

\* The calendar is loaded again.
Saved == [Closed EXCEPT !.doing = "saved", !.plans = tab.plans, !.draft = tab.draft, !.touched = tab.touched]

\* The mutant goes on with the next plan when one is refused.
PersistRegardless ==
  LET p == tab.plans[tab.next]
      w == Dealt(tab.draft, tab.next, Len(tab.plans))
  IN
  /\ tab.doing = "saving"
  /\ pickups' = IF Accepted(p, w) THEN Rescheduled(p, w) ELSE pickups
  /\ tab' = IF tab.next = Len(tab.plans) THEN Saved
            ELSE [tab EXCEPT !.next = @ + 1]
  /\ UNCHANGED <<credits, newest, others, opsEnd, today, clock, saves, events>>

\* persistSchedule: the request for the next plan.  If one is refused, the plans before it are saved
\* and those after it are not.
PersistSchedule ==
  LET p == tab.plans[tab.next]
      w == Dealt(tab.draft, tab.next, Len(tab.plans))
  IN
  /\ tab.doing = "saving"
  /\ \/ /\ Accepted(p, w)
        /\ pickups' = Rescheduled(p, w)
        /\ tab' = IF tab.next = Len(tab.plans) THEN Saved
                  ELSE [tab EXCEPT !.next = @ + 1]
     \/ ~Accepted(p, w) /\ tab' = [tab EXCEPT !.doing = "refused", !.next = 0] /\ UNCHANGED pickups
  /\ UNCHANGED <<credits, newest, others, opsEnd, today, clock, saves, events>>

---------------------------------------------------------------------------
(* Everybody else *)

Event(wrote) ==
  /\ events < MaxEvents /\ events' = events + 1
  /\ tab' = IF tab.doing = "closed" THEN Closed
            ELSE [tab EXCEPT !.stale = TRUE,
                             !.touched = @ \/ (wrote /\ tab.doing \in {"saving", "saved"})]

\* The member buys another plan.
Buy ==
  /\ newest > 1 /\ newest' = newest - 1
  /\ UNCHANGED <<credits, pickups, others, opsEnd, today, clock, tab, saves, events>>

\* Other members book the rest of a day.
FillDay(d) ==
  /\ Event(FALSE)
  /\ PacksAt(d, Subscriptions) < DailyPacks
  /\ others' = [others EXCEPT ![d] = DailyPacks - PacksAt(d, Subscriptions)]
  /\ UNCHANGED <<credits, newest, pickups, opsEnd, today, clock, saves>>

\* The counter hands out what there is today (collectBentoPickup).
Collect ==
  /\ \E p \in Subscriptions : today \in Days /\ pickups[p][today].status = "SCHEDULED"
  /\ pickups' = [p \in 1..Sets |-> [d \in Days |->
       IF d = today /\ pickups[p][d].status = "SCHEDULED" THEN [pickups[p][d] EXCEPT !.status = "DELIVERED"]
       ELSE pickups[p][d]]]
  /\ UNCHANGED <<credits, newest, others, opsEnd, today, clock, tab, saves, events>>

\* closeBentoOperations, and the settings form that takes it back.
CloseOperations(cutoff) ==
  /\ Event(TRUE)
  /\ opsEnd' = cutoff
  /\ pickups' = [p \in 1..Sets |-> [d \in Days |->
       IF d > cutoff /\ pickups[p][d].status = "SCHEDULED" THEN [pickups[p][d] EXCEPT !.status = "SKIPPED"]
       ELSE pickups[p][d]]]
  /\ UNCHANGED <<credits, newest, others, today, clock, saves>>

Reopen ==
  /\ opsEnd # NoEnd /\ opsEnd' = NoEnd
  /\ UNCHANGED <<credits, newest, pickups, others, today, clock, tab, saves, events>>

\* Staff change a day of a plan, whatever its date (adminScheduleDeliveries).
StaffSchedule(p, d, m) ==
  /\ Event(TRUE)
  /\ pickups[p][d].status \in {"none", "SCHEDULED"} /\ m # pickups[p][d].meals
  /\ Total([MergeDeliveries({p}) EXCEPT ![d] = m], Days) <= credits[p]
  /\ pickups' = [pickups EXCEPT ![p][d] =
       IF m = None THEN NoPickup ELSE [status |-> "SCHEDULED", meals |-> m]]
  /\ UNCHANGED <<credits, newest, others, opsEnd, today, clock, saves>>

TimePasses ==
  /\ \/ clock = "open" /\ clock' = "locked" /\ UNCHANGED today
     \/ clock = "locked" /\ clock' = "late" /\ UNCHANGED today
     \/ clock = "late" /\ today < MaxDay /\ clock' = "open" /\ today' = today + 1
  /\ tab' = IF tab.doing = "closed" THEN Closed ELSE [tab EXCEPT !.stale = TRUE]
  /\ UNCHANGED <<credits, newest, pickups, others, opsEnd, saves, events>>

CalendarNext ==
  \/ OpenCalendar \/ LoadRules \/ LoadCapacity \/ CloseCalendar
  \/ \E m \in {"lunch", "dinner"} :
       \/ \E d \in Days : TapDay(d, m)
       \/ \E from, to \in Days : TapRange(from, to, m)
  \/ ClearAll \/ HandleConfirm \/ PersistSchedule
  \/ Buy \/ Collect \/ Reopen \/ TimePasses
  \/ \E d \in Days : FillDay(d)
  \/ \E cutoff \in 0..(MaxDay - 1) : CloseOperations(cutoff)
  \/ \E p \in Subscriptions, d \in Days, m \in [lunch : 0..1, dinner : {0}] : StaffSchedule(p, d, m)

CalendarSpec == CalendarInit /\ [][CalendarNext]_calendarVars

---------------------------------------------------------------------------
(* Properties *)

\* When the calendar says that a draft is saved, the rows of the plans together are the draft,
\* however the clock and the counter went on; days handed out or skipped excepted, and what
\* others write while the requests are on their way (persistSchedule).
SavedIsDrafted ==
  LET P == ToSet(tab.plans) IN
  tab.doing = "saved" /\ ~tab.touched =>
    \A d \in Days :
      (\A p \in P : pickups[p][d].status \notin {"DELIVERED", "SKIPPED"}) =>
        MergeDeliveries(P)[d] = tab.draft[d]

\* The rules close a day that was in the draft before they came.
FilledTooEarly == \E d \in FilledDays(tab.draft) \cap tab.rules.early : IsDateClosed(d)

\* Several plans share a draft that was changed or is of unequal plans, or a change of several days
\* took more than the pool.
DealtUnevenly ==
  LET P == ToSet(tab.plans) IN
  \/ Cardinality(P) > 1 /\ ~(tab.filled /\ \A p, q \in P : credits[p] = credits[q])
  \/ ~tab.filled /\ Total(tab.draft, Days) > Pool(P)

\* The kitchen has no room.
NoRoom ==
  \E d \in Days :
    PacksAt(d, Subscriptions \ ToSet(tab.plans)) + others[d] + PacksIn(tab.draft[d]) > DailyPacks

\* What a refusal may be due to, if nothing has changed since the calendar was loaded.
Excused == tab.stale \/ FilledTooEarly \/ DealtUnevenly \/ NoRoom

\* Once the browser has the server's rules, it has the same: what the calendar then offers for one
\* plan, or has filled in by itself on days that are open, is refused for no reason but those
\* that Excused names (isDayInteractive, buildAutoFill, validateScheduleSlots).
OfferedIsAccepted ==
  [][tab.doing = "saving" /\ tab'.doing = "refused" => Excused]_calendarVars

\* Auto-fill is of eligible days: what is filled in is not refused on account of the rules, least
\* of all when they have come (buildAutoFill).
AutoFillIsEligible ==
  [][tab.doing = "saving" /\ tab'.doing = "refused" /\ tab.filled /\ tab.rules.known =>
       tab.stale \/ DealtUnevenly \/ NoRoom]_calendarVars
=============================================================================
