------------------------ MODULE BentoScheduleProofs ------------------------
(***************************************************************************)
(* Proofs about BentoSchedule, for any number of plans, days, credits and    *)
(* requests, any rules about dates, and whatever may happen; and the types   *)
(* of the instance that joins it with Calendar.                             *)
(***************************************************************************)
EXTENDS MCBentoSchedule, CalendarProofs, FiniteSetTheorems, TLAPS

SaveSteps == {"capacity", "delete", "wait", "create"}

\* The step of a request and its kind go together.
Shape ==
  \A r \in Requests :
    /\ req[r].kind = "none" => req[r] = Idle
    /\ req[r].kind \in Saves <=> req[r].step \in SaveSteps
    /\ req[r].kind \in Saves => req[r].plan \in Plans /\ req[r].ids \subseteq {req[r].plan} \X Days
    /\ req[r].kind = "collect" <=> req[r].step = "mark"
    /\ req[r].kind = "close" <=> req[r].step \in {"end", "skip"}

TypeInv == TypeOK /\ Shape

---------------------------------------------------------------------------
(* Types *)

\* The local state of an idle request has its type.
LEMMA IdleTyped == Idle \in LocalState
  <1>1. 0 \in 0..Credits /\ 0 \in 0..MaxDay
    BY NumberAssumption
  <1>2. Nothing \in [Days -> 0..Credits] /\ [d \in Days |-> NoRow] \in [Days -> Row]
    BY <1>1 DEF Nothing, NoRow, Row, RowStatus
  <1>3. QED BY <1>1, <1>2 DEF Idle, LocalState

\* A request that has read what it schedules.
Saving(c) ==
  /\ c \in LocalState /\ c.kind \in Saves /\ c.step = "capacity"
  /\ c.plan \in Plans /\ c.ids \subseteq {c.plan} \X Days

\* What a request goes on with after its checks.
Decided(c) ==
  [c EXCEPT !.step = "delete", !.left = {}, !.seen = Idle.seen,
            !.read = {c.plan} \X {d \in Days : Frozen(c, d)},
            !.ids = {i \in @ : Kept(c, i[2])}]

\* A request that decides is refused, or has decided and nobody else moves.
LEMMA DecideFacts ==
  ASSUME TypeOK, NEW r \in Requests, NEW c, Saving(c), Decide(r, c)
  PROVE  /\ \A q \in Requests : q # r => req'[q] = req[q]
         /\ req'[r] = Idle \/ req'[r] = Decided(c)
         /\ req' \in [Requests -> LocalState]
  <1>1. Decided(c) \in LocalState
    <2>1. {c.plan} \X {d \in Days : Frozen(c, d)} \subseteq Pickups
      BY DEF Saving, Pickups
    <2>2. {i \in c.ids : Kept(c, i[2])} \subseteq Pickups
      BY DEF Saving, LocalState
    <2>3. Idle.seen \in [Days -> Row]
      BY IdleTyped DEF LocalState
    <2>4. QED BY <2>1, <2>2, <2>3 DEF Decided, Saving, LocalState
  <1>2. req' = [req EXCEPT ![r] = Decided(c)] \/ req' = [req EXCEPT ![r] = Idle]
    BY DEF Decide, Decided
  <1>3. QED BY <1>1, <1>2, IdleTyped DEF TypeOK

\* What a request that schedules has read when it begins.
Begun(k, p, w) ==
  [Idle EXCEPT !.kind = k, !.step = "capacity", !.plan = p, !.wanted = w,
               !.left = Dates(w), !.seen = row[p],
               !.ids = {p} \X {d \in Days : ~Is(p, d, "none")}]

\* What a schedule request has read makes it a saving one.
LEMMA BegunSaving ==
  ASSUME TypeOK, NEW k \in Saves, NEW p \in Plans, NEW w \in Slots
  PROVE  Saving(Begun(k, p, w))
  <1>1. w \in [Days -> 0..Credits]
    BY DEF Slots
  <1>2. {p} \X {d \in Days : ~Is(p, d, "none")} \subseteq Pickups
    BY DEF Pickups
  <1>3. Dates(w) \subseteq Days /\ row[p] \in [Days -> Row]
    BY DEF Dates, TypeOK
  <1>4. QED BY <1>1, <1>2, <1>3, IdleTyped DEF Saving, Begun, LocalState, Saves

\* The four steps before the rows are created write the request's own state only.
Own(r) ==
  \/ \E k \in Saves, p \in Plans, w \in Slots : ScheduleRead(r, k, p, w)
  \/ CheckCapacity(r) \/ DeleteScheduled(r) \/ DeleteResumed(r)

\* A schedule request is refused, checks capacity (a member), or decides at once (staff).
LEMMA ReadFacts ==
  ASSUME TypeOK, NEW r \in Requests, NEW k \in Saves, NEW p \in Plans, NEW w \in Slots,
         ScheduleRead(r, k, p, w)
  PROVE  /\ \A q \in Requests : q # r => req'[q] = req[q]
         /\ req' \in [Requests -> LocalState]
         /\ Saving(Begun(k, p, w))
         /\ \/ req'[r] = Idle
            \/ req'[r] = Begun(k, p, w) /\ k = "member"
            \/ req'[r] = Decided(Begun(k, p, w)) /\ k # "member"
  <1>1. PICK c : c = Begun(k, p, w)
    OBVIOUS
  <1>2. Saving(c)
    BY <1>1, BegunSaving
  <1>3. CASE k # "member"
    BY <1>1, <1>2, <1>3, DecideFacts DEF ScheduleRead, Begun
  <1>4. CASE k = "member"
    <2>1. req' = [req EXCEPT ![r] = c]
      BY <1>1, <1>4 DEF ScheduleRead, Begun
    <2>2. QED BY <1>1, <1>2, <1>4, <2>1 DEF TypeOK, Saving
  <1>5. QED BY <1>3, <1>4

\* A capacity check is refused, goes on to the next day, or ends in the decision.
LEMMA CheckFacts ==
  ASSUME TypeOK, Shape, NEW r \in Requests, CheckCapacity(r)
  PROVE  /\ \A q \in Requests : q # r => req'[q] = req[q]
         /\ req' \in [Requests -> LocalState]
         /\ Saving(req[r])
         /\ \/ req'[r] = Idle
            \/ req'[r] = Decided(req[r])
            \/ \E d : req'[r] = [req[r] EXCEPT !.left = @ \ {d}]
  <1>1. PICK c : c = req[r]
    OBVIOUS
  <1>2. Saving(c)
    BY <1>1 DEF CheckCapacity, At, Saving, Shape, SaveSteps, TypeOK
  <1>3. CASE Decide(r, c)
    BY <1>1, <1>2, <1>3, DecideFacts
  <1>4. CASE Done(r)
    BY <1>1, <1>2, <1>4, IdleTyped DEF Done, TypeOK
  <1>5. CASE \E d : req' = [req EXCEPT ![r].left = @ \ {d}]
    <2>1. PICK d : req' = [req EXCEPT ![r] = [c EXCEPT !.left = @ \ {d}]]
      BY <1>1, <1>5
    <2>2. [c EXCEPT !.left = @ \ {d}] \in LocalState
      BY <1>2 DEF Saving, LocalState
    <2>3. QED BY <1>1, <1>2, <2>1, <2>2 DEF TypeOK
  <1>6. QED BY <1>1, <1>3, <1>4, <1>5 DEF CheckCapacity

Scheduled(i) == Is(i[1], i[2], "SCHEDULED")

\* The transaction of a request goes for these rows, and has them or waits for them.
Deletes(r, X, s) ==
  /\ s = "create" => Free(r, X) /\ \A i \in X : Scheduled(i)
  /\ At(r, "delete") =>
       X = {req[r].plan} \X {d \in Days : Deletable(req[r].plan, d, req[r].ids)}
  /\ At(r, "wait") => X = {i \in req[r].ids : Scheduled(i)}

\* The rows a transaction deletes are scheduled ones of its plan.
LEMMA DeleteFacts ==
  ASSUME TypeOK, Shape, NEW r \in Requests, DeleteScheduled(r) \/ DeleteResumed(r)
  PROVE  /\ \A q \in Requests : q # r => req'[q] = req[q]
         /\ req' \in [Requests -> LocalState]
         /\ req[r] \in LocalState /\ req[r].kind \in Saves /\ req[r].plan \in Plans
         /\ At(r, "delete") \/ At(r, "wait")
         /\ \E X \in SUBSET ({req[r].plan} \X Days), s \in {"wait", "create"} :
              req'[r] = [req[r] EXCEPT !.ids = X, !.step = s] /\ Deletes(r, X, s)
  <1>1. /\ req[r] \in LocalState /\ req[r].kind \in Saves
        /\ req[r].plan \in Plans /\ req[r].ids \subseteq {req[r].plan} \X Days
    BY DEF DeleteScheduled, DeleteResumed, At, Shape, SaveSteps, TypeOK
  <1>2. ASSUME NEW X \in SUBSET ({req[r].plan} \X Days), NEW s \in {"wait", "create"},
               req' = [req EXCEPT ![r] = [req[r] EXCEPT !.ids = X, !.step = s]]
        PROVE  /\ \A q \in Requests : q # r => req'[q] = req[q]
               /\ req' \in [Requests -> LocalState]
               /\ req'[r] = [req[r] EXCEPT !.ids = X, !.step = s]
    <2>1. [req[r] EXCEPT !.ids = X, !.step = s] \in LocalState
      BY <1>1, <1>2, ZenonT(60) DEF LocalState, Pickups
    <2>2. QED BY <1>2, <2>1 DEF TypeOK
  <1>3. CASE DeleteScheduled(r)
    <2>1. PICK X \in SUBSET ({req[r].plan} \X Days) :
            X = {req[r].plan} \X {d \in Days : Deletable(req[r].plan, d, req[r].ids)}
      OBVIOUS
    <2>2. PICK s \in {"wait", "create"} : s = IF Free(r, X) THEN "create" ELSE "wait"
      OBVIOUS
    <2>3. At(r, "delete") /\ req' = [req EXCEPT ![r] = [req[r] EXCEPT !.ids = X, !.step = s]]
      BY <1>3, <2>1, <2>2 DEF DeleteScheduled
    <2>4. ~At(r, "wait")
      BY <2>3 DEF At
    <2>5. Deletes(r, X, s)
      BY <2>1, <2>2, <2>4 DEF Deletable, Deletes, Scheduled
    <2>6. QED BY <1>1, <1>2, <2>3, <2>5
  <1>4. CASE DeleteResumed(r)
    <2>1. PICK X \in SUBSET ({req[r].plan} \X Days) :
            X = {i \in req[r].ids : Is(i[1], i[2], "SCHEDULED")}
      BY <1>1
    <2>2. At(r, "wait") /\ req' = [req EXCEPT ![r] = [req[r] EXCEPT !.ids = X, !.step = "create"]]
      BY <1>4, <2>1 DEF DeleteResumed
    <2>3. Free(r, X)
      BY <1>4, <2>1 DEF DeleteResumed, Free
    <2>4. ~At(r, "delete") /\ X = {i \in req[r].ids : Scheduled(i)}
      BY <2>1, <2>2 DEF At, Scheduled
    <2>5. Deletes(r, X, "create")
      BY <2>3, <2>4 DEF Deletes
    <2>6. QED BY <1>1, <1>2, <2>2, <2>5
  <1>5. QED BY <1>3, <1>4

SaveState(c) ==
  /\ c.kind \in Saves /\ c.step \in SaveSteps
  /\ c.plan \in Plans /\ c.ids \subseteq {c.plan} \X Days

\* What a request does on its way leaves the plan's rows and the clock alone.
LEMMA OwnFacts ==
  ASSUME TypeInv, NEW r \in Requests, Own(r)
  PROVE  /\ \A q \in Requests : q # r => req'[q] = req[q]
         /\ req' \in [Requests -> LocalState] /\ Shape'
         /\ UNCHANGED <<surprise, today, clock, opsEnd, closedOn, plan, row, handed>>
         /\ calls' \in 0..MaxCalls
         /\ req'[r] = Idle \/ req'[r].kind \in Saves
  <1>1. TypeOK /\ Shape
    BY DEF TypeInv
  <1>2. UNCHANGED <<surprise, today, clock, opsEnd, closedOn, plan, row, handed>>
    BY DEF Own, ScheduleRead, CheckCapacity, DeleteScheduled, DeleteResumed
  <1>3. calls' \in 0..MaxCalls
    <2>1. calls' = calls \/ (calls < MaxCalls /\ calls' = calls + 1)
      BY ZenonT(60) DEF Own, ScheduleRead, Begin, CheckCapacity, DeleteScheduled, DeleteResumed
    <2>2. MaxCalls \in Nat /\ calls \in 0..MaxCalls
      BY <1>1, NumberAssumption DEF TypeOK
    <2>3. QED BY <2>1, <2>2
  <1>4. ASSUME NEW c, Saving(c)
        PROVE  SaveState(c) /\ SaveState(Decided(c))
    BY <1>4 DEF Saving, Decided, LocalState, SaveState, SaveSteps
  <1>5. ASSUME NEW k \in Saves, NEW p \in Plans, NEW w \in Slots, ScheduleRead(r, k, p, w)
        PROVE  /\ \A q \in Requests : q # r => req'[q] = req[q]
               /\ req' \in [Requests -> LocalState] /\ (req'[r] = Idle \/ SaveState(req'[r]))
    <2>1. PICK c : c = Begun(k, p, w)
      OBVIOUS
    <2>2. QED BY <1>1, <1>4, <1>5, <2>1, ReadFacts
  <1>6. ASSUME CheckCapacity(r)
        PROVE  /\ \A q \in Requests : q # r => req'[q] = req[q]
               /\ req' \in [Requests -> LocalState] /\ (req'[r] = Idle \/ SaveState(req'[r]))
    <2>1. PICK c : c = req[r]
      OBVIOUS
    <2>2. ASSUME NEW d, Saving(c) PROVE SaveState([c EXCEPT !.left = @ \ {d}])
      BY <2>2 DEF Saving, SaveState, SaveSteps, LocalState
    <2>3. /\ \A q \in Requests : q # r => req'[q] = req[q]
          /\ req' \in [Requests -> LocalState] /\ Saving(c)
          /\ \/ req'[r] = Idle \/ req'[r] = Decided(c)
             \/ \E d : req'[r] = [c EXCEPT !.left = @ \ {d}]
      BY <1>1, <1>6, <2>1, CheckFacts
    <2>4. req'[r] = Idle \/ SaveState(req'[r])
      BY <1>4, <2>2, <2>3
    <2>5. QED BY <2>3, <2>4
  <1>7. ASSUME DeleteScheduled(r) \/ DeleteResumed(r)
        PROVE  /\ \A q \in Requests : q # r => req'[q] = req[q]
               /\ req' \in [Requests -> LocalState] /\ (req'[r] = Idle \/ SaveState(req'[r]))
    <2>1. PICK X \in SUBSET ({req[r].plan} \X Days), s \in {"wait", "create"} :
            req'[r] = [req[r] EXCEPT !.ids = X, !.step = s] /\ Deletes(r, X, s)
      BY <1>1, <1>7, DeleteFacts
    <2>2. /\ \A q \in Requests : q # r => req'[q] = req[q]
          /\ req' \in [Requests -> LocalState]
          /\ req[r] \in LocalState /\ req[r].kind \in Saves /\ req[r].plan \in Plans
      BY <1>1, <1>7, DeleteFacts
    <2>3. SaveState(req'[r])
      BY <2>1, <2>2 DEF SaveState, SaveSteps, LocalState
    <2>4. QED BY <2>2, <2>3
  <1>8. /\ \A q \in Requests : q # r => req'[q] = req[q]
        /\ req' \in [Requests -> LocalState] /\ (req'[r] = Idle \/ SaveState(req'[r]))
    BY <1>5, <1>6, <1>7 DEF Own
  <1>9. Shape'
    <2>1. CASE req'[r] = Idle
      <3>1. req'[r].kind = "none" /\ req'[r].step = "idle"
        BY <2>1 DEF Idle
      <3>2. QED BY <1>1, <1>8, <2>1, <3>1 DEF Shape, Saves, SaveSteps
    <2>2. CASE SaveState(req'[r])
      BY <1>1, <1>8, <2>2 DEF SaveState, Shape, Saves, SaveSteps
    <2>3. QED BY <1>8, <2>1, <2>2
  <1>10. QED BY <1>2, <1>3, <1>8, <1>9 DEF SaveState

\* What creating the rows leaves of the other requests.
Without(c, ids) == [c EXCEPT !.ids = @ \ ids]

\* Who writes the rows is done; others lose the deleted rows from what they would change.
LEMMA CreateFacts ==
  ASSUME TypeInv, NEW r \in Requests, CreateRows(r)
  PROVE  /\ req'[r] = Idle
         /\ \/ UNCHANGED row /\ \A q \in Requests : q # r => req'[q] = req[q]
            \/ \A q \in Requests : q # r => req'[q] = Without(req[q], req[r].ids)
         /\ \A q \in Requests :
              q # r => /\ req'[q].kind = req[q].kind /\ req'[q].step = req[q].step
                       /\ req'[q].plan = req[q].plan /\ req'[q].wanted = req[q].wanted
                       /\ req'[q].seen = req[q].seen /\ req'[q].read = req[q].read
                       /\ req'[q].cutoff = req[q].cutoff /\ req'[q].late = req[q].late
                       /\ req'[q].ids \subseteq req[q].ids
         /\ req' \in [Requests -> LocalState] /\ row' \in [Plans -> [Days -> Row]] /\ Shape'
  <1>1. TypeOK /\ Shape /\ At(r, "create") /\ req[r] \in LocalState /\ req[r].plan \in Plans
    BY DEF TypeInv, CreateRows, At, Shape, SaveSteps, TypeOK
  <1>2. \A q \in Requests : /\ req[q] \in LocalState
                            /\ Without(req[q], req[r].ids) \in LocalState
    BY <1>1 DEF TypeOK, LocalState, Without
  <1>3. CASE Done(r) /\ UNCHANGED row
    <2>1. /\ \A q \in Requests : q # r => req'[q] = req[q]
          /\ req'[r] = Idle /\ req' \in [Requests -> LocalState]
      BY <1>1, <1>3, IdleTyped DEF Done, TypeOK
    <2>2. Shape'
      BY <1>1, <2>1 DEF Shape, Idle, Saves, SaveSteps
    <2>3. QED BY <1>1, <1>3, <2>1, <2>2 DEF TypeOK
  <1>4. CASE ~(Done(r) /\ UNCHANGED row)
    <2>1. req' = [q \in Requests |-> IF q = r THEN Idle ELSE Without(req[q], req[r].ids)]
      BY <1>4 DEF CreateRows, Without
    <2>2. req' \in [Requests -> LocalState] /\ req'[r] = Idle
      BY <1>2, <2>1, IdleTyped
    <2>3. \A q \in Requests : q # r =>
            /\ req'[q] = Without(req[q], req[r].ids)
            /\ req'[q].kind = req[q].kind /\ req'[q].step = req[q].step
            /\ req'[q].plan = req[q].plan /\ req'[q].wanted = req[q].wanted
            /\ req'[q].seen = req[q].seen /\ req'[q].read = req[q].read
            /\ req'[q].cutoff = req[q].cutoff /\ req'[q].late = req[q].late
            /\ req'[q].ids \subseteq req[q].ids
      BY <1>2, <2>1 DEF Without, LocalState
    <2>4. row' \in [Plans -> [Days -> Row]]
      <3>1. ASSUME NEW d \in Days
            PROVE  /\ [status |-> "SCHEDULED", packs |-> req[r].wanted[d]] \in Row
                   /\ NoRow \in Row /\ row[req[r].plan][d] \in Row
        BY <1>1, NumberAssumption DEF Row, NoRow, RowStatus, LocalState, TypeOK
      <3>2. PICK p \in Plans : p = req[r].plan
        BY <1>1
      <3>3. \E D, C \in SUBSET Days :
              row' = [row EXCEPT ![p] = [d \in Days |->
                        IF d \in C THEN [status |-> "SCHEDULED", packs |-> req[r].wanted[d]]
                        ELSE IF d \in D THEN NoRow ELSE row[p][d]]]
        <4> DEFINE D == {d \in Days : <<p, d>> \in req[r].ids}
                   C == {d \in Dates(req[r].wanted) : <<p, d>> \notin req[r].read}
        <4>1. C \in SUBSET Days /\ D \in SUBSET Days
          BY DEF Dates
        <4>2. row' = [row EXCEPT ![p] = [d \in Days |->
                        IF d \in C THEN [status |-> "SCHEDULED", packs |-> req[r].wanted[d]]
                        ELSE IF d \in D THEN NoRow ELSE row[p][d]]]
          BY <1>4, <3>2 DEF CreateRows
        <4>3. QED BY <4>1, <4>2
      <3>4. PICK f \in [Days -> Row] : row' = [row EXCEPT ![p] = f]
        BY <3>1, <3>2, <3>3
      <3>5. QED BY <1>1, <3>4 DEF TypeOK
    <2>5. Shape'
      <3>1. ASSUME NEW q \in Requests, q # r, req[q].kind = "none" PROVE req'[q] = Idle
        <4>1. req[q] = Idle
          BY <1>1, <3>1 DEF Shape
        <4>2. [Idle EXCEPT !.ids = {}] = Idle
          <5>1. PICK i : i = Idle
            OBVIOUS
          <5>2. i \in LocalState /\ i.ids = {}
            BY <5>1, IdleTyped DEF Idle
          <5>3. [i EXCEPT !.ids = {}] = i
            BY <5>2 DEF LocalState
          <5>4. QED BY <5>1, <5>3
        <4>3. Idle.ids \ req[r].ids = {}
          BY DEF Idle
        <4>4. QED BY <2>3, <3>1, <4>1, <4>2, <4>3 DEF Without
      <3>2. Idle.kind = "none" /\ Idle.step = "idle"
        BY DEF Idle
      <3>3. ASSUME NEW q \in Requests, q # r
            PROVE  /\ req'[q].kind = "none" => req'[q] = Idle
                   /\ req'[q].kind \in Saves <=> req'[q].step \in SaveSteps
                   /\ req'[q].kind \in Saves =>
                        req'[q].plan \in Plans /\ req'[q].ids \subseteq {req'[q].plan} \X Days
                   /\ req'[q].kind = "collect" <=> req'[q].step = "mark"
                   /\ req'[q].kind = "close" <=> req'[q].step \in {"end", "skip"}
        BY <1>1, <2>3, <3>1, <3>3 DEF Shape
      <3>4. QED BY <2>2, <3>2, <3>3 DEF Shape, Saves, SaveSteps
    <2>6. QED BY <2>2, <2>3, <2>4, <2>5
  <1>5. QED BY <1>3, <1>4

\* Setting the status of rows keeps their type.
LEMMA MarkedTyped ==
  ASSUME TypeOK, NEW ids, NEW s \in RowStatus
  PROVE  Marked(ids, s) \in [Plans -> [Days -> Row]]
  <1>1. ASSUME NEW p \in Plans, NEW d \in Days
        PROVE  row[p][d] \in Row /\ [row[p][d] EXCEPT !.status = s] \in Row
    <2>1. row[p][d] \in Row
      BY DEF TypeOK
    <2>2. QED BY <2>1 DEF Row
  <1>2. QED BY <1>1 DEF Marked

\* The counter and the closing of operations.
Staff(r) ==
  \/ CollectRead(r) \/ CollectMark(r) \/ CloseSave(r) \/ CloseSkip(r) \/ CloseDies(r)
  \/ \E cutoff \in 0..(MaxDay - 1) : CloseRead(r, cutoff)

\* Collecting and closing concern nobody else.
LEMMA StaffFacts ==
  ASSUME TypeInv, NEW r \in Requests, Staff(r)
  PROVE  /\ \A q \in Requests : q # r => req'[q] = req[q]
         /\ TypeOK' /\ Shape'
         /\ req'[r] = Idle \/ req'[r].kind \in {"collect", "close"}
         /\ UNCHANGED <<surprise, today, clock, plan>>
  <1>1. TypeOK /\ Shape
    BY DEF TypeInv
  <1>2. ASSUME req' = [req EXCEPT ![r] = Idle]
        PROVE  /\ \A q \in Requests : q # r => req'[q] = req[q]
               /\ req'[r] = Idle /\ req' \in [Requests -> LocalState] /\ Shape'
    BY <1>1, <1>2, IdleTyped DEF TypeOK, Shape, Idle, Saves, SaveSteps
  <1>3. ASSUME NEW c \in LocalState, req' = [req EXCEPT ![r] = c],
               \/ c.kind = "collect" /\ c.step = "mark"
               \/ c.kind = "close" /\ c.step \in {"end", "skip"}
        PROVE  /\ \A q \in Requests : q # r => req'[q] = req[q]
               /\ req'[r] = c /\ req' \in [Requests -> LocalState] /\ Shape'
               /\ req'[r].kind \in {"collect", "close"}
    BY <1>1, <1>3 DEF TypeOK, Shape, Saves, SaveSteps
  <1>4. ASSUME NEW k, Begin(r, k) PROVE calls' \in 0..MaxCalls
    <2>1. MaxCalls \in Nat /\ calls \in 0..MaxCalls
      BY <1>1, NumberAssumption DEF TypeOK
    <2>2. QED BY <1>4, <2>1 DEF Begin
  <1>5. CASE CollectRead(r)
    <2>1. PICK X \in SUBSET Pickups :
            req' = [req EXCEPT ![r] = [Idle EXCEPT !.kind = "collect", !.step = "mark",
                                                   !.read = X, !.ids = X]]
      BY <1>5 DEF CollectRead
    <2>2. [Idle EXCEPT !.kind = "collect", !.step = "mark", !.read = X, !.ids = X] \in LocalState
      BY IdleTyped DEF LocalState
    <2>3. PICK c \in LocalState :
            c = [Idle EXCEPT !.kind = "collect", !.step = "mark", !.read = X, !.ids = X]
      BY <2>2
    <2>4. c.kind = "collect" /\ c.step = "mark"
      BY <2>3, IdleTyped DEF LocalState
    <2>5. QED BY <1>1, <1>3, <1>4, <1>5, <2>1, <2>3, <2>4 DEF CollectRead, TypeOK
  <1>6. CASE CollectMark(r)
    <2>1. handed' \in [Plans -> [Days -> 0..MaxHandOuts]]
      <3>1. ASSUME NEW p \in Plans, NEW d \in Days
            PROVE  handed[p][d] + (IF <<p, d>> \in req[r].read THEN 1 ELSE 0) \in 0..MaxHandOuts
        <4>1. handed[p][d] \in 0..MaxHandOuts /\ MaxHandOuts \in Nat
          BY <1>1, NumberAssumption DEF TypeOK
        <4>2. <<p, d>> \in req[r].read => handed[p][d] < MaxHandOuts
          BY <1>6 DEF CollectMark
        <4>3. QED BY <4>1, <4>2
      <3>2. QED BY <1>6, <3>1 DEF CollectMark
    <2>2. row' \in [Plans -> [Days -> Row]]
      BY <1>1, <1>6, MarkedTyped DEF CollectMark, RowStatus
    <2>3. QED BY <1>1, <1>2, <1>6, <2>1, <2>2 DEF CollectMark, Done, TypeOK
  <1>7. CASE \E cutoff \in 0..(MaxDay - 1) : CloseRead(r, cutoff)
    <2>1. PICK cutoff \in 0..(MaxDay - 1) : CloseRead(r, cutoff)
      BY <1>7
    <2>2. PICK X \in SUBSET Pickups :
            req' = [req EXCEPT ![r] = [Idle EXCEPT !.kind = "close", !.step = "end",
                                                   !.cutoff = cutoff, !.ids = X]]
      BY <2>1 DEF CloseRead
    <2>3. cutoff \in 0..MaxDay
      BY NumberAssumption
    <2>4. [Idle EXCEPT !.kind = "close", !.step = "end", !.cutoff = cutoff, !.ids = X] \in LocalState
      BY <2>3, IdleTyped DEF LocalState
    <2>5. PICK c \in LocalState :
            c = [Idle EXCEPT !.kind = "close", !.step = "end", !.cutoff = cutoff, !.ids = X]
      BY <2>4
    <2>6. c.kind = "close" /\ c.step = "end"
      BY <2>5, IdleTyped DEF LocalState
    <2>7. QED BY <1>1, <1>3, <1>4, <2>1, <2>2, <2>5, <2>6 DEF CloseRead, TypeOK
  <1>8. CASE CloseSave(r)
    <2>1. req[r] \in LocalState /\ req[r].kind = "close"
      BY <1>1, <1>8 DEF CloseSave, At, Shape, TypeOK
    <2>2. req[r].cutoff \in 0..NoEnd
      BY <2>1, NumberAssumption DEF LocalState, NoEnd
    <2>3. [req[r] EXCEPT !.step = "skip"] \in LocalState
      BY <2>1 DEF LocalState
    <2>4. PICK c \in LocalState : c = [req[r] EXCEPT !.step = "skip"]
      BY <2>3
    <2>5. c.kind = "close" /\ c.step = "skip"
      BY <2>1, <2>4 DEF LocalState
    <2>6. QED BY <1>1, <1>3, <1>8, <2>2, <2>4, <2>5 DEF CloseSave, TypeOK
  <1>9. CASE CloseSkip(r)
    <2>1. row' \in [Plans -> [Days -> Row]]
      BY <1>1, <1>9, MarkedTyped DEF CloseSkip, RowStatus
    <2>2. QED BY <1>1, <1>2, <1>9, <2>1 DEF CloseSkip, Done, TypeOK
  <1>10. CASE CloseDies(r)
    BY <1>1, <1>2, <1>10 DEF CloseDies, Done, TypeOK
  <1>11. QED BY <1>5, <1>6, <1>7, <1>8, <1>9, <1>10 DEF Staff

\* As time passes, requests keep what they have read, but it is late.
LEMMA TickFacts ==
  ASSUME TypeInv, Tick
  PROVE  /\ \A q \in Requests :
              /\ ~req[q].late
              /\ req[q] = Idle => req'[q] = Idle
              /\ req[q] # Idle => req'[q].late
              /\ req'[q].kind = req[q].kind /\ req'[q].step = req[q].step
              /\ req'[q].plan = req[q].plan /\ req'[q].wanted = req[q].wanted
              /\ req'[q].seen = req[q].seen /\ req'[q].read = req[q].read
              /\ req'[q].cutoff = req[q].cutoff /\ req'[q].ids = req[q].ids
              /\ req'[q].left = req[q].left
         /\ TypeOK' /\ Shape'
         /\ UNCHANGED <<surprise, opsEnd, closedOn, plan, row, handed>>
         /\ \/ today' = today /\ clock = "open" /\ clock' = "locked"
            \/ today' = today /\ clock = "locked" /\ clock' = "late"
            \/ today' = today + 1 /\ clock = "late" /\ clock' = "open"
  <1>1. TypeOK /\ Shape
    BY DEF TypeInv
  <1>2. ASSUME NEW q \in Requests
        PROVE  /\ ~req[q].late
               /\ req[q] = Idle => req'[q] = Idle
               /\ req[q] # Idle => req'[q].late
               /\ req'[q].kind = req[q].kind /\ req'[q].step = req[q].step
               /\ req'[q].plan = req[q].plan /\ req'[q].wanted = req[q].wanted
               /\ req'[q].seen = req[q].seen /\ req'[q].read = req[q].read
               /\ req'[q].cutoff = req[q].cutoff /\ req'[q].ids = req[q].ids
               /\ req'[q].left = req[q].left
               /\ req'[q] \in LocalState
    <2>1. req[q] \in LocalState /\ ~req[q].late
      BY <1>1 DEF Tick, TypeOK
    <2>2. req'[q] = IF req[q] = Idle THEN Idle ELSE [req[q] EXCEPT !.late = TRUE]
      BY DEF Tick
    <2>3. CASE req[q] = Idle
      BY <2>1, <2>2, <2>3, IdleTyped
    <2>4. CASE req[q] # Idle
      BY <2>1, <2>2, <2>4, ZenonT(60) DEF LocalState
    <2>5. QED BY <2>3, <2>4
  <1>3. today' \in 0..MaxDay /\ clock' \in {"open", "locked", "late"}
    <2>1. today \in 0..MaxDay /\ MaxDay \in Nat
      BY <1>1, NumberAssumption DEF TypeOK
    <2>2. QED BY <1>1, <2>1 DEF Tick, TypeOK
  <1>4. req' \in [Requests -> LocalState]
    BY <1>2 DEF Tick
  <1>5. Shape'
    BY <1>1, <1>2 DEF Shape
  <1>6. QED BY <1>1, <1>2, <1>3, <1>4, <1>5 DEF Tick, TypeOK

\* Every step keeps the types.
LEMMA TypeNext ==
  ASSUME TypeInv, [Next]_vars
  PROVE  TypeInv'
  <1>1. TypeOK /\ Shape
    BY DEF TypeInv
  <1>2. ASSUME NEW r \in Requests, Own(r) PROVE TypeInv'
    BY <1>1, <1>2, OwnFacts DEF TypeInv, TypeOK
  <1>3. ASSUME NEW r \in Requests, CreateRows(r) PROVE TypeInv'
    <2>1. UNCHANGED <<surprise, today, clock, opsEnd, closedOn, plan, handed, calls>>
      BY <1>3 DEF CreateRows
    <2>2. QED BY <1>1, <1>3, <2>1, CreateFacts DEF TypeInv, TypeOK
  <1>4. ASSUME NEW r \in Requests, Staff(r) PROVE TypeInv'
    BY <1>4, StaffFacts DEF TypeInv
  <1>5. CASE SaveSettings
    <2>1. NoEnd \in 0..NoEnd
      BY NumberAssumption DEF NoEnd
    <2>2. QED BY <1>1, <1>5, <2>1 DEF SaveSettings, TypeInv, TypeOK, Shape
  <1>6. CASE \E p \in Plans : Refund(p)
    <2>1. MaxCalls \in Nat /\ calls \in 0..MaxCalls
      BY <1>1, NumberAssumption DEF TypeOK
    <2>2. QED BY <1>1, <1>6, <2>1 DEF Refund, TypeInv, TypeOK, Shape
  <1>7. CASE Tick
    BY <1>7, TickFacts DEF TypeInv
  <1>8. CASE UNCHANGED vars
    BY <1>1, <1>8 DEF vars, TypeInv, TypeOK, Shape
  <1>9. QED BY <1>2, <1>3, <1>4, <1>5, <1>6, <1>7, <1>8 DEF Next, Own, Staff

\* At the start everything has its type.
LEMMA TypeInit ==
  ASSUME Init
  PROVE  TypeInv
  <1>1. 0 \in 0..MaxDay /\ NoEnd \in 0..NoEnd /\ 0 \in 0..MaxCalls /\ 0 \in 0..MaxHandOuts
        /\ 0 \in 0..Credits
    BY NumberAssumption DEF NoEnd
  <1>2. NoRow \in Row
    BY <1>1 DEF NoRow, Row, RowStatus
  <1>3. Shape /\ req \in [Requests -> LocalState]
    BY IdleTyped DEF Init, Shape, Idle, Saves, SaveSteps
  <1>4. QED BY <1>1, <1>2, <1>3 DEF Init, TypeInv, TypeOK

\* Every variable keeps its type, and a request has what its step needs.
THEOREM TypeCorrect == Spec => [](TypeOK /\ Shape)
  <1>1. Init => TypeInv
    BY TypeInit
  <1>2. TypeInv => TypeOK /\ Shape
    BY DEF TypeInv
  <1>3. QED BY <1>1, <1>2, TypeNext, PTL DEF Spec

---------------------------------------------------------------------------
(* Rows in the hands of a request *)

\* The rows a transaction has deleted and not committed are still scheduled for the others,
\* and no two transactions have deleted the same.
Doomed ==
  /\ \A r \in Requests : At(r, "create") => \A i \in req[r].ids : Scheduled(i)
  /\ \A r, q \in Requests :
       r # q /\ At(r, "create") /\ At(q, "create") => req[r].ids \cap req[q].ids = {}

\* A closing that nothing overlaps has all rows past its cutoff, as they are.
ClosesAlone ==
  surprise # "closing" => \A r \in Requests : req[r].kind = "close" =>
    /\ \A q \in Requests : q # r => req[q] = Idle
    /\ \A i \in req[r].ids : Scheduled(i)
    /\ \A i \in Pickups : Scheduled(i) /\ i[2] > req[r].cutoff => i \in req[r].ids
    /\ At(r, "skip") => closedOn = req[r].cutoff

RowsInv == Doomed /\ ClosesAlone

\* What an idle request has in hand: nothing.
LEMMA IdleFacts ==
  /\ Idle.kind = "none" /\ Idle.step = "idle" /\ Idle.plan = NoPlan /\ Idle.ids = {}
  /\ Idle.read = {} /\ Idle.late = FALSE /\ Idle.cutoff = 0
  BY DEF Idle

\* A row that an uncommitted transaction has deleted is not in the way of another request.
LEMMA FreeOf ==
  ASSUME NEW r \in Requests, NEW S, Free(r, S), NEW q \in Requests \ {r}, At(q, "create")
  PROVE  S \cap req[q].ids = {}
  BY DEF Free, LockedRows

\* Rows are marked by a request that waits for transactions that have them locked.
LEMMA MarkKeepsDoomed ==
  ASSUME TypeInv, Doomed, NEW r \in Requests, NEW s, Free(r, req[r].ids), ~At(r, "create"),
         row' = Marked(req[r].ids, s), req'[r] = Idle, \A q \in Requests : q # r => req'[q] = req[q]
  PROVE  Doomed'
  <1>1. ASSUME NEW q \in Requests, At(q, "create"), NEW i \in req[q].ids
        PROVE  Scheduled(i)'
    <2>1. i \in Pickups /\ i \notin req[r].ids /\ Scheduled(i)
      BY <1>1, FreeOf DEF Doomed, TypeInv, TypeOK, LocalState
    <2>2. PICK p \in Plans, d \in Days : i = <<p, d>>
      BY <2>1 DEF Pickups
    <2>3. QED BY <2>1, <2>2 DEF Marked, Scheduled, Is
  <1>2. \A q \in Requests : At(q, "create")' => q # r /\ At(q, "create") /\ req'[q].ids = req[q].ids
    BY IdleFacts DEF At
  <1>3. QED BY <1>1, <1>2 DEF Doomed

\* A request on its way keeps what is known of the rows.
LEMMA RowsOwn ==
  ASSUME TypeInv, RowsInv, NEW r \in Requests, Own(r)
  PROVE  RowsInv'
  <1>1. TypeOK /\ Shape /\ Doomed /\ ClosesAlone
    BY DEF TypeInv, RowsInv
  <1>2. /\ \A q \in Requests : q # r => req'[q] = req[q]
        /\ UNCHANGED <<surprise, closedOn, row>>
        /\ req'[r] = Idle \/ req'[r].kind \in Saves
    BY OwnFacts
  <1>3. ClosesAlone'
    <2>1. SUFFICES ASSUME surprise # "closing", NEW q \in Requests, req'[q].kind = "close"
                   PROVE  FALSE
      BY <1>2 DEF ClosesAlone
    <2>2. q # r /\ req[q].kind = "close"
      BY <1>2, <2>1, IdleFacts DEF Saves
    <2>3. req[r] = Idle
      BY <1>1, <2>1, <2>2 DEF ClosesAlone
    <2>4. \E k : Begin(r, k)
      BY <2>3, IdleFacts DEF Own, ScheduleRead, CheckCapacity, DeleteScheduled, DeleteResumed, At
    <2>5. QED BY <2>1, <2>2, <2>4 DEF Begin
  <1>4. CASE ~At(r, "create")'
    <2>1. Doomed'
      BY <1>1, <1>2, <1>4 DEF Doomed, At, Scheduled, Is
    <2>2. QED BY <1>3, <2>1 DEF RowsInv
  <1>5. CASE At(r, "create")'
    <2>1. DeleteScheduled(r) \/ DeleteResumed(r)
      <3>1. ASSUME NEW c, Saving(c) PROVE c.step # "create" /\ Decided(c).step # "create"
        BY <3>1 DEF Saving, Decided, LocalState
      <3>2. ASSUME NEW k \in Saves, NEW p \in Plans, NEW w \in Slots, ScheduleRead(r, k, p, w)
            PROVE  FALSE
        <4>1. PICK c : c = Begun(k, p, w)
          OBVIOUS
        <4>2. QED BY <1>1, <1>5, <3>1, <3>2, <4>1, ReadFacts, IdleFacts DEF At
      <3>3. ASSUME CheckCapacity(r) PROVE FALSE
        <4>1. PICK c : c = req[r]
          OBVIOUS
        <4>2. Saving(c) => \A d : [c EXCEPT !.left = @ \ {d}].step = c.step
          BY DEF Saving, LocalState
        <4>3. /\ Saving(c)
              /\ \/ req'[r] = Idle \/ req'[r] = Decided(c)
                 \/ \E d : req'[r] = [c EXCEPT !.left = @ \ {d}]
          BY <1>1, <3>3, <4>1, CheckFacts
        <4>4. req'[r].step # "create"
          BY <3>1, <4>2, <4>3, IdleFacts
        <4>5. QED BY <1>5, <4>4 DEF At
      <3>4. QED BY <3>2, <3>3 DEF Own
    <2>2. req[r] \in LocalState
      BY <1>1 DEF TypeOK
    <2>3. PICK X \in SUBSET ({req[r].plan} \X Days), s \in {"wait", "create"} :
            req'[r] = [req[r] EXCEPT !.ids = X, !.step = s] /\ Deletes(r, X, s)
      BY <1>1, <2>1, DeleteFacts
    <2>4. req'[r].step = s /\ req'[r].ids = X
      BY <2>2, <2>3 DEF LocalState
    <2>5. s = "create"
      BY <1>5, <2>4 DEF At
    <2>6. Free(r, X) /\ \A i \in X : Scheduled(i)
      BY <2>3, <2>5 DEF Deletes
    <2>7. \A q \in Requests : q # r /\ At(q, "create") => X \cap req[q].ids = {}
      BY <2>6, FreeOf
    <2>8. Doomed'
      BY <1>1, <1>2, <2>4, <2>6, <2>7 DEF Doomed, At, Scheduled, Is
    <2>9. QED BY <1>3, <2>8 DEF RowsInv
  <1>6. QED BY <1>4, <1>5

\* A request that writes its rows keeps what is known of them.
LEMMA RowsCreate ==
  ASSUME TypeInv, RowsInv, NEW r \in Requests, CreateRows(r)
  PROVE  RowsInv'
  <1>1. TypeOK /\ Shape /\ Doomed /\ ClosesAlone /\ At(r, "create")
    BY DEF TypeInv, RowsInv, CreateRows
  <1>2. /\ \A q \in Requests : q # r => /\ req'[q].kind = req[q].kind /\ req'[q].step = req[q].step
                                        /\ req'[q].ids \subseteq req[q].ids
        /\ req'[r] = Idle /\ surprise' = surprise
    BY CreateFacts DEF CreateRows
  <1>3. ClosesAlone'
    <2>1. SUFFICES ASSUME surprise # "closing", NEW q \in Requests, req'[q].kind = "close"
                   PROVE  FALSE
      BY <1>2 DEF ClosesAlone
    <2>2. q # r /\ req[q].kind = "close"
      BY <1>2, <2>1, IdleFacts
    <2>3. req[r] = Idle
      BY <1>1, <2>1, <2>2 DEF ClosesAlone
    <2>4. QED BY <1>1, <2>3, IdleFacts DEF At
  <1>4. ASSUME NEW q \in Requests, q # r, At(q, "create"), NEW i \in req[q].ids
        PROVE  Scheduled(i)'
    <2>1. i \in Pickups /\ Scheduled(i) /\ i \notin req[r].ids
      BY <1>1, <1>4 DEF Doomed, TypeOK, LocalState
    <2>2. PICK p \in Plans, d \in Days : i = <<p, d>>
      BY <2>1 DEF Pickups
    <2>3. ASSUME p = req[r].plan, d \in Dates(req[r].wanted), <<p, d>> \notin req[r].read PROVE FALSE
      <3>1. PICK C : C = {x \in Dates(req[r].wanted) : <<req[r].plan, x>> \notin req[r].read}
        OBVIOUS
      <3>2. Free(r, {req[r].plan} \X C)
        BY <3>1 DEF CreateRows
      <3>3. i \in {req[r].plan} \X C
        BY <2>2, <2>3, <3>1
      <3>4. QED BY <1>4, <3>2, <3>3, FreeOf
    <2>4. row'[p][d] = row[p][d]
      BY <1>1, <2>1, <2>2, <2>3 DEF CreateRows, TypeOK
    <2>5. QED BY <2>1, <2>2, <2>4 DEF Scheduled, Is
  <1>5. Doomed'
    BY <1>1, <1>2, <1>4, IdleFacts DEF Doomed, At
  <1>6. QED BY <1>3, <1>5 DEF RowsInv

\* The counter and a closing keep what is known of the rows.
LEMMA RowsStaff ==
  ASSUME TypeInv, RowsInv, NEW r \in Requests, Staff(r)
  PROVE  RowsInv'
  <1>1. TypeOK /\ Shape /\ Doomed /\ ClosesAlone
    BY DEF TypeInv, RowsInv
  <1>2. /\ \A q \in Requests : q # r => req'[q] = req[q]
        /\ req'[r] = Idle \/ req'[r].kind \in {"collect", "close"}
        /\ surprise' = surprise /\ Shape'
    BY StaffFacts
  <1>3. ~At(r, "create") /\ ~At(r, "create")'
    <2>1. ~At(r, "create")'
      BY <1>2, IdleFacts DEF At, Shape, Saves, SaveSteps
    <2>2. ~At(r, "create")
      BY <1>1, IdleFacts DEF At, Staff, CollectRead, CollectMark, CloseRead, CloseSave, CloseSkip,
                             CloseDies, Begin, Shape, Saves, SaveSteps
    <2>3. QED BY <2>1, <2>2
  <1>4. Doomed'
    <2>1. CASE UNCHANGED row
      BY <1>1, <1>2, <1>3, <2>1 DEF Doomed, At, Scheduled, Is
    <2>2. CASE CollectMark(r) \/ CloseSkip(r)
      <3>1. \E s : row' = Marked(req[r].ids, s)
        BY <2>2 DEF CollectMark, CloseSkip
      <3>2. Free(r, req[r].ids) /\ req'[r] = Idle
        BY <1>1, <2>2 DEF CollectMark, CloseSkip, Done, TypeOK
      <3>3. QED BY <1>1, <1>2, <1>3, <3>1, <3>2, MarkKeepsDoomed
    <2>3. QED BY <2>1, <2>2 DEF Staff, CollectRead, CloseRead, CloseSave, CloseDies
  <1>5. ASSUME surprise # "closing", NEW q \in Requests, req'[q].kind = "close"
        PROVE  q = r /\ \A p \in Requests : p # r => req[p] = Idle
    <2>1. ASSUME q # r PROVE FALSE
      <3>1. req[q].kind = "close" /\ req[r] = Idle
        BY <1>1, <1>2, <1>5, <2>1 DEF ClosesAlone
      <3>2. \E k : Begin(r, k)
        BY <1>5, <3>1, IdleFacts
           DEF Staff, CollectRead, CollectMark, CloseRead, CloseSave, CloseSkip, CloseDies, At
      <3>3. QED BY <1>5, <3>1, <3>2 DEF Begin
    <2>2. CASE req[r].kind = "close"
      BY <1>1, <1>5, <2>1, <2>2 DEF ClosesAlone
    <2>3. CASE req[r].kind # "close"
      <3>1. \E cutoff \in 0..(MaxDay - 1) : CloseRead(r, cutoff)
        <4>1. ~CollectRead(r)
          <5>1. ASSUME CollectRead(r) PROVE req'[r].kind = "collect"
            <6>1. \E X : req' = [req EXCEPT ![r] = [Idle EXCEPT !.kind = "collect", !.step = "mark",
                                                                !.read = X, !.ids = X]]
              BY <5>1 DEF CollectRead
            <6>2. QED BY <1>1, <6>1, IdleTyped DEF TypeOK, LocalState
          <5>2. QED BY <1>5, <2>1, <5>1
        <4>2. ~CollectMark(r)
          BY <1>1, <1>5, <2>1, IdleFacts DEF CollectMark, Done, TypeOK
        <4>3. ~CloseSave(r) /\ ~CloseSkip(r) /\ ~CloseDies(r)
          BY <1>1, <2>3 DEF CloseSave, CloseSkip, CloseDies, At, Shape
        <4>4. QED BY <4>1, <4>2, <4>3 DEF Staff
      <3>2. Begin(r, "close")
        BY <3>1 DEF CloseRead
      <3>3. QED BY <1>5, <2>1, <3>2 DEF Begin
    <2>4. QED BY <2>2, <2>3
  <1>6. ASSUME surprise # "closing", req'[r].kind = "close"
        PROVE  /\ row' = row
               /\ \A i \in req'[r].ids : Scheduled(i)
               /\ \A i \in Pickups : Scheduled(i) /\ i[2] > req'[r].cutoff => i \in req'[r].ids
               /\ At(r, "skip")' => closedOn' = req'[r].cutoff
    <2>1. CASE \E cutoff \in 0..(MaxDay - 1) : CloseRead(r, cutoff)
      <3>1. PICK cutoff \in 0..(MaxDay - 1) : CloseRead(r, cutoff)
        BY <2>1
      <3>2. PICK X : X = {i \in Pickups : Is(i[1], i[2], "SCHEDULED") /\ i[2] > cutoff}
        OBVIOUS
      <3>3. req' = [req EXCEPT ![r] = [Idle EXCEPT !.kind = "close", !.step = "end",
                                                   !.cutoff = cutoff, !.ids = X]]
        BY <3>1, <3>2 DEF CloseRead
      <3>4. req'[r].cutoff = cutoff /\ req'[r].ids = X /\ req'[r].step = "end"
        BY <1>1, <3>3, IdleTyped DEF TypeOK, LocalState
      <3>5. QED BY <3>1, <3>2, <3>4 DEF CloseRead, Scheduled, At
    <2>2. CASE CloseSave(r)
      <3>1. /\ req'[r].cutoff = req[r].cutoff /\ req'[r].ids = req[r].ids
            /\ closedOn' = req[r].cutoff /\ row' = row /\ req[r].kind = "close"
        BY <1>1, <2>2 DEF CloseSave, TypeOK, LocalState, Shape, At
      <3>2. QED BY <1>1, <1>6, <3>1 DEF ClosesAlone
    <2>3. CASE CollectRead(r)
      <3>1. \E X : req' = [req EXCEPT ![r] = [Idle EXCEPT !.kind = "collect", !.step = "mark",
                                                          !.read = X, !.ids = X]]
        BY <2>3 DEF CollectRead
      <3>2. QED BY <1>1, <1>6, <3>1, IdleTyped DEF TypeOK, LocalState
    <2>4. CASE CollectMark(r) \/ CloseSkip(r) \/ CloseDies(r)
      BY <1>1, <1>6, <2>4, IdleFacts DEF CollectMark, CloseSkip, CloseDies, Done, TypeOK
    <2>5. QED BY <2>1, <2>2, <2>3, <2>4 DEF Staff
  <1>7. ClosesAlone'
    BY <1>2, <1>5, <1>6 DEF ClosesAlone, Scheduled, Is
  <1>8. QED BY <1>4, <1>7 DEF RowsInv

\* Every step keeps RowsInv.
LEMMA RowsNext ==
  ASSUME TypeInv, RowsInv, [Next]_vars
  PROVE  RowsInv'
  <1>1. Doomed /\ ClosesAlone
    BY DEF RowsInv
  <1>2. CASE Tick
    <2>1. /\ \A q \in Requests :
               /\ req[q] = Idle => req'[q] = Idle
               /\ req'[q].kind = req[q].kind /\ req'[q].step = req[q].step
               /\ req'[q].cutoff = req[q].cutoff /\ req'[q].ids = req[q].ids
          /\ UNCHANGED <<surprise, closedOn, row>>
      BY <1>2, TickFacts
    <2>2. Doomed'
      BY <1>1, <2>1 DEF Doomed, At, Scheduled, Is
    <2>3. ClosesAlone'
      BY <1>1, <2>1 DEF ClosesAlone, At, Scheduled, Is
    <2>4. QED BY <2>2, <2>3 DEF RowsInv
  <1>3. CASE SaveSettings \/ (\E p \in Plans : Refund(p)) \/ UNCHANGED vars
    <2>1. UNCHANGED <<surprise, closedOn, row, req>>
      BY <1>3 DEF SaveSettings, Refund, vars
    <2>2. QED BY <1>1, <2>1 DEF RowsInv, Doomed, ClosesAlone, At, Scheduled, Is
  <1>4. QED BY <1>2, <1>3, RowsOwn, RowsCreate, RowsStaff DEF Next, Own, Staff

\* There are no rows in the initial states.
LEMMA RowsInit == Init => RowsInv
  BY IdleFacts DEF Init, RowsInv, Doomed, ClosesAlone, At

\* What is true of every reachable state: who has locked which rows, and what it may still do.
THEOREM HeldRows == Spec => [](TypeInv /\ RowsInv)
  <1>1. TypeOK /\ Shape => TypeInv
    BY DEF TypeInv
  <1>2. QED BY <1>1, RowsInit, RowsNext, TypeCorrect, PTL DEF Spec

\* Who writes rows, and where.
Creates(r, d) == d \in Dates(req[r].wanted) /\ <<req[r].plan, d>> \notin req[r].read

\* A schedule request changes only rows of its plan, those it creates and those it has deleted.
LEMMA RowCreated ==
  ASSUME TypeInv, NEW r \in Requests, CreateRows(r), NEW p \in Plans, NEW d \in Days,
         row'[p][d] # row[p][d]
  PROVE  /\ p = req[r].plan
         /\ \/ /\ Creates(r, d) /\ row'[p][d] = [status |-> "SCHEDULED", packs |-> req[r].wanted[d]]
               /\ Is(p, d, "none") \/ <<p, d>> \in req[r].ids
            \/ ~Creates(r, d) /\ <<p, d>> \in req[r].ids /\ row'[p][d] = NoRow
  <1>1. row \in [Plans -> [Days -> Row]]
    BY DEF TypeInv, TypeOK
  <1>2. PICK C : C = {x \in Dates(req[r].wanted) : <<req[r].plan, x>> \notin req[r].read}
    OBVIOUS
  <1>3. PICK D : D = {x \in Days : <<req[r].plan, x>> \in req[r].ids}
    OBVIOUS
  <1>4. /\ ~\E x \in C \ D : ~Is(req[r].plan, x, "none")
        /\ row' = [row EXCEPT ![req[r].plan] = [x \in Days |->
              IF x \in C THEN [status |-> "SCHEDULED", packs |-> req[r].wanted[x]]
              ELSE IF x \in D THEN NoRow ELSE row[req[r].plan][x]]]
    BY <1>2, <1>3 DEF CreateRows
  <1>5. d \in C <=> Creates(r, d)
    BY <1>2 DEF Creates
  <1>6. p = req[r].plan
    BY <1>1, <1>4
  <1>7. row'[p][d] = IF d \in C THEN [status |-> "SCHEDULED", packs |-> req[r].wanted[d]]
                     ELSE IF d \in D THEN NoRow ELSE row[p][d]
    BY <1>1, <1>4, <1>6
  <1>8. QED BY <1>3, <1>4, <1>5, <1>6, <1>7

\* Rows are written by schedule requests, the counter and a closing.
LEMMA RowWriters ==
  ASSUME TypeInv, [Next]_vars, row' # row
  PROVE  \E r \in Requests : CreateRows(r) \/ CollectMark(r) \/ CloseSkip(r)
  <1>1. ASSUME NEW r \in Requests, Own(r) PROVE row' = row
    BY <1>1, OwnFacts
  <1>2. ASSUME NEW r \in Requests,
               \/ CollectRead(r) \/ CloseSave(r) \/ CloseDies(r)
               \/ \E cutoff \in 0..(MaxDay - 1) : CloseRead(r, cutoff)
        PROVE  row' = row
    BY <1>2 DEF CollectRead, CloseRead, CloseSave, CloseDies
  <1>3. SaveSettings \/ (\E p \in Plans : Refund(p)) \/ Tick \/ UNCHANGED vars => row' = row
    BY DEF SaveSettings, Refund, Tick, vars
  <1>4. QED BY <1>1, <1>2, <1>3 DEF Next, Own

\* Nobody rewrites a delivered day, staff included, unless operations are closed in flight: an
\* uncommitted deletion holds scheduled rows only, and who marks rows waits for it.
THEOREM DeliveredStays == Spec => DeliveredIsFinal
  <1>1. ASSUME TypeInv, RowsInv, [Next]_vars, surprise # "closing", NEW p \in Plans, NEW d \in Days,
               Is(p, d, "DELIVERED")
        PROVE  row'[p][d] = row[p][d]
    <2>1. row[p][d] \in Row /\ row \in [Plans -> [Days -> Row]]
      BY <1>1 DEF TypeInv, TypeOK
    <2>2. ASSUME NEW r \in Requests, CreateRows(r) PROVE row'[p][d] = row[p][d]
      <3>1. <<p, d>> \notin req[r].ids
        BY <1>1, <2>2 DEF CreateRows, RowsInv, Doomed, Scheduled, Is
      <3>2. ~Is(p, d, "none")
        BY <1>1 DEF Is
      <3>3. QED BY <1>1, <2>2, <3>1, <3>2, RowCreated
    <2>3. ASSUME NEW r \in Requests, CollectMark(r) PROVE row'[p][d] = row[p][d]
      <3>1. [row[p][d] EXCEPT !.status = "DELIVERED"] = row[p][d]
        BY <1>1, <2>1 DEF Is, Row
      <3>2. QED BY <1>1, <2>3, <3>1 DEF CollectMark, Marked
    <2>4. ASSUME NEW r \in Requests, CloseSkip(r) PROVE row'[p][d] = row[p][d]
      <3>1. <<p, d>> \notin req[r].ids
        BY <1>1, <2>4 DEF CloseSkip, At, TypeInv, Shape, RowsInv, ClosesAlone, Scheduled, Is
      <3>2. QED BY <1>1, <2>4, <3>1 DEF CloseSkip, Marked
    <2>5. QED BY <1>1, <2>2, <2>3, <2>4, RowWriters
  <1>2. TypeInv /\ RowsInv /\ [Next]_vars =>
          [Never({"closing"}) => \A p \in Plans, d \in Days :
             Is(p, d, "DELIVERED") => row'[p][d] = row[p][d]]_vars
    <2>1. ASSUME TypeInv, RowsInv, [Next]_vars, Never({"closing"}), NEW p \in Plans, NEW d \in Days,
                 Is(p, d, "DELIVERED")
          PROVE  row'[p][d] = row[p][d]
      BY <1>1, <2>1 DEF Never
    <2>2. QED BY <2>1
  <1>3. QED BY <1>2, HeldRows, PTL DEF Spec, DeliveredIsFinal
---------------------------------------------------------------------------
(* Days that have come *)

\* The last day that can have come when a request in flight has ended: it sees the hour change
\* once.
Horizon(r) == today + IF clock = "late" /\ ~req[r].late THEN 1 ELSE 0

\* A row of a day that will have come is not deleted: it was scheduled when the request read it,
\* then it was locked and its id is kept, and so the transaction does not take it.
KeepsDue(r) ==
  /\ \A d \in Days : Is(req[r].plan, d, "SCHEDULED") =>
       /\ At(r, "capacity") => req[r].seen[d].status = "SCHEDULED" /\ <<req[r].plan, d>> \in req[r].ids
       /\ At(r, "delete") /\ d <= Horizon(r) => <<req[r].plan, d>> \in req[r].ids
  /\ req[r].step \in {"wait", "create"} => \A i \in req[r].ids : i[2] > Horizon(r)

\* What a member's request does that no other one overlaps.
Savers ==
  Never({"overlap", "admin"}) => \A r \in Requests : req[r].kind \in Saves =>
    /\ req[r].kind = "member" /\ KeepsDue(r)
    /\ \A q \in Requests : req[q].kind \in Saves => q = r

\* So the rows a collection has read are still there, and as they were.
Counters ==
  Never({"overlap", "admin", "closing"}) => \A r \in Requests : req[r].kind = "collect" =>
    /\ \A q \in Requests : req[q].kind = "collect" => q = r
    /\ req[r].read = req[r].ids
    /\ \A i \in req[r].read : Scheduled(i) /\ i[2] <= today

\* A day past the end of operations that a request wants is one it must not touch.
WantsInTime(r) ==
  \A d \in Dates(req[r].wanted) : d > closedOn =>
    /\ At(r, "capacity") => req[r].seen[d].status \in {"DELIVERED", "SKIPPED"}
    /\ req[r].step \in {"delete", "wait", "create"} => <<req[r].plan, d>> \in req[r].read

Ends ==
  Never({"closing", "admin", "settings"}) =>
    /\ opsEnd = closedOn
    /\ (\A r \in Requests : ~At(r, "skip")) => \A i \in Pickups : Scheduled(i) => i[2] <= closedOn
    /\ \A r \in Requests : WantsInTime(r)

\* What a schedule request has in hand after it has read.
LEMMA BegunFields ==
  ASSUME TypeOK, NEW k \in Saves, NEW p \in Plans, NEW w \in Slots, NEW c, c = Begun(k, p, w)
  PROVE  /\ c.kind = k /\ c.step = "capacity" /\ c.plan = p /\ c.wanted = w /\ c.seen = row[p]
         /\ c.ids = {p} \X {d \in Days : ~Is(p, d, "none")}
  BY IdleTyped DEF Begun, LocalState

\* What it has in hand after it has decided.
LEMMA DecidedFields ==
  ASSUME NEW c, Saving(c), NEW e, e = Decided(c)
  PROVE  /\ e.kind = c.kind /\ e.step = "delete" /\ e.plan = c.plan /\ e.wanted = c.wanted
         /\ e.late = c.late
         /\ e.read = {c.plan} \X {d \in Days : Frozen(c, d)}
         /\ e.ids = {i \in c.ids : Kept(c, i[2])}
  BY DEF Saving, Decided, LocalState

\* The steps of a request that schedules, before it creates its rows.
Reads(r, k, p, w) ==
  /\ Begin(r, k) /\ req'[r] = Begun(k, p, w)
  /\ \A d \in Dates(w) : Is(p, d, "none") => Bookable(d)
Checks(r) ==
  /\ Saving(req[r])
  /\ req'[r] = Decided(req[r]) \/ \E d : req'[r] = [req[r] EXCEPT !.left = @ \ {d}]
Takes(r, X, s) ==
  /\ At(r, "delete") \/ At(r, "wait")
  /\ req[r].kind \in Saves /\ req[r].plan \in Plans
  /\ req'[r] = [req[r] EXCEPT !.ids = X, !.step = s] /\ Deletes(r, X, s)

\* What a member's request may do on its way, where staff do not schedule.
LEMMA MemberSteps ==
  ASSUME TypeInv, Never({"admin"}), NEW r \in Requests, Own(r)
  PROVE  \/ req'[r] = Idle
         \/ \E p \in Plans, w \in Slots : Reads(r, "member", p, w)
         \/ Checks(r)
         \/ \E X \in SUBSET ({req[r].plan} \X Days), s \in {"wait", "create"} : Takes(r, X, s)
  <1>1. TypeOK /\ Shape
    BY DEF TypeInv
  <1>2. ASSUME NEW k \in Saves, NEW p \in Plans, NEW w \in Slots, ScheduleRead(r, k, p, w)
        PROVE  req'[r] = Idle \/ Reads(r, "member", p, w)
    <2>1. k = "member"
      BY <1>2 DEF ScheduleRead, Never
    <2>2. PICK c : c = Begun(k, p, w)
      OBVIOUS
    <2>3. req'[r] = Idle \/ req'[r] = c
      BY <1>1, <1>2, <2>1, <2>2, ReadFacts
    <2>4. Begin(r, k) /\ \A d \in Dates(w) : Is(p, d, "none") => Bookable(d)
      BY <1>2, <2>1 DEF ScheduleRead
    <2>5. QED BY <2>1, <2>2, <2>3, <2>4 DEF Reads
  <1>3. ASSUME CheckCapacity(r) PROVE req'[r] = Idle \/ Checks(r)
    <2>1. PICK c : c = req[r]
      OBVIOUS
    <2>2. /\ Saving(c)
          /\ \/ req'[r] = Idle \/ req'[r] = Decided(c)
             \/ \E d : req'[r] = [c EXCEPT !.left = @ \ {d}]
      BY <1>1, <1>3, <2>1, CheckFacts
    <2>3. QED BY <2>1, <2>2 DEF Checks
  <1>4. ASSUME DeleteScheduled(r) \/ DeleteResumed(r)
        PROVE  \E X \in SUBSET ({req[r].plan} \X Days), s \in {"wait", "create"} : Takes(r, X, s)
    <2>1. PICK X \in SUBSET ({req[r].plan} \X Days), s \in {"wait", "create"} :
            req'[r] = [req[r] EXCEPT !.ids = X, !.step = s] /\ Deletes(r, X, s)
      BY <1>1, <1>4, DeleteFacts
    <2>2. /\ req[r].kind \in Saves /\ req[r].plan \in Plans
          /\ At(r, "delete") \/ At(r, "wait")
      BY <1>1, <1>4, DeleteFacts
    <2>3. QED BY <2>1, <2>2 DEF Takes
  <1>5. QED BY <1>2, <1>3, <1>4 DEF Own

\* A row that is marked was there, and is no longer scheduled.
LEMMA MarkedRows ==
  ASSUME TypeInv, NEW ids, NEW s \in {"DELIVERED", "SKIPPED"}, row' = Marked(ids, s),
         NEW p \in Plans, NEW d \in Days
  PROVE  /\ <<p, d>> \in ids => row'[p][d].status = s
         /\ <<p, d>> \notin ids => row'[p][d] = row[p][d]
         /\ row'[p][d].packs = row[p][d].packs
         /\ Is(p, d, "SCHEDULED")' => Is(p, d, "SCHEDULED") /\ <<p, d>> \notin ids
  <1>1. row[p][d] \in Row
    BY DEF TypeInv, TypeOK
  <1>2. row'[p][d] = IF <<p, d>> \in ids THEN [row[p][d] EXCEPT !.status = s] ELSE row[p][d]
    BY DEF Marked
  <1>3. QED BY <1>1, <1>2 DEF Row, Is

\* Counter and administrators take rows off the schedule and put none on it.
LEMMA StaffRows ==
  ASSUME TypeInv, NEW r \in Requests, Staff(r), NEW p \in Plans, NEW d \in Days
  PROVE  /\ Is(p, d, "SCHEDULED")' => Is(p, d, "SCHEDULED")
         /\ ~Is(p, d, "none") => row'[p][d].status # "none" /\ row'[p][d].packs = row[p][d].packs
  <1>1. CASE row' = row
    BY <1>1 DEF Is
  <1>2. ASSUME NEW s \in {"DELIVERED", "SKIPPED"}, NEW ids, row' = Marked(ids, s)
        PROVE  /\ Is(p, d, "SCHEDULED")' => Is(p, d, "SCHEDULED")
               /\ ~Is(p, d, "none") => row'[p][d].status # "none" /\ row'[p][d].packs = row[p][d].packs
    <2>1. /\ <<p, d>> \in ids => row'[p][d].status = s
          /\ <<p, d>> \notin ids => row'[p][d] = row[p][d]
          /\ row'[p][d].packs = row[p][d].packs
          /\ Is(p, d, "SCHEDULED")' => Is(p, d, "SCHEDULED")
      BY <1>2, MarkedRows
    <2>2. QED BY <2>1 DEF Is
  <1>3. CollectMark(r) => row' = Marked(req[r].ids, "DELIVERED")
    BY DEF CollectMark
  <1>4. CloseSkip(r) => row' = Marked(req[r].ids, "SKIPPED")
    BY DEF CloseSkip
  <1>5. QED BY <1>1, <1>2, <1>3, <1>4 DEF Staff, CollectRead, CloseRead, CloseSave, CloseDies

\* A request on its way does not come to threaten a due pickup.
LEMMA KeepsDueOwn ==
  ASSUME TypeInv, Never({"admin"}), NEW r \in Requests, Own(r),
         req[r].kind \in Saves => req[r].kind = "member" /\ KeepsDue(r)
  PROVE  req'[r] = Idle \/ KeepsDue(r)'
  <1>1. /\ TypeOK /\ Shape /\ UNCHANGED <<row, today, clock>>
        /\ req \in [Requests -> LocalState]
        /\ today \in Nat
    BY OwnFacts DEF TypeInv, TypeOK
  <1>2. ASSUME NEW p \in Plans, NEW w \in Slots, Reads(r, "member", p, w)
        PROVE  KeepsDue(r)'
    <2>1. PICK c : c = Begun("member", p, w)
      OBVIOUS
    <2>2. /\ req'[r] = c /\ c.step = "capacity" /\ c.plan = p /\ c.seen = row[p]
          /\ c.ids = {p} \X {d \in Days : ~Is(p, d, "none")}
      BY <1>1, <1>2, <2>1, BegunFields DEF Reads, Saves
    <2>3. QED BY <1>1, <2>2 DEF KeepsDue, At, Is
  <1>3. CASE Checks(r)
    <2>1. PICK c : c = req[r]
      OBVIOUS
    <2>2. Saving(c) /\ KeepsDue(r) /\ At(r, "capacity") /\ c.kind = "member"
      BY <1>3, <2>1 DEF Checks, Saving, At
    <2>3. CASE req'[r] = Decided(c)
      <3>1. PICK e : e = Decided(c)
        OBVIOUS
      <3>2. /\ e.kind = c.kind /\ e.step = "delete" /\ e.plan = c.plan /\ e.late = c.late
            /\ e.ids = {i \in c.ids : Kept(c, i[2])}
        BY <2>2, <3>1, DecidedFields
      <3>3. PICK h : h = Horizon(r)'
        OBVIOUS
      <3>4. h \in {today, today + 1} /\ (clock = "open" => h = today)
        BY <1>1, <3>3 DEF Horizon
      <3>5. ASSUME NEW d \in Days, Is(c.plan, d, "SCHEDULED"), d <= h
            PROVE  <<c.plan, d>> \in e.ids
        <4>1. c.seen[d].status = "SCHEDULED" /\ <<c.plan, d>> \in c.ids
          BY <2>1, <2>2, <3>5 DEF KeepsDue
        <4>2. d \in Int
          BY NumberAssumption DEF Days
        <4>3. Locked(d)
          <5>1. CASE clock = "open"
            BY <1>1, <3>4, <3>5, <4>2, <5>1 DEF Locked
          <5>2. CASE clock # "open"
            <6>1. today \in Nat /\ (h = today \/ h = today + 1)
              BY <1>1, <3>4
            <6>2. d <= h
              BY <3>5
            <6>3. d <= today + 1
              BY <4>2, <6>1, <6>2
            <6>4. QED BY <5>2, <6>3 DEF Locked
          <5>3. QED BY <5>1, <5>2
        <4>4. Kept(c, d)
          BY <2>2, <4>1, <4>3 DEF Kept
        <4>5. QED BY <3>2, <4>1, <4>4
      <3>6. req'[r].step = "delete" /\ req'[r].plan = c.plan /\ req'[r].ids = e.ids
        BY <2>3, <3>1, <3>2
      <3>7. QED BY <1>1, <3>3, <3>5, <3>6 DEF KeepsDue, At, Is
    <2>4. CASE \E d : req'[r] = [c EXCEPT !.left = @ \ {d}]
      <3>1. /\ req'[r].step = "capacity" /\ req'[r].plan = c.plan /\ req'[r].seen = c.seen
            /\ req'[r].ids = c.ids
        BY <2>2, <2>4 DEF Saving, LocalState
      <3>2. QED BY <1>1, <2>1, <2>2, <3>1 DEF KeepsDue, At, Is
    <2>5. QED BY <1>3, <2>1, <2>3, <2>4 DEF Checks
  <1>4. ASSUME NEW X \in SUBSET ({req[r].plan} \X Days), NEW s \in {"wait", "create"}, Takes(r, X, s)
        PROVE  KeepsDue(r)'
    <2>1. /\ KeepsDue(r) /\ req[r] \in LocalState
          /\ req'[r].ids = X /\ req'[r].step = s /\ req'[r].late = req[r].late
      BY <1>1, <1>4 DEF Takes, LocalState
    <2>2. Horizon(r)' = Horizon(r)
      BY <1>1, <2>1 DEF Horizon
    <2>3. \A i \in X : i[2] > Horizon(r)
      <3>1. CASE At(r, "delete")
        <4>1. X = {req[r].plan} \X {d \in Days : Deletable(req[r].plan, d, req[r].ids)}
          BY <1>4, <3>1 DEF Takes, Deletes
        <4>2. SUFFICES ASSUME NEW d \in Days, Deletable(req[r].plan, d, req[r].ids)
                       PROVE  d > Horizon(r)
          BY <4>1
        <4>3. ~(d <= Horizon(r))
          BY <2>1, <3>1, <4>2 DEF KeepsDue, Deletable
        <4>4. QED BY <1>1, <4>3 DEF Horizon, Days
      <3>2. CASE At(r, "wait")
        BY <1>4, <2>1, <3>2 DEF Takes, Deletes, KeepsDue, At
      <3>3. QED BY <1>4, <3>1, <3>2 DEF Takes
    <2>4. QED BY <2>1, <2>2, <2>3 DEF KeepsDue, At
  <1>5. QED BY <1>2, <1>3, <1>4, MemberSteps

\* Every step keeps Savers.
LEMMA SaversNext ==
  ASSUME TypeInv, Savers, [Next]_vars
  PROVE  Savers'
  <1> SUFFICES ASSUME Never({"overlap", "admin"})',
                      NEW q \in Requests, req'[q].kind \in Saves
               PROVE  /\ req'[q].kind = "member" /\ KeepsDue(q)'
                      /\ \A p \in Requests : req'[p].kind \in Saves => p = q
    BY DEF Savers
  <1>1. TypeOK /\ Shape /\ today \in Nat
    BY DEF TypeInv, TypeOK
  <1>2. ASSUME surprise' = surprise
        PROVE  \A r \in Requests : req[r].kind \in Saves =>
                 /\ req[r].kind = "member" /\ KeepsDue(r)
                 /\ \A p \in Requests : req[p].kind \in Saves => p = r
    BY <1>2 DEF Savers, Never
  <1>3. ASSUME UNCHANGED <<surprise, today, clock, row, req>>
        PROVE  /\ req'[q].kind = "member" /\ KeepsDue(q)'
               /\ \A p \in Requests : req'[p].kind \in Saves => p = q
    BY <1>2, <1>3 DEF KeepsDue, Is, At, Horizon
  <1>4. ASSUME NEW r \in Requests, Own(r)
        PROVE  /\ req'[q].kind = "member" /\ KeepsDue(q)'
               /\ \A p \in Requests : req'[p].kind \in Saves => p = q
    <2>1. /\ \A p \in Requests : p # r => req'[p] = req[p]
          /\ UNCHANGED <<surprise, today, clock, row>>
      BY <1>4, OwnFacts
    <2>2. /\ \A p \in Requests : req[p].kind \in Saves =>
               /\ req[p].kind = "member" /\ KeepsDue(p)
               /\ \A o \in Requests : req[o].kind \in Saves => o = p
          /\ Never({"overlap", "admin"})
      BY <1>2, <2>1 DEF Never
    <2>3. CASE req'[r] = Idle
      <3>1. q # r
        BY <2>3, IdleFacts DEF Saves
      <3>2. KeepsDue(q)'
        BY <2>1, <2>2, <3>1 DEF KeepsDue, Is, At, Horizon
      <3>3. \A p \in Requests : req'[p].kind \in Saves => p # r
        BY <2>3, IdleFacts DEF Saves
      <3>4. QED BY <2>1, <2>2, <3>1, <3>2, <3>3
    <2>4. CASE req'[r] # Idle
      <3>1. KeepsDue(r)'
        <4>1. Never({"admin"})
          BY <2>2 DEF Never
        <4>2. QED BY <1>4, <2>2, <2>4, <4>1, KeepsDueOwn
      <3>2. req'[r].kind = "member" /\ (req[r].kind \in Saves \/ Begin(r, "member"))
        <4>1. ASSUME NEW p \in Plans, NEW w \in Slots, Reads(r, "member", p, w)
              PROVE  req'[r].kind = "member" /\ Begin(r, "member")
          BY <1>1, <4>1, BegunFields DEF Reads, Saves
        <4>2. ASSUME Checks(r)
              PROVE  req[r].kind \in Saves /\ req'[r].kind = req[r].kind
          <5>1. PICK c : c = req[r]
            OBVIOUS
          <5>2. Saving(c) /\ (req'[r] = Decided(c) \/ \E d : req'[r] = [c EXCEPT !.left = @ \ {d}])
            BY <4>2, <5>1 DEF Checks
          <5>3. req'[r].kind = c.kind
            <6>1. CASE req'[r] = Decided(c)
              BY <5>2, <6>1, DecidedFields
            <6>2. CASE \E d : req'[r] = [c EXCEPT !.left = @ \ {d}]
              BY <5>2, <6>2 DEF Saving, LocalState
            <6>3. QED BY <5>2, <6>1, <6>2
          <5>4. QED BY <5>1, <5>2, <5>3 DEF Saving
        <4>3. ASSUME NEW X, NEW s, Takes(r, X, s)
              PROVE  req[r].kind \in Saves /\ req'[r].kind = req[r].kind
          BY <1>1, <4>3 DEF Takes, TypeOK, LocalState
        <4>4. Never({"admin"})
          BY <2>2 DEF Never
        <4>5. QED BY <1>4, <2>2, <2>4, <4>1, <4>2, <4>3, <4>4, MemberSteps
      <3>3. \A p \in Requests : p # r => req[p].kind \notin Saves
        <4>1. CASE Begin(r, "member")
          BY <2>2, <4>1 DEF Begin, Never, SameSort, Saves
        <4>2. QED BY <2>2, <3>2, <4>1
      <3>4. QED BY <2>1, <3>1, <3>2, <3>3
    <2>5. QED BY <2>3, <2>4
  <1>5. ASSUME NEW r \in Requests, CreateRows(r) PROVE FALSE
    <2>1. req'[r] = Idle /\ \A p \in Requests : p # r => req'[p].kind = req[p].kind
      BY <1>1, <1>5, CreateFacts
    <2>2. surprise' = surprise /\ req[r].step = "create"
      BY <1>5 DEF CreateRows, At
    <2>3. req[r].kind \in Saves
      BY <1>1, <2>2 DEF Shape, SaveSteps
    <2>4. QED BY <1>2, <2>1, <2>2, <2>3, IdleFacts DEF Saves
  <1>6. ASSUME NEW r \in Requests, Staff(r)
        PROVE  /\ req'[q].kind = "member" /\ KeepsDue(q)'
               /\ \A p \in Requests : req'[p].kind \in Saves => p = q
    <2>1. /\ \A p \in Requests : p # r => req'[p] = req[p]
          /\ req'[r].kind \notin Saves /\ UNCHANGED <<surprise, today, clock>>
      BY <1>6, StaffFacts, IdleFacts DEF Saves
    <2>2. q # r /\ req'[q] = req[q] /\ req[q].plan \in Plans
      BY <1>1, <2>1 DEF Shape
    <2>3. \A d \in Days : Is(req[q].plan, d, "SCHEDULED")' => Is(req[q].plan, d, "SCHEDULED")
      BY <1>6, <2>2, StaffRows DEF Is
    <2>4. KeepsDue(q)'
      BY <1>2, <2>1, <2>2, <2>3 DEF KeepsDue, At, Is, Horizon
    <2>5. QED BY <1>2, <2>1, <2>2, <2>4
  <1>7. CASE Tick
    <2>1. /\ \A p \in Requests :
               /\ ~req[p].late /\ (req[p] # Idle => req'[p].late)
               /\ req'[p].kind = req[p].kind /\ req'[p].step = req[p].step
               /\ req'[p].plan = req[p].plan /\ req'[p].seen = req[p].seen /\ req'[p].ids = req[p].ids
          /\ UNCHANGED <<surprise, row>>
          /\ \/ today' = today /\ clock = "open" /\ clock' = "locked"
             \/ today' = today /\ clock = "locked" /\ clock' = "late"
             \/ today' = today + 1 /\ clock = "late" /\ clock' = "open"
      BY <1>7, TickFacts
    <2>2. req[q].kind \in Saves /\ req[q] # Idle
      BY <2>1, IdleFacts DEF Saves
    <2>3. Horizon(q)' = Horizon(q)
      BY <1>1, <2>1, <2>2 DEF Horizon
    <2>4. KeepsDue(q)'
      BY <1>2, <2>1, <2>2, <2>3 DEF KeepsDue, At, Is
    <2>5. QED BY <1>2, <2>1, <2>2, <2>4
  <1>8. CASE SaveSettings \/ (\E p \in Plans : Refund(p)) \/ UNCHANGED vars
    <2>1. UNCHANGED <<surprise, today, clock, row, req>>
      BY <1>8 DEF SaveSettings, Refund, vars
    <2>2. QED BY <1>3, <2>1
  <1>9. QED BY <1>4, <1>5, <1>6, <1>7, <1>8 DEF Next, Own, Staff

\* A request that schedules leaves the rows of the days that have come alone.
LEMMA DueRows ==
  ASSUME TypeInv, Savers, Never({"overlap", "admin"}), NEW r \in Requests, CreateRows(r),
         NEW p \in Plans, NEW d \in Days, d <= today
  PROVE  /\ <<p, d>> \notin req[r].ids
         /\ ~Is(p, d, "none") => row'[p][d] = row[p][d]
  <1>1. KeepsDue(r) /\ At(r, "create")
    BY DEF CreateRows, TypeInv, Shape, At, SaveSteps, Savers
  <1>2. today \in Nat /\ d \in Int
    BY NumberAssumption DEF TypeInv, TypeOK, Days
  <1>3. ~(d > Horizon(r))
    BY <1>2 DEF Horizon
  <1>4. <<p, d>> \notin req[r].ids
    BY <1>1, <1>3 DEF KeepsDue, At
  <1>5. ~Is(p, d, "none") => row'[p][d] = row[p][d]
    BY <1>4, RowCreated
  <1>6. QED BY <1>4, <1>5

\* Every step keeps Counters.
LEMMA CountersNext ==
  ASSUME TypeInv, RowsInv, Savers, Counters, [Next]_vars
  PROVE  Counters'
  <1> SUFFICES ASSUME Never({"overlap", "admin", "closing"})',
                      NEW q \in Requests, req'[q].kind = "collect"
               PROVE  /\ \A p \in Requests : req'[p].kind = "collect" => p = q
                      /\ req'[q].read = req'[q].ids
                      /\ \A i \in req'[q].read : Scheduled(i)' /\ i[2] <= today'
    BY DEF Counters
  <1>1. TypeOK /\ Shape /\ today \in Nat /\ ClosesAlone
    BY DEF TypeInv, TypeOK, RowsInv
  <1>2. ASSUME surprise' = surprise
        PROVE  /\ Never({"overlap", "admin", "closing"}) /\ Never({"overlap", "admin"})
               /\ \A r \in Requests : req[r].kind = "collect" =>
                    /\ \A p \in Requests : req[p].kind = "collect" => p = r
                    /\ req[r].read = req[r].ids
                    /\ \A i \in req[r].read : i \in Pickups /\ Scheduled(i) /\ i[2] <= today
    BY <1>1, <1>2 DEF Counters, Never, TypeOK, LocalState
  <1>3. ASSUME UNCHANGED <<surprise, today, row>>, req'[q] = req[q],
               \A p \in Requests : req'[p].kind = "collect" => req[p].kind = "collect"
        PROVE  /\ \A p \in Requests : req'[p].kind = "collect" => p = q
               /\ req'[q].read = req'[q].ids
               /\ \A i \in req'[q].read : Scheduled(i)' /\ i[2] <= today'
    BY <1>2, <1>3 DEF Scheduled, Is
  <1>4. ASSUME NEW r \in Requests, Own(r)
        PROVE  /\ \A p \in Requests : req'[p].kind = "collect" => p = q
               /\ req'[q].read = req'[q].ids
               /\ \A i \in req'[q].read : Scheduled(i)' /\ i[2] <= today'
    <2>1. /\ \A p \in Requests : p # r => req'[p] = req[p]
          /\ UNCHANGED <<surprise, today, row>>
          /\ req'[r].kind # "collect"
      BY <1>4, OwnFacts, IdleFacts DEF Saves
    <2>2. QED BY <1>3, <2>1
  <1>5. ASSUME NEW r \in Requests, CreateRows(r)
        PROVE  /\ \A p \in Requests : req'[p].kind = "collect" => p = q
               /\ req'[q].read = req'[q].ids
               /\ \A i \in req'[q].read : Scheduled(i)' /\ i[2] <= today'
    <2>1. /\ UNCHANGED <<surprise, today>> /\ req'[r].kind = "none"
          /\ \A p \in Requests : p # r => req'[p].kind = req[p].kind
      BY <1>5, CreateFacts, IdleFacts DEF CreateRows
    <2>2. q # r /\ req[q].kind = "collect" /\ req'[q].read = req[q].read
          /\ (req'[q] = req[q] \/ req'[q] = Without(req[q], req[r].ids))
      BY <1>5, <2>1, CreateFacts
    <2>3. ASSUME NEW i \in req[q].read
          PROVE  i \notin req[r].ids /\ Scheduled(i)' /\ i[2] <= today'
      <3>1. i \in Pickups /\ Scheduled(i) /\ i[2] <= today /\ Never({"overlap", "admin"})
        BY <1>2, <2>1, <2>2, <2>3
      <3>2. PICK p \in Plans, d \in Days : i = <<p, d>>
        BY <3>1 DEF Pickups
      <3>3. Is(p, d, "SCHEDULED") /\ ~Is(p, d, "none") /\ d <= today
        BY <3>1, <3>2 DEF Scheduled, Is
      <3>4. <<p, d>> \notin req[r].ids /\ row'[p][d] = row[p][d]
        BY <1>5, <3>1, <3>3, DueRows
      <3>5. QED BY <2>1, <3>2, <3>3, <3>4 DEF Scheduled, Is
    <2>4. req'[q].ids = req[q].ids
      <3>1. CASE req'[q] = req[q]
        BY <3>1
      <3>2. CASE req'[q] = Without(req[q], req[r].ids)
        <4>1. req[q] \in LocalState /\ req[q].read = req[q].ids
          BY <1>1, <1>2, <2>1, <2>2 DEF TypeOK
        <4>2. req'[q].ids = req[q].ids \ req[r].ids
          BY <3>2, <4>1 DEF Without, LocalState
        <4>3. QED BY <2>3, <4>1, <4>2
      <3>3. QED BY <2>2, <3>1, <3>2
    <2>5. QED BY <1>2, <2>1, <2>2, <2>3, <2>4
  <1>6. ASSUME NEW r \in Requests, Staff(r)
        PROVE  /\ \A p \in Requests : req'[p].kind = "collect" => p = q
               /\ req'[q].read = req'[q].ids
               /\ \A i \in req'[q].read : Scheduled(i)' /\ i[2] <= today'
    <2>1. /\ \A p \in Requests : p # r => req'[p] = req[p]
          /\ UNCHANGED <<surprise, today>>
      BY <1>6, StaffFacts
    <2>2. CASE req'[r].kind = "collect"
      <3>1. CollectRead(r)
        <4>1. ASSUME req'[r] = Idle PROVE FALSE
          BY <2>2, <4>1, IdleFacts
        <4>2. ASSUME NEW cutoff \in 0..(MaxDay - 1), CloseRead(r, cutoff) PROVE FALSE
          <5>1. \E X : req' = [req EXCEPT ![r] = [Idle EXCEPT !.kind = "close", !.step = "end",
                                                   !.cutoff = cutoff, !.ids = X]]
            BY <4>2 DEF CloseRead
          <5>2. QED BY <1>1, <2>2, <5>1, IdleTyped DEF TypeOK, LocalState
        <4>3. ASSUME CloseSave(r) PROVE FALSE
          BY <1>1, <2>2, <4>3 DEF CloseSave, TypeOK, LocalState, Shape, At
        <4>4. QED BY <1>1, <1>6, <4>1, <4>2, <4>3 DEF Staff, CollectMark, CloseSkip, CloseDies, Done, TypeOK
      <3>2. PICK X \in SUBSET Pickups :
              /\ X = {i \in Pickups : Collectable(i[1], i[2])}
              /\ req' = [req EXCEPT ![r] = [Idle EXCEPT !.kind = "collect", !.step = "mark",
                                                        !.read = X, !.ids = X]]
        BY <3>1 DEF CollectRead
      <3>3. req'[r].read = X /\ req'[r].ids = X
        BY <1>1, <3>2, IdleTyped DEF TypeOK, LocalState
      <3>4. \A p \in Requests : req'[p].kind = "collect" => p = r
        <4>1. \A p \in Requests : req[p].kind # "collect"
          BY <1>2, <2>1, <3>1 DEF CollectRead, Begin, SameSort, Never
        <4>2. QED BY <2>1, <4>1
      <3>5. row' = row
        BY <3>1 DEF CollectRead
      <3>6. \A i \in X : Scheduled(i) /\ i[2] <= today
        BY <1>1, <3>2 DEF Collectable, Scheduled
      <3>7. QED BY <2>1, <3>3, <3>4, <3>5, <3>6 DEF Scheduled, Is
    <2>3. CASE req'[r].kind # "collect"
      <3>1. q # r /\ req[q].kind = "collect" /\ req[q] # Idle
        BY <2>1, <2>3, IdleFacts
      <3>2. ~CollectMark(r)
        BY <1>1, <1>2, <2>1, <3>1 DEF CollectMark, At, Shape
      <3>3. ~CloseSkip(r)
        BY <1>1, <1>2, <2>1, <3>1 DEF CloseSkip, At, Shape, ClosesAlone, Never
      <3>4. row' = row
        BY <1>6, <3>2, <3>3 DEF Staff, CollectRead, CloseRead, CloseSave, CloseDies
      <3>5. QED BY <1>3, <2>1, <2>3, <3>1, <3>4
    <2>4. QED BY <2>2, <2>3
  <1>7. CASE Tick
    <2>1. /\ \A p \in Requests : req'[p].kind = req[p].kind
          /\ req'[q].read = req[q].read /\ req'[q].ids = req[q].ids
          /\ UNCHANGED <<surprise, row>>
          /\ today' = today \/ today' = today + 1
      BY <1>7, TickFacts
    <2>2. ASSUME NEW i \in req[q].read PROVE Scheduled(i)' /\ i[2] <= today'
      <3>1. i \in Pickups /\ Scheduled(i) /\ i[2] <= today
        BY <1>2, <2>1, <2>2
      <3>2. PICK d \in Days : d = i[2]
        BY <3>1 DEF Pickups
      <3>3. d \in Int /\ d <= today
        BY <3>1, <3>2, NumberAssumption DEF Days
      <3>4. d <= today'
        BY <1>1, <2>1, <3>3
      <3>5. QED BY <2>1, <3>1, <3>2, <3>4 DEF Scheduled, Is
    <2>3. QED BY <1>2, <2>1, <2>2
  <1>8. CASE SaveSettings \/ (\E p \in Plans : Refund(p)) \/ UNCHANGED vars
    <2>1. UNCHANGED <<surprise, today, row, req>>
      BY <1>8 DEF SaveSettings, Refund, vars
    <2>2. QED BY <1>3, <2>1
  <1>9. QED BY <1>4, <1>5, <1>6, <1>7, <1>8 DEF Next, Own, Staff

\* Every step hands a pickup out only if it has not been.
LEMMA HandedNext ==
  ASSUME TypeInv, RowsInv, Counters, HandedOutOnce, [Next]_vars
  PROVE  HandedOutOnce'
  <1> SUFFICES ASSUME Never({"overlap", "admin", "closing"})', NEW p \in Plans, NEW d \in Days
               PROVE  handed'[p][d] = IF Is(p, d, "DELIVERED")' THEN 1 ELSE 0
    BY DEF HandedOutOnce
  <1>1. /\ TypeOK /\ Shape /\ Doomed /\ ClosesAlone
        /\ row[p][d] \in Row /\ handed[p][d] \in Int
    BY DEF TypeInv, TypeOK, RowsInv
  <1>2. surprise' = surprise =>
          /\ handed[p][d] = IF Is(p, d, "DELIVERED") THEN 1 ELSE 0
          /\ Never({"overlap", "admin", "closing"})
    BY DEF Never, HandedOutOnce
  <1>3. ASSUME UNCHANGED <<surprise, row, handed>>
        PROVE  handed'[p][d] = IF Is(p, d, "DELIVERED")' THEN 1 ELSE 0
    BY <1>2, <1>3 DEF Is
  <1>4. ASSUME NEW r \in Requests, CreateRows(r)
        PROVE  handed'[p][d] = IF Is(p, d, "DELIVERED")' THEN 1 ELSE 0
    <2>1. UNCHANGED <<surprise, handed>>
      BY <1>4 DEF CreateRows
    <2>2. CASE row'[p][d] = row[p][d]
      BY <1>2, <2>1, <2>2 DEF Is
    <2>3. CASE row'[p][d] # row[p][d]
      <3>1. /\ Is(p, d, "none") \/ <<p, d>> \in req[r].ids
            /\ \/ row'[p][d] = [status |-> "SCHEDULED", packs |-> req[r].wanted[d]]
               \/ row'[p][d] = NoRow
        BY <1>4, <2>3, RowCreated
      <3>2. row'[p][d].status \in {"SCHEDULED", "none"}
        BY <3>1 DEF NoRow
      <3>3. ~Is(p, d, "DELIVERED")
        BY <1>1, <1>4, <3>1 DEF CreateRows, Doomed, Scheduled, Is
      <3>4. QED BY <1>2, <2>1, <3>2, <3>3 DEF Is
    <2>4. QED BY <2>2, <2>3
  <1>5. ASSUME NEW r \in Requests, CollectMark(r)
        PROVE  handed'[p][d] = IF Is(p, d, "DELIVERED")' THEN 1 ELSE 0
    <2>1. /\ surprise' = surprise
          /\ row' = Marked(req[r].ids, "DELIVERED")
          /\ handed'[p][d] = handed[p][d] + IF <<p, d>> \in req[r].read THEN 1 ELSE 0
      BY <1>5 DEF CollectMark
    <2>2. req[r].read = req[r].ids /\ \A i \in req[r].read : Scheduled(i)
      BY <1>1, <1>2, <1>5, <2>1 DEF CollectMark, At, Shape, Counters, Never
    <2>3. /\ <<p, d>> \in req[r].ids => row'[p][d].status = "DELIVERED"
          /\ <<p, d>> \notin req[r].ids => row'[p][d] = row[p][d]
      BY <2>1, MarkedRows
    <2>4. CASE <<p, d>> \in req[r].ids
      <3>1. ~Is(p, d, "DELIVERED") /\ Is(p, d, "DELIVERED")'
        BY <2>2, <2>3, <2>4 DEF Scheduled, Is
      <3>2. QED BY <1>2, <2>1, <2>2, <2>4, <3>1
    <2>5. CASE <<p, d>> \notin req[r].ids
      <3>1. Is(p, d, "DELIVERED") <=> Is(p, d, "DELIVERED")'
        BY <2>3, <2>5 DEF Is
      <3>2. handed'[p][d] = handed[p][d]
        BY <1>1, <2>1, <2>2, <2>5
      <3>3. QED BY <1>2, <2>1, <3>1, <3>2
    <2>6. QED BY <2>4, <2>5
  <1>6. ASSUME NEW r \in Requests, CloseSkip(r)
        PROVE  handed'[p][d] = IF Is(p, d, "DELIVERED")' THEN 1 ELSE 0
    <2>1. UNCHANGED <<surprise, handed>> /\ row' = Marked(req[r].ids, "SKIPPED")
      BY <1>6 DEF CloseSkip
    <2>2. \A i \in req[r].ids : Scheduled(i)
      BY <1>1, <1>2, <1>6, <2>1 DEF CloseSkip, At, Shape, ClosesAlone, Never
    <2>3. /\ <<p, d>> \in req[r].ids => row'[p][d].status = "SKIPPED"
          /\ <<p, d>> \notin req[r].ids => row'[p][d] = row[p][d]
      BY <2>1, MarkedRows
    <2>4. Is(p, d, "DELIVERED") <=> Is(p, d, "DELIVERED")'
      BY <2>2, <2>3 DEF Scheduled, Is
    <2>5. QED BY <1>2, <2>1, <2>4
  <1>7. ASSUME NEW r \in Requests, Own(r) PROVE UNCHANGED <<surprise, row, handed>>
    BY <1>7, OwnFacts
  <1>8. ASSUME NEW r \in Requests,
               \/ CollectRead(r) \/ CloseSave(r) \/ CloseDies(r)
               \/ \E cutoff \in 0..(MaxDay - 1) : CloseRead(r, cutoff)
        PROVE  UNCHANGED <<surprise, row, handed>>
    BY <1>8 DEF CollectRead, CloseRead, CloseSave, CloseDies
  <1>9. SaveSettings \/ (\E x \in Plans : Refund(x)) \/ Tick \/ UNCHANGED vars
          => UNCHANGED <<surprise, row, handed>>
    BY DEF SaveSettings, Refund, Tick, vars
  <1>10. QED BY <1>3, <1>4, <1>5, <1>6, <1>7, <1>8, <1>9 DEF Next, Own

\* A request on its way does not come to schedule past the end of operations.
LEMMA EndsOwn ==
  ASSUME TypeInv, RowsInv, Ends, NEW r \in Requests, Own(r),
         Never({"closing", "admin", "settings"})
  PROVE  Ends'
  <1>1. TypeOK /\ Shape /\ ClosesAlone /\ opsEnd = closedOn
    BY DEF TypeInv, RowsInv, Ends
  <1>2. /\ \A q \in Requests : q # r => req'[q] = req[q]
        /\ req' \in [Requests -> LocalState]
        /\ UNCHANGED <<surprise, opsEnd, closedOn, row>>
        /\ req'[r] = Idle \/ req'[r].kind \in Saves
    BY OwnFacts
  <1>3. \A q \in Requests : ~At(q, "skip")
    <2>1. SUFFICES ASSUME NEW q \in Requests, At(q, "skip") PROVE FALSE
      OBVIOUS
    <2>2. req[q].kind = "close"
      BY <1>1, <2>1 DEF Shape, At
    <2>3. CASE q = r
      BY <1>1, <2>1, <2>3, IdleFacts DEF Own, ScheduleRead, Begin, CheckCapacity, DeleteScheduled,
                                        DeleteResumed, At
    <2>4. CASE q # r
      <3>1. req[r] = Idle
        BY <1>1, <2>2, <2>4 DEF ClosesAlone, Never
      <3>2. \E k : Begin(r, k)
        BY <3>1, IdleFacts DEF Own, ScheduleRead, CheckCapacity, DeleteScheduled, DeleteResumed, At
      <3>3. QED BY <2>2, <3>2 DEF Begin, Never
    <2>5. QED BY <2>3, <2>4
  <1>4. \A i \in Pickups : Scheduled(i) => i[2] <= closedOn
    BY <1>3 DEF Ends
  <1>5. \A q \in Requests : WantsInTime(q)
    BY DEF Ends
  <1>6. WantsInTime(r)'
    <2>1. CASE req'[r] = Idle
      <3>1. req'[r].step = "idle"
        BY <2>1, IdleFacts
      <3>2. QED BY <3>1 DEF WantsInTime, At
    <2>2. ASSUME NEW p \in Plans, NEW w \in Slots, Reads(r, "member", p, w)
          PROVE  WantsInTime(r)'
      <3>1. PICK c : c = Begun("member", p, w)
        OBVIOUS
      <3>2. req'[r] = c /\ c.step = "capacity" /\ c.wanted = w /\ c.seen = row[p]
        BY <1>1, <2>2, <3>1, BegunFields DEF Reads, Saves
      <3>3. ASSUME NEW d \in Dates(w), d > closedOn
            PROVE  row[p][d].status \in {"DELIVERED", "SKIPPED"}
        <4>1. d \in Days /\ d \in Int
          BY NumberAssumption DEF Dates, Days
        <4>2. closedOn \in Int
          BY <1>1, NumberAssumption DEF TypeOK, NoEnd
        <4>3. ~Bookable(d)
          BY <1>1, <3>3, <4>1, <4>2 DEF Bookable, IsDateClosed
        <4>4. ~Is(p, d, "none")
          BY <2>2, <3>3, <4>3 DEF Reads
        <4>5. ~Is(p, d, "SCHEDULED")
          <5>1. <<p, d>> \in Pickups
            BY <4>1 DEF Pickups
          <5>2. ~(d <= closedOn)
            BY <3>3, <4>1, <4>2
          <5>3. QED BY <1>4, <5>1, <5>2 DEF Scheduled
        <4>6. row[p][d] \in Row
          BY <1>1, <4>1 DEF TypeOK
        <4>7. QED BY <4>4, <4>5, <4>6 DEF Row, RowStatus, Is
      <3>4. QED BY <1>2, <3>2, <3>3 DEF WantsInTime, At
    <2>3. CASE Checks(r)
      <3>1. PICK c : c = req[r]
        OBVIOUS
      <3>2. Saving(c) /\ WantsInTime(r) /\ At(r, "capacity")
        BY <1>5, <2>3, <3>1 DEF Checks, Saving, At
      <3>3. \A d \in Dates(c.wanted) : d > closedOn => c.seen[d].status \in {"DELIVERED", "SKIPPED"}
        BY <3>1, <3>2 DEF WantsInTime
      <3>4. CASE req'[r] = Decided(c)
        <4>1. PICK e : e = Decided(c)
          OBVIOUS
        <4>2. /\ e.step = "delete" /\ e.plan = c.plan /\ e.wanted = c.wanted
              /\ e.read = {c.plan} \X {d \in Days : Frozen(c, d)}
          BY <3>2, <4>1, DecidedFields
        <4>3. \A d \in Dates(c.wanted) : d > closedOn => <<c.plan, d>> \in e.read
          <5>1. SUFFICES ASSUME NEW d \in Dates(c.wanted), d > closedOn PROVE <<c.plan, d>> \in e.read
            OBVIOUS
          <5>2. Frozen(c, d) /\ d \in Days
            BY <3>3, <5>1 DEF Frozen, Dates
          <5>3. QED BY <4>2, <5>2
        <4>4. req'[r] = e
          BY <3>4, <4>1
        <4>5. QED BY <1>2, <4>2, <4>3, <4>4 DEF WantsInTime, At
      <3>5. CASE \E d : req'[r] = [c EXCEPT !.left = @ \ {d}]
        <4>1. req'[r].step = "capacity" /\ req'[r].wanted = c.wanted /\ req'[r].seen = c.seen
          BY <3>2, <3>5 DEF Saving, LocalState
        <4>2. QED BY <1>2, <3>3, <4>1 DEF WantsInTime, At
      <3>6. QED BY <2>3, <3>1, <3>4, <3>5 DEF Checks
    <2>4. ASSUME NEW X, NEW s \in {"wait", "create"}, Takes(r, X, s)
          PROVE  WantsInTime(r)'
      <3>1. /\ req'[r].step = s /\ req'[r].wanted = req[r].wanted
            /\ req'[r].plan = req[r].plan /\ req'[r].read = req[r].read
        BY <1>1, <2>4 DEF Takes, TypeOK, LocalState
      <3>2. WantsInTime(r) /\ (At(r, "delete") \/ At(r, "wait"))
        BY <1>5, <2>4 DEF Takes
      <3>3. \A d \in Dates(req[r].wanted) : d > closedOn => <<req[r].plan, d>> \in req[r].read
        BY <3>2 DEF WantsInTime, At
      <3>4. QED BY <1>2, <3>1, <3>3 DEF WantsInTime, At
    <2>5. Never({"admin"})
      BY DEF Never
    <2>6. QED BY <2>5, <2>4, <2>3, <2>2, <2>1, MemberSteps
  <1>7. \A q \in Requests : q # r => WantsInTime(q)'
    BY <1>2, <1>5 DEF WantsInTime, At
  <1>8. \A i \in Pickups : Scheduled(i)' => i[2] <= closedOn'
    BY <1>2, <1>4 DEF Scheduled, Is
  <1>9. QED BY <1>1, <1>2, <1>6, <1>7, <1>8 DEF Ends

\* A closing that has saved its date runs alone, and the rows past the date are in its hands.
LEMMA EndsCreate ==
  ASSUME TypeInv, RowsInv, Ends, NEW r \in Requests, CreateRows(r),
         Never({"closing", "admin", "settings"})
  PROVE  Ends'
  <1>1. TypeOK /\ Shape /\ ClosesAlone /\ opsEnd = closedOn /\ At(r, "create")
    BY DEF TypeInv, RowsInv, Ends, CreateRows
  <1>2. /\ UNCHANGED <<opsEnd, closedOn>> /\ req'[r] = Idle
        /\ \A q \in Requests : q # r =>
             /\ req'[q].step = req[q].step /\ req'[q].plan = req[q].plan
             /\ req'[q].wanted = req[q].wanted /\ req'[q].seen = req[q].seen
             /\ req'[q].read = req[q].read
    BY CreateFacts, ZenonT(60) DEF CreateRows
  <1>3. \A q \in Requests : ~At(q, "skip")
    BY <1>1, IdleFacts DEF Shape, At, ClosesAlone, Never
  <1>4. \A i \in Pickups : Scheduled(i) => i[2] <= closedOn
    BY <1>3 DEF Ends
  <1>5. \A q \in Requests : WantsInTime(q)
    BY DEF Ends
  <1>6. ASSUME NEW p \in Plans, NEW d \in Days, Is(p, d, "SCHEDULED")'
        PROVE  d <= closedOn
    <2>1. CASE row'[p][d] = row[p][d]
      <3>1. <<p, d>> \in Pickups /\ Scheduled(<<p, d>>)
        BY <1>6, <2>1 DEF Pickups, Scheduled, Is
      <3>2. QED BY <1>4, <3>1
    <2>2. CASE row'[p][d] # row[p][d]
      <3>1. p = req[r].plan /\ (Creates(r, d) \/ row'[p][d] = NoRow)
        BY <2>2, RowCreated
      <3>2. Creates(r, d)
        BY <1>6, <3>1 DEF NoRow, Is
      <3>3. ~(d > closedOn)
        BY <1>1, <1>5, <3>2 DEF WantsInTime, At, Creates
      <3>4. d \in Int /\ closedOn \in Int
        BY <1>1, NumberAssumption DEF Days, TypeOK, NoEnd
      <3>5. QED BY <3>3, <3>4
    <2>3. QED BY <2>1, <2>2
  <1>7. \A i \in Pickups : Scheduled(i)' => i[2] <= closedOn'
    <2>1. SUFFICES ASSUME NEW i \in Pickups, Scheduled(i)' PROVE i[2] <= closedOn'
      OBVIOUS
    <2>2. PICK p \in Plans, d \in Days : i = <<p, d>>
      BY DEF Pickups
    <2>3. Is(p, d, "SCHEDULED")'
      BY <2>1, <2>2 DEF Scheduled, Is
    <2>4. QED BY <1>2, <1>6, <2>2, <2>3
  <1>8. \A q \in Requests : WantsInTime(q)'
    <2>1. SUFFICES ASSUME NEW q \in Requests PROVE WantsInTime(q)'
      OBVIOUS
    <2>2. CASE q = r
      <3>1. req'[r].step = "idle"
        BY <1>2, IdleFacts
      <3>2. QED BY <2>2, <3>1 DEF WantsInTime, At
    <2>3. CASE q # r
      BY <1>2, <1>5, <2>3 DEF WantsInTime, At
    <2>4. QED BY <2>2, <2>3
  <1>9. QED BY <1>1, <1>2, <1>7, <1>8 DEF Ends

\* The counter and a closing keep Ends.
LEMMA EndsStaff ==
  ASSUME TypeInv, RowsInv, Ends, NEW r \in Requests, Staff(r),
         Never({"closing", "admin", "settings"})
  PROVE  Ends'
  <1>1. /\ TypeOK /\ Shape /\ ClosesAlone /\ opsEnd = closedOn
        /\ \A q \in Requests : WantsInTime(q)
    BY DEF TypeInv, RowsInv, Ends
  <1>2. /\ \A q \in Requests : q # r => req'[q] = req[q]
        /\ req'[r] = Idle \/ req'[r].kind \in {"collect", "close"}
        /\ Shape'
    BY StaffFacts
  <1>3. req'[r].step \notin SaveSteps
    BY <1>2, IdleFacts DEF Shape, SaveSteps, Saves
  <1>4. WantsInTime(r)'
    BY <1>3 DEF WantsInTime, At, SaveSteps
  <1>5. CASE CloseSave(r)
    <2>1. /\ req[r].kind = "close" /\ opsEnd' = closedOn'
          /\ req'[r].step = "skip"
      BY <1>1, <1>5 DEF CloseSave, Shape, At, TypeOK, LocalState
    <2>2. \A q \in Requests : q # r => req'[q].step = "idle"
      BY <1>1, <1>2, <2>1, IdleFacts DEF ClosesAlone, Never
    <2>3. \A q \in Requests : WantsInTime(q)'
      BY <1>4, <2>2 DEF WantsInTime, At
    <2>4. QED BY <2>1, <2>3 DEF Ends, At
  <1>6. CASE ~CloseSave(r)
    <2>1. UNCHANGED <<opsEnd, closedOn>>
      BY <1>6 DEF Staff, CollectRead, CollectMark, CloseRead, CloseSkip, CloseDies
    <2>2. \A q \in Requests : WantsInTime(q)'
      BY <1>1, <1>2, <1>4, <2>1 DEF WantsInTime, At
    <2>3. ASSUME \A q \in Requests : ~At(q, "skip")', NEW p \in Plans, NEW d \in Days,
                 Is(p, d, "SCHEDULED")'
          PROVE  d <= closedOn
      <3>1. Is(p, d, "SCHEDULED") /\ <<p, d>> \in Pickups
        BY <2>3, StaffRows DEF Pickups
      <3>2. CASE \A q \in Requests : ~At(q, "skip")
        BY <3>1, <3>2 DEF Ends, Scheduled
      <3>3. CASE CloseSkip(r)
        <4>1. /\ closedOn = req[r].cutoff
              /\ \A i \in Pickups : Scheduled(i) /\ i[2] > req[r].cutoff => i \in req[r].ids
          BY <1>1, <3>3 DEF CloseSkip, ClosesAlone, Never, Shape, At
        <4>2. row' = Marked(req[r].ids, "SKIPPED")
          BY <3>3 DEF CloseSkip
        <4>3. <<p, d>> \notin req[r].ids
          BY <2>3, <4>2, MarkedRows
        <4>4. ~(d > closedOn)
          BY <3>1, <4>1, <4>3 DEF Scheduled
        <4>5. d \in Int /\ closedOn \in Int
          BY <1>1, NumberAssumption DEF Days, TypeOK, NoEnd
        <4>6. QED BY <4>4, <4>5
      <3>4. CASE ~CloseSkip(r) /\ ~\A q \in Requests : ~At(q, "skip")
        <4>1. PICK q \in Requests : At(q, "skip")
          BY <3>4
        <4>2. req[q].kind = "close"
          BY <1>1, <4>1 DEF Shape, At
        <4>3. q = r
          BY <1>2, <2>3, <4>1 DEF At
        <4>4. Staff(r) /\ req[r].step = "skip" /\ req[r] # Idle
          BY <4>1, <4>3, IdleFacts DEF At
        <4>5. QED BY <1>6, <3>4, <4>4
                 DEF Staff, CollectRead, CollectMark, CloseRead, CloseDies, Begin, At, Never
      <3>5. QED BY <3>2, <3>3, <3>4
    <2>4. (\A q \in Requests : ~At(q, "skip")') =>
            \A i \in Pickups : Scheduled(i)' => i[2] <= closedOn'
      <3>1. SUFFICES ASSUME \A q \in Requests : ~At(q, "skip")', NEW i \in Pickups, Scheduled(i)'
                     PROVE  i[2] <= closedOn'
        OBVIOUS
      <3>2. PICK p \in Plans, d \in Days : i = <<p, d>>
        BY DEF Pickups
      <3>3. Is(p, d, "SCHEDULED")'
        BY <3>1, <3>2 DEF Scheduled, Is
      <3>4. QED BY <2>1, <2>3, <3>1, <3>2, <3>3
    <2>5. QED BY <1>1, <2>1, <2>2, <2>4 DEF Ends
  <1>7. QED BY <1>5, <1>6

\* Every step keeps Ends.
LEMMA EndsNext ==
  ASSUME TypeInv, RowsInv, Ends, [Next]_vars
  PROVE  Ends'
  <1> SUFFICES ASSUME Never({"closing", "admin", "settings"})'
               PROVE  Ends'
    BY DEF Ends
  <1>1. surprise' = surprise
    <2>1. \A r \in Requests : Own(r) \/ Staff(r) => surprise' = surprise
      BY OwnFacts, StaffFacts
    <2>2. QED BY <2>1 DEF Next, Own, Staff, CreateRows, SaveSettings, Refund, Tick, vars
  <1>2. Never({"closing", "admin", "settings"})
    BY <1>1 DEF Never
  <1>3. CASE Tick
    <2>1. /\ \A q \in Requests :
               /\ req'[q].step = req[q].step /\ req'[q].plan = req[q].plan
               /\ req'[q].wanted = req[q].wanted /\ req'[q].seen = req[q].seen
               /\ req'[q].read = req[q].read
          /\ UNCHANGED <<opsEnd, closedOn, row>>
      BY <1>3, TickFacts
    <2>2. \A q \in Requests : WantsInTime(q) => WantsInTime(q)'
      BY <2>1 DEF WantsInTime, At
    <2>3. QED BY <1>2, <2>1, <2>2 DEF Ends, At, Scheduled, Is
  <1>4. CASE (\E p \in Plans : Refund(p)) \/ UNCHANGED vars
    <2>1. UNCHANGED <<opsEnd, closedOn, row, req>>
      BY <1>4 DEF Refund, vars
    <2>2. QED BY <1>2, <2>1 DEF Ends, WantsInTime, At, Scheduled, Is
  <1>5. ~SaveSettings
    BY <1>2 DEF SaveSettings, Never
  <1>6. QED BY <1>2, <1>3, <1>4, <1>5, EndsOwn, EndsCreate, EndsStaff DEF Next, Own, Staff

DueInv == Savers /\ Counters /\ HandedOutOnce /\ Ends

\* DueInv holds in the initial states.
LEMMA DueInit == Init => DueInv
  <1> SUFFICES ASSUME Init PROVE DueInv
    OBVIOUS
  <1>1. \A r \in Requests : req[r].kind = "none" /\ req[r].step = "idle"
    BY IdleFacts DEF Init
  <1>2. \A p \in Plans, d \in Days : row[p][d].status = "none" /\ handed[p][d] = 0
    BY DEF Init, NoRow
  <1>3. \A i \in Pickups : ~Scheduled(i)
    BY <1>2 DEF Pickups, Scheduled, Is
  <1>4. Savers /\ Counters
    BY <1>1 DEF Savers, Counters, Saves
  <1>5. HandedOutOnce
    BY <1>2 DEF HandedOutOnce, Is
  <1>6. \A r \in Requests : WantsInTime(r)
    BY <1>1 DEF WantsInTime, At
  <1>7. Ends
    BY <1>3, <1>6 DEF Init, Ends
  <1>8. QED BY <1>4, <1>5, <1>7 DEF DueInv

\* Every step keeps DueInv.
LEMMA DueNext ==
  ASSUME TypeInv, RowsInv, DueInv, [Next]_vars
  PROVE  DueInv'
  BY SaversNext, CountersNext, HandedNext, EndsNext DEF DueInv

\* What is true of every state that can be reached: what the requests rely on between a read and
\* the write that follows it, of a day that has come and of a plan that has ended.
THEOREM DueDays == Spec => [](TypeInv /\ RowsInv /\ DueInv)
  BY DueInit, DueNext, HeldRows, PTL DEF Spec

\* Whatever is scheduled and collected in whatever order, a pickup is handed out once, and its
\* row is DELIVERED exactly then: what a counter has read is still there when it marks it,
\* because a request that schedules does not delete the rows of a day that has come.
THEOREM HandedOut == Spec => []HandedOutOnce
  <1>1. DueInv => HandedOutOnce
    BY DEF DueInv
  <1>2. QED BY <1>1, DueDays, PTL

\* Once operations are closed nothing is scheduled past the date, by no request: what a request
\* wants past it, its plan already has as a pickup that is over.
THEOREM NothingAfterTheEnd == Spec => []NothingPastTheEnd
  <1>1. TypeInv /\ DueInv => NothingPastTheEnd
    <2>1. SUFFICES ASSUME TypeInv, DueInv, Never({"closing", "admin", "settings"}),
                          \A r \in Requests : req[r].kind # "close",
                          NEW p \in Plans, NEW d \in DaysWith(p, "SCHEDULED")
                   PROVE  d <= closedOn
      BY DEF NothingPastTheEnd
    <2>2. \A r \in Requests : ~At(r, "skip")
      BY <2>1 DEF TypeInv, Shape, At
    <2>3. <<p, d>> \in Pickups /\ Scheduled(<<p, d>>)
      BY DEF DaysWith, Pickups, Scheduled
    <2>4. QED BY <2>1, <2>2, <2>3 DEF DueInv, Ends
  <1>2. QED BY <1>1, DueDays, PTL

\* No step of any request loses a pickup whose day has come, or changes its packs: a member's
\* request has locked it, and the id it keeps is the id it has read.
THEOREM DueRowsStay == Spec => PickupKept
  <1>1. ASSUME TypeInv, Savers, [Next]_vars, Never({"overlap", "admin"}),
               NEW p \in Plans, NEW d \in 1..today, ~Is(p, d, "none")
        PROVE  row'[p][d].status # "none" /\ row'[p][d].packs = row[p][d].packs
    <2>1. d \in Days /\ d <= today
      BY <1>1, NumberAssumption DEF TypeInv, TypeOK, Days
    <2>2. ASSUME NEW r \in Requests, CreateRows(r)
          PROVE  row'[p][d].status # "none" /\ row'[p][d].packs = row[p][d].packs
      BY <1>1, <2>1, <2>2, DueRows DEF Is
    <2>3. ASSUME NEW r \in Requests, CollectMark(r) \/ CloseSkip(r)
          PROVE  row'[p][d].status # "none" /\ row'[p][d].packs = row[p][d].packs
      BY <1>1, <2>1, <2>3, StaffRows DEF Staff
    <2>4. QED BY <1>1, <2>2, <2>3, RowWriters DEF Is
  <1>2. TypeInv /\ DueInv /\ [Next]_vars =>
          [Never({"overlap", "admin"}) => \A p \in Plans, d \in 1..today :
             ~Is(p, d, "none") => row'[p][d].status # "none" /\ row'[p][d].packs = row[p][d].packs]_vars
    <2>1. ASSUME TypeInv, DueInv, [Next]_vars, Never({"overlap", "admin"}),
                 NEW p \in Plans, NEW d \in 1..today, ~Is(p, d, "none")
          PROVE  row'[p][d].status # "none" /\ row'[p][d].packs = row[p][d].packs
      BY <1>1, <2>1 DEF DueInv
    <2>2. QED BY <2>1
  <1>3. QED BY <1>2, DueDays, PTL DEF Spec, PickupKept

---------------------------------------------------------------------------
(* The limits: packs are counted as a set, which a schedule request can only add its own to *)

\* The packs of finitely many plans or days are finitely many.
LEMMA PacksFinite ==
  ASSUME NEW S, IsFiniteSet(S), NEW n, \A x \in S : n[x] \in 0..Credits
  PROVE  IsFiniteSet(Packs(n, S)) /\ Cardinality(Packs(n, S)) \in Nat
  <1>1. IsFiniteSet(S \X (1..Credits))
    <2>1. Credits \in Int /\ 1 \in Int
      BY NumberAssumption
    <2>2. IsFiniteSet(1..Credits)
      BY <2>1, FS_Interval
    <2>3. QED BY <2>2, FS_Product
  <1>2. Packs(n, S) \subseteq S \X (1..Credits)
    BY NumberAssumption DEF Packs
  <1>3. QED BY <1>1, <1>2, FS_Subset, FS_CardinalityType

\* Where each has no more packs, all have no more.
LEMMA PacksShrink ==
  ASSUME NEW S, NEW T, S \subseteq T, IsFiniteSet(T), NEW n, NEW m,
         \A x \in T : m[x] \in 0..Credits, \A x \in S : n[x] \in 0..Credits /\ n[x] <= m[x]
  PROVE  Cardinality(Packs(n, S)) <= Cardinality(Packs(m, T))
  <1>1. Packs(n, S) \subseteq Packs(m, T)
    BY NumberAssumption DEF Packs
  <1>2. QED BY <1>1, PacksFinite, FS_Subset

\* One plan more adds at most its own packs.
LEMMA PacksAdd ==
  ASSUME NEW S, NEW T, NEW x, S \subseteq T \cup {x}, IsFiniteSet(T), NEW n, NEW m, NEW k \in Nat,
         \A y \in T : m[y] \in 0..Credits, \A y \in S \ {x} : n[y] = m[y],
         x \in S => n[x] = k
  PROVE  Cardinality(Packs(n, S)) <= Cardinality(Packs(m, T)) + k
  <1> DEFINE A == Packs(m, T)
             B == {x} \X (1..k)
  <1>1. Packs(n, S) \subseteq A \cup B
    BY DEF Packs
  <1>2. IsFiniteSet(A) /\ Cardinality(A) \in Nat
    BY PacksFinite
  <1>3. IsFiniteSet(B) /\ Cardinality(B) = k
    <2>1. IsFiniteSet({x}) /\ Cardinality({x}) = 1
      BY FS_Singleton
    <2>2. IsFiniteSet(1..k) /\ Cardinality(1..k) = k
      BY FS_Interval
    <2>3. IsFiniteSet({x} \X (1..k))
          /\ Cardinality({x} \X (1..k)) = Cardinality({x}) * Cardinality(1..k)
      BY <2>1, <2>2, FS_Product
    <2>4. Cardinality({x}) * Cardinality(1..k) = k
      BY <2>1, <2>2
    <2>5. QED BY <2>3, <2>4
  <1>4. IsFiniteSet(A \cup B) /\ Cardinality(A \cup B) <= Cardinality(A) + k
    <2>1. IsFiniteSet(A \cup B)
          /\ Cardinality(A \cup B) = Cardinality(A) + Cardinality(B) - Cardinality(A \cap B)
      BY <1>2, <1>3, FS_Union
    <2>2. IsFiniteSet(A \cap B)
      BY <1>2, FS_Subset
    <2>3. Cardinality(A \cap B) \in Nat
      BY <2>2, FS_CardinalityType
    <2>4. QED BY <1>2, <1>3, <2>1, <2>3
  <1>5. IsFiniteSet(Packs(n, S)) /\ Cardinality(Packs(n, S)) <= Cardinality(A \cup B)
    BY <1>1, <1>4, FS_Subset
  <1>6. Cardinality(Packs(n, S)) \in Nat /\ Cardinality(A \cup B) \in Nat
    BY <1>4, <1>5, FS_CardinalityType
  <1>7. QED BY <1>2, <1>4, <1>5, <1>6

\* There are finitely many days.
LEMMA DaysFinite == IsFiniteSet(Days)
  <1>1. 1 \in Int /\ MaxDay \in Int
    BY NumberAssumption
  <1>2. IsFiniteSet(1..MaxDay)
    BY <1>1, FS_Interval
  <1>3. QED BY <1>2 DEF Days

\* What a plan has scheduled, and what a day has cooked, are numbers.
LEMMA PacksTyped ==
  ASSUME TypeInv
  PROVE  /\ \A p \in Plans : PacksOf(p, {"SCHEDULED"}) \in Nat
         /\ \A d \in Days, P \in SUBSET Plans : PacksOn(d, P) \in Nat
  <1>1. \A p \in Plans, d \in Days : row[p][d].packs \in 0..Credits
    BY DEF TypeInv, TypeOK, Row
  <1>2. ASSUME NEW p \in Plans PROVE PacksOf(p, {"SCHEDULED"}) \in Nat
    <2> DEFINE S == {d \in Days : row[p][d].status \in {"SCHEDULED"}}
               n == [d \in Days |-> row[p][d].packs]
    <2>1. IsFiniteSet(S)
      BY DaysFinite, FS_Subset
    <2>2. \A d \in S : n[d] \in 0..Credits
      BY <1>1
    <2>3. Cardinality(Packs(n, S)) \in Nat
      BY <2>1, <2>2, PacksFinite
    <2>4. QED BY <2>3 DEF PacksOf
  <1>3. ASSUME NEW d \in Days, NEW P \in SUBSET Plans PROVE PacksOn(d, P) \in Nat
    <2> DEFINE n == [p \in Plans |-> row[p][d].packs]
    <2>1. IsFiniteSet(Cooked(d, P)) /\ Cooked(d, P) \subseteq Plans
      BY PlanAssumption, FS_Subset DEF Cooked
    <2>2. \A p \in Cooked(d, P) : n[p] \in 0..Credits
      BY <1>1, <2>1
    <2>3. Cardinality(Packs(n, Cooked(d, P))) \in Nat
      BY <2>1, <2>2, PacksFinite
    <2>4. QED BY <2>3 DEF PacksOn
  <1>4. QED BY <1>2, <1>3

\* A plan whose scheduled rows have the packs of a request has no more packs than that.
LEMMA PacksOfWanted ==
  ASSUME TypeInv', NEW p \in Plans, NEW w \in [Days -> 0..Credits],
         \A d \in Days : Is(p, d, "SCHEDULED")' => row'[p][d].packs = w[d]
  PROVE  PacksOf(p, {"SCHEDULED"})' \in Nat /\ PacksOf(p, {"SCHEDULED"})' <= Cardinality(Packs(w, Days))
  <1> DEFINE S == {d \in Days : row'[p][d].status \in {"SCHEDULED"}}
             n == [d \in Days |-> row'[p][d].packs]
  <1>1. S \subseteq Days /\ IsFiniteSet(Days)
    BY DaysFinite
  <1>2. \A d \in S : n[d] \in 0..Credits /\ n[d] <= w[d]
    BY NumberAssumption DEF Is
  <1>3. Cardinality(Packs(n, S)) <= Cardinality(Packs(w, Days))
    BY <1>1, <1>2, PacksShrink
  <1>4. Cardinality(Packs(n, S)) \in Nat
    BY <1>1, <1>2, FS_Subset, PacksFinite
  <1>5. QED BY <1>3, <1>4 DEF PacksOf

\* A plan of which rows are only taken off the schedule has no more packs than before.
LEMMA PacksOfLess ==
  ASSUME TypeInv, TypeInv', NEW p \in Plans,
         \A d \in Days : Is(p, d, "SCHEDULED")' =>
           Is(p, d, "SCHEDULED") /\ row'[p][d].packs = row[p][d].packs
  PROVE  PacksOf(p, {"SCHEDULED"})' \in Nat /\ PacksOf(p, {"SCHEDULED"})' <= PacksOf(p, {"SCHEDULED"})
  <1> DEFINE m == [d \in Days |-> row[p][d].packs]
             n == [d \in Days |-> row'[p][d].packs]
             T == {d \in Days : row[p][d].status \in {"SCHEDULED"}}
             S == {d \in Days : row'[p][d].status \in {"SCHEDULED"}}
  <1>1. S \subseteq T /\ T \subseteq Days
    BY DEF Is
  <1>2. IsFiniteSet(T)
    BY <1>1, DaysFinite, FS_Subset
  <1>3. /\ \A d \in T : m[d] \in 0..Credits
        /\ \A d \in S : n[d] \in 0..Credits /\ n[d] <= m[d]
    BY <1>1 DEF TypeInv, TypeOK, Row, Is
  <1>4. Cardinality(Packs(n, S)) <= Cardinality(Packs(m, T))
    BY <1>1, <1>2, <1>3, PacksShrink
  <1>5. Cardinality(Packs(n, S)) \in Nat
    BY <1>1, <1>2, <1>3, FS_Subset, PacksFinite
  <1>6. QED BY <1>4, <1>5 DEF PacksOf

\* A day that no plan is added to has no more to cook.
LEMMA PacksOnLess ==
  ASSUME TypeInv, TypeInv', NEW d \in Days, NEW P \in SUBSET Plans,
         \A p \in P : plan'[p] = "ACTIVE" /\ Is(p, d, "SCHEDULED")' =>
           plan[p] = "ACTIVE" /\ Is(p, d, "SCHEDULED") /\ row'[p][d].packs = row[p][d].packs
  PROVE  PacksOn(d, P)' \in Nat /\ PacksOn(d, P)' <= PacksOn(d, P)
  <1> DEFINE m == [p \in Plans |-> row[p][d].packs]
             n == [p \in Plans |-> row'[p][d].packs]
             S == Cooked(d, P)'
             T == Cooked(d, P)
  <1>1. S \subseteq T /\ T \subseteq Plans /\ IsFiniteSet(T)
    BY PlanAssumption, FS_Subset DEF Cooked
  <1>2. /\ \A p \in T : m[p] \in 0..Credits
        /\ \A p \in S : n[p] \in 0..Credits /\ n[p] <= m[p]
    BY <1>1 DEF TypeInv, TypeOK, Row, Cooked
  <1>3. Cardinality(Packs(n, S)) <= Cardinality(Packs(m, T))
    BY <1>1, <1>2, PacksShrink
  <1>4. Cardinality(Packs(n, S)) \in Nat
    BY <1>1, <1>2, FS_Subset, PacksFinite
  <1>5. QED BY <1>3, <1>4 DEF PacksOn

\* Some plans have no more to cook than all.
LEMMA PacksOnPart ==
  ASSUME TypeInv, NEW d \in Days, NEW P \in SUBSET Plans
  PROVE  PacksOn(d, P) <= PacksOn(d, Plans)
  <1> DEFINE n == [p \in Plans |-> row[p][d].packs]
  <1>1. Cooked(d, P) \subseteq Cooked(d, Plans) /\ Cooked(d, Plans) \subseteq Plans
    BY DEF Cooked
  <1>2. IsFiniteSet(Cooked(d, Plans))
    BY <1>1, PlanAssumption, FS_Subset
  <1>3. \A p \in Cooked(d, Plans) : n[p] \in 0..Credits /\ n[p] <= n[p]
    BY <1>1 DEF TypeInv, TypeOK, Row
  <1>4. Cardinality(Packs(n, Cooked(d, P))) <= Cardinality(Packs(n, Cooked(d, Plans)))
    BY <1>1, <1>2, <1>3, PacksShrink
  <1>5. QED BY <1>4 DEF PacksOn

\* A day that one plan is added to has to cook that plan's packs more.
LEMMA PacksOnMore ==
  ASSUME TypeInv, TypeInv', NEW d \in Days, NEW q \in Plans, NEW k \in Nat,
         plan' = plan, \A p \in Plans : p # q => row'[p][d] = row[p][d],
         Is(q, d, "SCHEDULED")' => row'[q][d].packs = k
  PROVE  PacksOn(d, Plans)' \in Nat /\ PacksOn(d, Plans)' <= PacksOn(d, Plans \ {q}) + k
  <1> DEFINE m == [p \in Plans |-> row[p][d].packs]
             n == [p \in Plans |-> row'[p][d].packs]
             S == Cooked(d, Plans)'
             T == Cooked(d, Plans \ {q})
  <1>1. S \subseteq T \cup {q} /\ S \subseteq Plans /\ T \subseteq Plans /\ IsFiniteSet(T)
    <2>1. S \subseteq T \cup {q} /\ S \subseteq Plans /\ T \subseteq Plans
      BY DEF Cooked, Is
    <2>2. QED BY <2>1, PlanAssumption, FS_Subset
  <1>2. /\ \A p \in T : m[p] \in 0..Credits
        /\ \A p \in S \ {q} : n[p] = m[p]
        /\ q \in S => n[q] = k
    BY <1>1 DEF TypeInv, TypeOK, Row, Cooked
  <1>3. Cardinality(Packs(n, S)) <= Cardinality(Packs(m, T)) + k
    BY <1>1, <1>2, PacksAdd
  <1>4. Cardinality(Packs(n, S)) \in Nat
    <2>1. IsFiniteSet(S) /\ \A p \in S : n[p] \in 0..Credits
      BY <1>1, PlanAssumption, FS_Subset DEF TypeInv, TypeOK, Row
    <2>2. QED BY <2>1, PacksFinite
  <1>5. QED BY <1>3, <1>4 DEF PacksOn


\* What a request leaves scheduled has the packs it wants: the rows it keeps have them, and the
\* rows it takes are replaced.
Covers(c) ==
  /\ c.wanted \in Slots
  /\ \A d \in Days : Is(c.plan, d, "SCHEDULED") =>
       /\ c.step = "capacity" => c.seen[d] = row[c.plan][d]
       /\ c.step = "delete" /\ <<c.plan, d>> \in c.ids => row[c.plan][d].packs = c.wanted[d]
       /\ c.step \in {"wait", "create"} /\ <<c.plan, d>> \notin c.ids =>
            row[c.plan][d].packs = c.wanted[d]

CreditsInv ==
  Never({"overlap"}) =>
    /\ \A r \in Requests : req[r].kind \in Saves =>
         Covers(req[r]) /\ \A q \in Requests : req[q].kind \in Saves => q = r
    /\ ScheduledWithinCredits

\* The day has room for what a request wants, as far as it has checked.
Room(c) ==
  \A d \in Dates(c.wanted) :
    \/ c.step = "capacity" /\ d \in c.left
    \/ PacksOn(d, Plans \ {c.plan}) + c.wanted[d] <= Capacity

CapacityInv ==
  Never({"overlap", "admin"}) =>
    (\A r \in Requests : req[r].kind \in Saves => Room(req[r])) /\ WithinCapacity

\* A request that has decided found the locked rows as it wants them, or unlocks them.
Passes(c) == c.kind = "unlock" \/ LockedUnchanged(c.seen, c.wanted)

\* The steps of a request that schedules, whoever sends it.
Starts(r, k, p, w) ==
  /\ Begin(r, k)
  /\ k # "member" => surprise = "admin"
  /\ LET c == Begun(k, p, w)
     IN  req'[r] = c \/ (k # "member" /\ Passes(c) /\ req'[r] = Decided(c))
ChecksDay(r, d) ==
  /\ Saving(req[r]) /\ ~Full(req[r], d)
  /\ \/ req[r].left = {d} /\ Passes(req[r]) /\ req'[r] = Decided(req[r])
     \/ req'[r] = [req[r] EXCEPT !.left = @ \ {d}]

\* A request on its way is refused, starts, checks a day, or takes the rows it deletes.
LEMMA SavingSteps ==
  ASSUME TypeInv, NEW r \in Requests, Own(r)
  PROVE  \/ req'[r] = Idle
         \/ \E k \in Saves, p \in Plans, w \in Slots : Starts(r, k, p, w)
         \/ \E d : ChecksDay(r, d)
         \/ \E X \in SUBSET ({req[r].plan} \X Days), s \in {"wait", "create"} : Takes(r, X, s)
  <1>1. TypeOK /\ Shape /\ req \in [Requests -> LocalState]
    BY DEF TypeInv, TypeOK
  <1>2. ASSUME NEW c, Decide(r, c) PROVE req'[r] = Idle \/ (Passes(c) /\ req'[r] = Decided(c))
    BY <1>1, <1>2 DEF Decide, Decided, Passes
  <1>3. ASSUME NEW k \in Saves, NEW p \in Plans, NEW w \in Slots, ScheduleRead(r, k, p, w)
        PROVE  req'[r] = Idle \/ Starts(r, k, p, w)
    <2>1. PICK c : c = Begun(k, p, w)
      OBVIOUS
    <2>2. /\ Begin(r, k)
          /\ k # "member" => surprise = "admin"
          /\ IF k = "member" THEN req' = [req EXCEPT ![r] = c] ELSE Decide(r, c)
      BY <1>3, <2>1 DEF ScheduleRead, Begun
    <2>3. req'[r] = Idle \/ req'[r] = c \/ (k # "member" /\ Passes(c) /\ req'[r] = Decided(c))
      BY <1>1, <1>2, <2>2
    <2>4. QED BY <2>1, <2>2, <2>3 DEF Starts
  <1>4. ASSUME CheckCapacity(r)
        PROVE  req'[r] = Idle \/ \E d : ChecksDay(r, d)
    <2>1. PICK c : c = req[r]
      OBVIOUS
    <2>2. PICK d : d = Min(c.left)
      OBVIOUS
    <2>3. Saving(c)
      BY <1>1, <1>4, <2>1, CheckFacts
    <2>4. \/ Done(r)
          \/ ~Full(c, d) /\ c.left = {d} /\ Decide(r, c)
          \/ ~Full(c, d) /\ req' = [req EXCEPT ![r] = [c EXCEPT !.left = @ \ {d}]]
      BY <1>4, <2>1, <2>2 DEF CheckCapacity
    <2>5. \/ req'[r] = Idle
          \/ ~Full(c, d) /\ c.left = {d} /\ Passes(c) /\ req'[r] = Decided(c)
          \/ ~Full(c, d) /\ req'[r] = [c EXCEPT !.left = @ \ {d}]
      BY <1>1, <1>2, <2>4 DEF Done
    <2>6. QED BY <2>1, <2>3, <2>5 DEF ChecksDay
  <1>5. ASSUME DeleteScheduled(r) \/ DeleteResumed(r)
        PROVE  \E X \in SUBSET ({req[r].plan} \X Days), s \in {"wait", "create"} : Takes(r, X, s)
    <2>1. PICK X \in SUBSET ({req[r].plan} \X Days), s \in {"wait", "create"} :
            req'[r] = [req[r] EXCEPT !.ids = X, !.step = s] /\ Deletes(r, X, s)
      BY <1>1, <1>5, DeleteFacts
    <2>2. /\ req[r].kind \in Saves /\ req[r].plan \in Plans
          /\ At(r, "delete") \/ At(r, "wait")
      BY <1>1, <1>5, DeleteFacts
    <2>3. QED BY <2>1, <2>2 DEF Takes
  <1>6. QED BY <1>3, <1>4, <1>5 DEF Own

\* A request that decides covers what it keeps.
LEMMA DecidedCovers ==
  ASSUME NEW c, Saving(c), Covers(c), Passes(c)
  PROVE  Covers(Decided(c))
  <1>1. PICK e : e = Decided(c)
    OBVIOUS
  <1>2. /\ e.step = "delete" /\ e.plan = c.plan /\ e.wanted = c.wanted
        /\ e.ids = {i \in c.ids : Kept(c, i[2])}
    BY <1>1, DecidedFields
  <1>3. ASSUME NEW d \in Days, Is(c.plan, d, "SCHEDULED"), <<c.plan, d>> \in e.ids
        PROVE  row[c.plan][d].packs = c.wanted[d]
    <2>1. Kept(c, d) /\ c.seen[d] = row[c.plan][d]
      BY <1>2, <1>3 DEF Covers, Saving
    <2>2. QED BY <1>3, <2>1 DEF Kept, Passes, LockedUnchanged
  <1>4. Covers(e)
    BY <1>2, <1>3 DEF Covers
  <1>5. QED BY <1>1, <1>4

\* A request on its way goes on covering what it keeps.
LEMMA CoversOwn ==
  ASSUME TypeInv, NEW r \in Requests, Own(r), req[r].kind \in Saves => Covers(req[r])
  PROVE  req'[r] = Idle \/ Covers(req[r])'
  <1>1. TypeOK /\ Shape /\ row' = row /\ req[r] \in LocalState
    BY OwnFacts DEF TypeInv, TypeOK
  <1>2. ASSUME NEW e, e = req'[r], Covers(e) PROVE Covers(req[r])'
    BY <1>1, <1>2 DEF Covers, Is
  <1>3. ASSUME NEW k \in Saves, NEW p \in Plans, NEW w \in Slots, Starts(r, k, p, w)
        PROVE  Covers(req[r])'
    <2>1. PICK c : c = Begun(k, p, w)
      OBVIOUS
    <2>2. /\ Saving(c) /\ c.step = "capacity" /\ c.plan = p /\ c.wanted = w /\ c.seen = row[p]
      BY <1>1, <2>1, BegunFields, BegunSaving
    <2>3. Covers(c)
      BY <2>2 DEF Covers
    <2>4. req'[r] = c \/ (Passes(c) /\ req'[r] = Decided(c))
      BY <1>3, <2>1 DEF Starts
    <2>5. Passes(c) => Covers(Decided(c))
      BY <2>2, <2>3, DecidedCovers
    <2>6. QED BY <1>2, <2>3, <2>4, <2>5
  <1>4. ASSUME NEW d, ChecksDay(r, d) PROVE Covers(req[r])'
    <2>1. PICK c : c = req[r]
      OBVIOUS
    <2>2. Saving(c) /\ Covers(c)
      BY <1>4, <2>1 DEF ChecksDay, Saving
    <2>3. CASE Passes(c) /\ req'[r] = Decided(c)
      <3>1. Covers(Decided(c))
        BY <2>2, <2>3, DecidedCovers
      <3>2. QED BY <1>2, <2>3, <3>1
    <2>4. CASE req'[r] = [c EXCEPT !.left = @ \ {d}]
      <3>1. PICK e : e = req'[r]
        OBVIOUS
      <3>2. e.step = c.step /\ e.plan = c.plan /\ e.wanted = c.wanted /\ e.seen = c.seen /\ e.ids = c.ids
        BY <2>2, <2>4, <3>1 DEF Saving, LocalState
      <3>3. Covers(e)
        BY <2>2, <3>2 DEF Covers
      <3>4. QED BY <1>2, <3>1, <3>3
    <2>5. QED BY <1>4, <2>1, <2>3, <2>4 DEF ChecksDay
  <1>5. ASSUME NEW X \in SUBSET ({req[r].plan} \X Days), NEW s \in {"wait", "create"}, Takes(r, X, s)
        PROVE  Covers(req[r])'
    <2>1. PICK c : c = req[r]
      OBVIOUS
    <2>2. PICK e : e = req'[r]
      OBVIOUS
    <2>3. /\ Covers(c) /\ c.step \in {"delete", "wait"}
          /\ e.step = s /\ e.plan = c.plan /\ e.wanted = c.wanted /\ e.ids = X
      BY <1>1, <1>5, <2>1, <2>2 DEF Takes, LocalState, At
    <2>4. ASSUME NEW d \in Days, Is(c.plan, d, "SCHEDULED"), <<c.plan, d>> \notin X
          PROVE  row[c.plan][d].packs = c.wanted[d]
      <3>1. CASE c.step = "delete"
        <4>1. X = {c.plan} \X {x \in Days : Deletable(c.plan, x, c.ids)}
          BY <1>5, <2>1, <3>1 DEF Takes, Deletes, At
        <4>2. <<c.plan, d>> \in c.ids
          BY <2>4, <4>1 DEF Deletable
        <4>3. QED BY <2>3, <2>4, <3>1, <4>2 DEF Covers
      <3>2. CASE c.step = "wait"
        <4>1. X = {i \in c.ids : Scheduled(i)}
          BY <1>5, <2>1, <3>2 DEF Takes, Deletes, At
        <4>2. <<c.plan, d>> \notin c.ids
          BY <2>4, <4>1 DEF Scheduled
        <4>3. QED BY <2>3, <2>4, <3>2, <4>2 DEF Covers
      <3>3. QED BY <2>3, <3>1, <3>2
    <2>5. Covers(e)
      BY <2>3, <2>4 DEF Covers
    <2>6. QED BY <1>2, <2>2, <2>5
  <1>6. QED BY <1>3, <1>4, <1>5, SavingSteps


\* What a request has created, unless a date was taken: its plan has what it wants.
LEMMA CreatesWanted ==
  ASSUME TypeInv, NEW r \in Requests, CreateRows(r), row' # row, Covers(req[r]), NEW p, p = req[r].plan
  PROVE  /\ p \in Plans /\ plan' = plan
         /\ \A q \in Plans : q # p => row'[q] = row[q]
         /\ \A d \in Days : Is(p, d, "SCHEDULED")' => row'[p][d].packs = req[r].wanted[d]
  <1>1. /\ row \in [Plans -> [Days -> Row]] /\ plan' = plan
        /\ At(r, "create") /\ req[r].plan \in Plans
    BY DEF TypeInv, TypeOK, Shape, SaveSteps, CreateRows, At
  <1>2. PICK C : C = {x \in Dates(req[r].wanted) : <<p, x>> \notin req[r].read}
    OBVIOUS
  <1>3. PICK D : D = {x \in Days : <<p, x>> \in req[r].ids}
    OBVIOUS
  <1>4. row' = [row EXCEPT ![p] = [x \in Days |->
              IF x \in C THEN [status |-> "SCHEDULED", packs |-> req[r].wanted[x]]
              ELSE IF x \in D THEN NoRow ELSE row[p][x]]]
    BY <1>2, <1>3 DEF CreateRows
  <1>5. ASSUME NEW d \in Days, Is(p, d, "SCHEDULED")' PROVE row'[p][d].packs = req[r].wanted[d]
    <2>1. row'[p][d] = IF d \in C THEN [status |-> "SCHEDULED", packs |-> req[r].wanted[d]]
                       ELSE IF d \in D THEN NoRow ELSE row[p][d]
      BY <1>1, <1>4
    <2>2. CASE d \in C
      BY <2>1, <2>2
    <2>3. CASE d \notin C /\ d \in D
      BY <1>5, <2>1, <2>3 DEF Is, NoRow
    <2>4. CASE d \notin C /\ d \notin D
      BY <1>1, <1>3, <1>5, <2>1, <2>4 DEF Covers, Is, At
    <2>5. QED BY <2>2, <2>3, <2>4
  <1>6. QED BY <1>1, <1>4, <1>5

\* A row that counter and administrators leave scheduled is as it was.
LEMMA StaffKeeps ==
  ASSUME TypeInv, NEW r \in Requests, Staff(r), NEW p \in Plans, NEW d \in Days,
         Is(p, d, "SCHEDULED")'
  PROVE  Is(p, d, "SCHEDULED") /\ row'[p][d] = row[p][d]
  <1>1. CASE row' = row
    BY <1>1 DEF Is
  <1>2. ASSUME NEW s \in {"DELIVERED", "SKIPPED"}, NEW ids, row' = Marked(ids, s)
        PROVE  Is(p, d, "SCHEDULED") /\ row'[p][d] = row[p][d]
    <2>1. /\ <<p, d>> \notin ids => row'[p][d] = row[p][d]
          /\ Is(p, d, "SCHEDULED")' => Is(p, d, "SCHEDULED") /\ <<p, d>> \notin ids
      BY <1>2, MarkedRows
    <2>2. QED BY <2>1
  <1>3. CollectMark(r) => row' = Marked(req[r].ids, "DELIVERED")
    BY DEF CollectMark
  <1>4. CloseSkip(r) => row' = Marked(req[r].ids, "SKIPPED")
    BY DEF CloseSkip
  <1>5. QED BY <1>1, <1>2, <1>3, <1>4 DEF Staff, CollectRead, CloseRead, CloseSave, CloseDies

\* Every step keeps what requests cover, where no two schedule at once.
LEMMA CoversNext ==
  ASSUME TypeInv, CreditsInv, [Next]_vars, Never({"overlap"})', NEW q \in Requests, req'[q].kind \in Saves
  PROVE  Covers(req[q])' /\ \A p \in Requests : req'[p].kind \in Saves => p = q
  <1>1. TypeOK /\ Shape
    BY DEF TypeInv
  <1>2. ASSUME surprise' = surprise
        PROVE  \A r \in Requests : req[r].kind \in Saves =>
                 Covers(req[r]) /\ \A p \in Requests : req[p].kind \in Saves => p = r
    BY <1>2 DEF CreditsInv, Never
  <1>3. ASSUME NEW r \in Requests, Own(r)
        PROVE  Covers(req[q])' /\ \A p \in Requests : req'[p].kind \in Saves => p = q
    <2>1. /\ \A p \in Requests : p # r => req'[p] = req[p]
          /\ surprise' = surprise /\ row' = row
      BY <1>3, OwnFacts
    <2>2. /\ \A p \in Requests : req[p].kind \in Saves =>
               Covers(req[p]) /\ \A o \in Requests : req[o].kind \in Saves => o = p
          /\ Never({"overlap"})
      BY <1>2, <2>1 DEF Never
    <2>3. CASE req'[r] = Idle
      <3>1. q # r
        BY <2>3, IdleFacts DEF Saves
      <3>2. Covers(req[q])'
        BY <2>1, <2>2, <3>1 DEF Covers, Is
      <3>3. \A p \in Requests : req'[p].kind \in Saves => p # r
        BY <2>3, IdleFacts DEF Saves
      <3>4. QED BY <2>1, <2>2, <3>1, <3>2, <3>3
    <2>4. CASE req'[r] # Idle
      <3>1. Covers(req[r])'
        BY <1>3, <2>2, <2>4, CoversOwn
      <3>2. req[r].kind \in Saves \/ \E k \in Saves : Begin(r, k)
        <4>1. ASSUME NEW k \in Saves, NEW p \in Plans, NEW w \in Slots, Starts(r, k, p, w)
              PROVE  Begin(r, k)
          BY <4>1 DEF Starts
        <4>2. ASSUME NEW d, ChecksDay(r, d) PROVE req[r].kind \in Saves
          BY <4>2 DEF ChecksDay, Saving
        <4>3. ASSUME NEW X, NEW s, Takes(r, X, s) PROVE req[r].kind \in Saves
          BY <4>3 DEF Takes
        <4>4. QED BY <1>3, <2>4, <4>1, <4>2, <4>3, SavingSteps
      <3>3. \A p \in Requests : p # r => req[p].kind \notin Saves
        <4>1. ASSUME NEW k \in Saves, Begin(r, k)
              PROVE  \A p \in Requests : p # r => req[p].kind \notin Saves
          BY <2>2, <4>1 DEF Begin, Never, SameSort
        <4>2. QED BY <2>2, <3>2, <4>1
      <3>4. QED BY <2>1, <3>1, <3>3
    <2>5. QED BY <2>3, <2>4
  <1>4. ASSUME NEW r \in Requests, CreateRows(r) PROVE FALSE
    <2>1. req'[r] = Idle /\ \A p \in Requests : p # r => req'[p].kind = req[p].kind
      BY <1>1, <1>4, CreateFacts
    <2>2. surprise' = surprise /\ req[r].step = "create"
      BY <1>4 DEF CreateRows, At
    <2>3. req[r].kind \in Saves
      BY <1>1, <2>2 DEF Shape, SaveSteps
    <2>4. QED BY <1>2, <2>1, <2>2, <2>3, IdleFacts DEF Saves
  <1>5. ASSUME NEW r \in Requests, Staff(r)
        PROVE  Covers(req[q])' /\ \A p \in Requests : req'[p].kind \in Saves => p = q
    <2>1. /\ \A p \in Requests : p # r => req'[p] = req[p]
          /\ req'[r].kind \notin Saves /\ surprise' = surprise
      BY <1>5, StaffFacts, IdleFacts DEF Saves
    <2>2. q # r /\ req'[q] = req[q] /\ req[q].plan \in Plans
      BY <1>1, <2>1 DEF Shape
    <2>3. PICK c : c = req[q]
      OBVIOUS
    <2>4. \A d \in Days : Is(c.plan, d, "SCHEDULED")' =>
            Is(c.plan, d, "SCHEDULED") /\ row'[c.plan][d] = row[c.plan][d]
      BY <1>5, <2>2, <2>3, StaffKeeps
    <2>5. Covers(c) /\ \A p \in Requests : req[p].kind \in Saves => p = q
      BY <1>2, <2>1, <2>2, <2>3
    <2>6. Covers(c)'
      BY <2>4, <2>5 DEF Covers
    <2>7. Covers(req[q])'
      BY <2>2, <2>3, <2>6 DEF Covers, Is
    <2>8. QED BY <2>1, <2>5, <2>7
  <1>6. CASE Tick
    <2>1. /\ \A p \in Requests :
               /\ req'[p].kind = req[p].kind /\ req'[p].step = req[p].step
               /\ req'[p].plan = req[p].plan /\ req'[p].wanted = req[p].wanted
               /\ req'[p].seen = req[p].seen /\ req'[p].ids = req[p].ids
          /\ surprise' = surprise /\ row' = row
      BY <1>6, TickFacts
    <2>2. QED BY <1>2, <2>1 DEF Covers, Is
  <1>7. CASE SaveSettings \/ (\E p \in Plans : Refund(p)) \/ UNCHANGED vars
    <2>1. UNCHANGED <<surprise, row, req>>
      BY <1>7 DEF SaveSettings, Refund, vars
    <2>2. QED BY <1>2, <2>1 DEF Covers, Is
  <1>8. QED BY <1>3, <1>4, <1>5, <1>6, <1>7 DEF Next, Own, Staff

\* Every step keeps CreditsInv.
LEMMA CreditsNext ==
  ASSUME TypeInv, CreditsInv, [Next]_vars
  PROVE  CreditsInv'
  <1> SUFFICES ASSUME Never({"overlap"})', NEW p \in Plans
               PROVE  PacksOf(p, {"SCHEDULED"})' <= Credits
    BY CoversNext DEF CreditsInv, ScheduledWithinCredits
  <1>1. TypeInv' /\ surprise' = surprise
    <2>1. surprise' = surprise
      BY OwnFacts, StaffFacts, TickFacts DEF Next, Own, Staff, CreateRows, SaveSettings, Refund, vars
    <2>2. QED BY <2>1, TypeNext
  <1>2. /\ PacksOf(p, {"SCHEDULED"}) <= Credits
        /\ \A r \in Requests : req[r].kind \in Saves => Covers(req[r])
    BY <1>1 DEF CreditsInv, ScheduledWithinCredits, Never
  <1>3. PacksOf(p, {"SCHEDULED"}) \in Nat /\ Credits \in Nat
    BY PacksTyped, NumberAssumption
  <1>4. ASSUME NEW r \in Requests, CreateRows(r), row' # row, p = req[r].plan
        PROVE  PacksOf(p, {"SCHEDULED"})' <= Credits
    <2>1. Covers(req[r])
      BY <1>2, <1>4 DEF CreateRows, TypeInv, Shape, At, SaveSteps
    <2>2. PICK w : w = req[r].wanted
      OBVIOUS
    <2>3. w \in [Days -> 0..Credits] /\ Cardinality(Packs(w, Days)) <= Credits
      BY <2>1, <2>2 DEF Covers, Slots
    <2>4. \A d \in Days : Is(p, d, "SCHEDULED")' => row'[p][d].packs = w[d]
      BY <1>4, <2>1, <2>2, CreatesWanted
    <2>5. PacksOf(p, {"SCHEDULED"})' \in Nat /\ PacksOf(p, {"SCHEDULED"})' <= Cardinality(Packs(w, Days))
      BY <1>1, <2>3, <2>4, PacksOfWanted
    <2>6. Cardinality(Packs(w, Days)) \in 1..Credits
      BY <2>1, <2>2 DEF Covers, Slots
    <2>7. QED BY <1>3, <2>3, <2>5, <2>6
  <1>5. ASSUME row'[p] = row[p] PROVE PacksOf(p, {"SCHEDULED"})' <= Credits
    BY <1>2, <1>5 DEF PacksOf
  <1>6. ASSUME NEW r \in Requests, Staff(r) PROVE PacksOf(p, {"SCHEDULED"})' <= Credits
    <2>1. \A d \in Days : Is(p, d, "SCHEDULED")' =>
            Is(p, d, "SCHEDULED") /\ row'[p][d].packs = row[p][d].packs
      BY <1>6, StaffRows DEF Is
    <2>2. PacksOf(p, {"SCHEDULED"})' \in Nat /\ PacksOf(p, {"SCHEDULED"})' <= PacksOf(p, {"SCHEDULED"})
      BY <1>1, <2>1, PacksOfLess
    <2>3. QED BY <1>2, <1>3, <2>2
  <1>7. ASSUME NEW r \in Requests, CreateRows(r) PROVE PacksOf(p, {"SCHEDULED"})' <= Credits
    <2>1. Covers(req[r])
      BY <1>2, <1>7 DEF CreateRows, TypeInv, Shape, At, SaveSteps
    <2>2. QED BY <1>4, <1>5, <1>7, <2>1, CreatesWanted
  <1>8. QED BY <1>5, <1>6, <1>7, RowWriters DEF Staff


\* A request on its way makes sure of the room on one day after the other.
LEMMA RoomOwn ==
  ASSUME TypeInv, NEW r \in Requests, Own(r), Never({"admin"}), req[r].kind \in Saves => Room(req[r])
  PROVE  req'[r] = Idle \/ Room(req[r])'
  <1>1. /\ TypeOK /\ Shape /\ req[r] \in LocalState
        /\ \A d \in Days, P \in SUBSET Plans : PacksOn(d, P)' = PacksOn(d, P)
        /\ Capacity \in Nat
    <2>1. row' = row /\ plan' = plan
      BY OwnFacts
    <2>2. QED BY <2>1, NumberAssumption DEF TypeInv, TypeOK, PacksOn, Cooked, Is
  <1>2. ASSUME NEW e, e = req'[r], Room(e), e.wanted \in [Days -> 0..Credits] PROVE Room(req[r])'
    BY <1>1, <1>2 DEF Room, Dates
  <1>3. ASSUME NEW k \in Saves, NEW p \in Plans, NEW w \in Slots, Starts(r, k, p, w)
        PROVE  Room(req[r])'
    <2>1. PICK c : c = Begun(k, p, w)
      OBVIOUS
    <2>2. req'[r] = c
      BY <1>3, <2>1 DEF Starts, Never
    <2>3. c.step = "capacity" /\ c.wanted = w /\ c.left = Dates(w) /\ w \in [Days -> 0..Credits]
      BY <1>1, <2>1, BegunSaving, IdleTyped DEF Begun, Saving, LocalState, Slots
    <2>4. Room(c)
      BY <2>3 DEF Room
    <2>5. QED BY <1>2, <2>2, <2>3, <2>4
  <1>4. ASSUME NEW x, ChecksDay(r, x) PROVE Room(req[r])'
    <2>1. PICK c : c = req[r]
      OBVIOUS
    <2>2. Saving(c) /\ Room(c) /\ c.wanted \in [Days -> 0..Credits]
      BY <1>4, <2>1 DEF ChecksDay, Saving, LocalState
    <2>3. ASSUME NEW d \in Dates(c.wanted), d = x \/ d \notin c.left
          PROVE  PacksOn(d, Plans \ {c.plan}) + c.wanted[d] <= Capacity
      <3>1. CASE d = x
        <4>1. ~(PacksOn(d, Plans \ {c.plan}) + c.wanted[d] > Capacity)
          BY <1>4, <2>1, <3>1 DEF ChecksDay, Full
        <4>2. PacksOn(d, Plans \ {c.plan}) \in Nat /\ c.wanted[d] \in Nat
          BY <2>2, PacksTyped DEF Dates
        <4>3. QED BY <1>1, <4>1, <4>2
      <3>2. CASE d \notin c.left
        BY <2>2, <3>2 DEF Room
      <3>3. QED BY <2>3, <3>1, <3>2
    <2>4. CASE c.left = {x} /\ req'[r] = Decided(c)
      <3>1. PICK e : e = req'[r]
        OBVIOUS
      <3>2. e.plan = c.plan /\ e.wanted = c.wanted
        BY <2>2, <2>4, <3>1, DecidedFields
      <3>3. Room(e)
        BY <2>3, <2>4, <3>2 DEF Room
      <3>4. QED BY <1>2, <2>2, <3>1, <3>2, <3>3
    <2>5. CASE req'[r] = [c EXCEPT !.left = @ \ {x}]
      <3>1. PICK e : e = req'[r]
        OBVIOUS
      <3>2. e.step = c.step /\ e.plan = c.plan /\ e.wanted = c.wanted /\ e.left = c.left \ {x}
        BY <2>2, <2>5, <3>1 DEF Saving, LocalState
      <3>3. Room(e)
        BY <2>2, <2>3, <3>2 DEF Room, Saving
      <3>4. QED BY <1>2, <2>2, <3>1, <3>2, <3>3
    <2>6. QED BY <1>4, <2>1, <2>4, <2>5 DEF ChecksDay
  <1>5. ASSUME NEW X \in SUBSET ({req[r].plan} \X Days), NEW s \in {"wait", "create"}, Takes(r, X, s)
        PROVE  Room(req[r])'
    <2>1. PICK c : c = req[r]
      OBVIOUS
    <2>2. PICK e : e = req'[r]
      OBVIOUS
    <2>3. /\ Room(c) /\ c.step # "capacity" /\ c.wanted \in [Days -> 0..Credits]
          /\ e.plan = c.plan /\ e.wanted = c.wanted
      BY <1>1, <1>5, <2>1, <2>2 DEF Takes, LocalState, At
    <2>4. Room(e)
      BY <2>3 DEF Room
    <2>5. QED BY <1>2, <2>2, <2>3, <2>4
  <1>6. QED BY <1>3, <1>4, <1>5, SavingSteps

\* Where plans keep their packs or lose some, a request keeps the room it has made sure of.
LEMMA RoomLess ==
  ASSUME TypeInv, TypeInv', NEW q \in Requests, Room(req[q]), req[q].wanted \in [Days -> 0..Credits],
         req'[q].wanted = req[q].wanted, req'[q].step = req[q].step,
         req'[q].plan = req[q].plan, req'[q].left = req[q].left,
         \A d \in Days, P \in SUBSET Plans : PacksOn(d, P)' \in Nat /\ PacksOn(d, P)' <= PacksOn(d, P)
  PROVE  Room(req[q])'
  <1>1. PICK c : c = req[q]
    OBVIOUS
  <1>2. ASSUME NEW d \in Dates(c.wanted), ~(c.step = "capacity" /\ d \in c.left)
        PROVE  PacksOn(d, Plans \ {c.plan})' + c.wanted[d] <= Capacity
    <2>1. PacksOn(d, Plans \ {c.plan}) + c.wanted[d] <= Capacity /\ d \in Days /\ c.wanted[d] \in Nat
      BY <1>1, <1>2 DEF Room, Dates
    <2>2. PICK P \in SUBSET Plans : P = Plans \ {c.plan}
      OBVIOUS
    <2>3. /\ PacksOn(d, P) \in Nat /\ PacksOn(d, P)' \in Nat /\ PacksOn(d, P)' <= PacksOn(d, P)
          /\ Capacity \in Nat
      BY <2>1, PacksTyped, NumberAssumption
    <2>4. QED BY <2>1, <2>2, <2>3
  <1>3. QED BY <1>1, <1>2 DEF Room, Dates


\* Only a request that creates its rows adds to what a day has to cook.
LEMMA NextLess ==
  ASSUME TypeInv, TypeInv', [Next]_vars, \A r \in Requests : ~CreateRows(r)
  PROVE  \A d \in Days, P \in SUBSET Plans : PacksOn(d, P)' \in Nat /\ PacksOn(d, P)' <= PacksOn(d, P)
  <1> SUFFICES ASSUME NEW p \in Plans, NEW d \in Days, plan'[p] = "ACTIVE", Is(p, d, "SCHEDULED")'
               PROVE  plan[p] = "ACTIVE" /\ Is(p, d, "SCHEDULED") /\ row'[p][d] = row[p][d]
    BY PacksOnLess
  <1>1. plan[p] = "ACTIVE"
    <2>1. CASE plan' = plan
      BY <2>1
    <2>2. ASSUME NEW q \in Plans, Refund(q) PROVE plan[p] = "ACTIVE"
      BY <2>2 DEF Refund, TypeInv, TypeOK
    <2>3. plan' = plan \/ \E q \in Plans : Refund(q)
      BY OwnFacts, StaffFacts, TickFacts DEF Next, Own, Staff, SaveSettings, vars
    <2>4. QED BY <2>1, <2>2, <2>3
  <1>2. CASE row' = row
    BY <1>1, <1>2 DEF Is
  <1>3. CASE row' # row
    <2>1. PICK r \in Requests : Staff(r)
      BY <1>3, RowWriters DEF Staff
    <2>2. QED BY <1>1, <2>1, StaffKeeps
  <1>4. QED BY <1>2, <1>3

\* Every step keeps CapacityInv.
LEMMA CapacityNext ==
  ASSUME TypeInv, CreditsInv, CapacityInv, [Next]_vars
  PROVE  CapacityInv'
  <1> SUFFICES ASSUME Never({"overlap", "admin"})'
               PROVE  /\ \A q \in Requests : req'[q].kind \in Saves => Room(req[q])'
                      /\ \A d \in Days : PacksOn(d, Plans)' <= Capacity
    BY DEF CapacityInv, WithinCapacity
  <1>1. TypeInv' /\ TypeOK /\ Shape /\ surprise' = surprise
    <2>1. surprise' = surprise
      BY OwnFacts, StaffFacts, TickFacts DEF Next, Own, Staff, CreateRows, SaveSettings, Refund, vars
    <2>2. QED BY <2>1, TypeNext DEF TypeInv
  <1>2. /\ Never({"overlap"}) /\ Never({"admin"})
        /\ \A q \in Requests : req[q].kind \in Saves => Room(req[q]) /\ Covers(req[q])
        /\ \A d \in Days : PacksOn(d, Plans) <= Capacity
    BY <1>1 DEF CapacityInv, CreditsInv, WithinCapacity, Never
  <1>3. ASSUME NEW r \in Requests, CreateRows(r)
        PROVE  /\ \A q \in Requests : req'[q].kind \notin Saves
               /\ \A d \in Days : PacksOn(d, Plans)' <= Capacity
    <2>1. req[r].kind \in Saves /\ req[r].step = "create"
      BY <1>1, <1>3 DEF CreateRows, At, Shape, SaveSteps
    <2>2. \A q \in Requests : req'[q].kind \notin Saves
      <3>1. req'[r] = Idle /\ \A q \in Requests : q # r => req'[q].kind = req[q].kind
        BY <1>3, CreateFacts
      <3>2. QED BY <1>2, <2>1, <3>1, IdleFacts DEF CreditsInv, Saves
    <2>3. CASE row' = row
      <3>1. plan' = plan
        BY <1>3 DEF CreateRows
      <3>2. QED BY <1>2, <2>2, <2>3, <3>1 DEF PacksOn, Cooked, Is
    <2>4. ASSUME row' # row, NEW d \in Days PROVE PacksOn(d, Plans)' <= Capacity
      <3>1. PICK p : p = req[r].plan
        OBVIOUS
      <3>2. PICK w : w = req[r].wanted
        OBVIOUS
      <3>3. Covers(req[r]) /\ Room(req[r]) /\ w \in [Days -> 0..Credits]
        BY <1>2, <2>1, <3>2 DEF Covers, Slots
      <3>4. /\ p \in Plans /\ plan' = plan
            /\ \A q \in Plans : q # p => row'[q] = row[q]
            /\ \A x \in Days : Is(p, x, "SCHEDULED")' => row'[p][x].packs = w[x]
        BY <1>3, <2>4, <3>1, <3>2, <3>3, CreatesWanted
      <3>5. w[d] \in Nat
        BY <3>3, NumberAssumption
      <3>6. PacksOn(d, Plans)' \in Nat /\ PacksOn(d, Plans)' <= PacksOn(d, Plans \ {p}) + w[d]
        BY <1>1, <3>4, <3>5, PacksOnMore
      <3>7. /\ PacksOn(d, Plans \ {p}) \in Nat /\ PacksOn(d, Plans) \in Nat
            /\ PacksOn(d, Plans \ {p}) <= PacksOn(d, Plans) /\ Capacity \in Nat
        BY PacksTyped, PacksOnPart, NumberAssumption
      <3>8. CASE w[d] = 0
        BY <1>2, <3>6, <3>7, <3>8
      <3>9. CASE w[d] > 0
        <4>1. PacksOn(d, Plans \ {p}) + w[d] <= Capacity
          BY <2>1, <3>1, <3>2, <3>3, <3>9 DEF Room, Dates
        <4>2. QED BY <3>5, <3>6, <3>7, <4>1
      <3>10. QED BY <3>5, <3>8, <3>9
    <2>5. QED BY <2>2, <2>3, <2>4
  <1>4. ASSUME \A r \in Requests : ~CreateRows(r)
        PROVE  /\ \A q \in Requests : req'[q].kind \in Saves => Room(req[q])'
               /\ \A d \in Days : PacksOn(d, Plans)' <= Capacity
    <2>1. \A d \in Days, P \in SUBSET Plans : PacksOn(d, P)' \in Nat /\ PacksOn(d, P)' <= PacksOn(d, P)
      BY <1>1, <1>4, NextLess
    <2>2. \A d \in Days : PacksOn(d, Plans)' <= Capacity
      <3>1. \A d \in Days : PacksOn(d, Plans) \in Nat /\ Capacity \in Nat
        BY PacksTyped, NumberAssumption
      <3>2. QED BY <1>2, <2>1, <3>1
    <2>3. ASSUME NEW q \in Requests, req'[q].kind \in Saves,
                 req'[q].kind = req[q].kind, req'[q].wanted = req[q].wanted,
                 req'[q].step = req[q].step, req'[q].plan = req[q].plan, req'[q].left = req[q].left
          PROVE  Room(req[q])'
      <3>1. Room(req[q]) /\ req[q].wanted \in [Days -> 0..Credits]
        BY <1>1, <1>2, <2>3 DEF TypeOK, LocalState
      <3>2. QED BY <1>1, <2>1, <2>3, <3>1, RoomLess
    <2>4. ASSUME NEW q \in Requests, req'[q].kind \in Saves PROVE Room(req[q])'
      <3>1. ASSUME NEW r \in Requests, Own(r) PROVE Room(req[q])'
        <4>1. \A p \in Requests : p # r => req'[p] = req[p]
          BY <3>1, OwnFacts
        <4>2. CASE q # r
          BY <2>3, <2>4, <4>1, <4>2
        <4>3. CASE q = r
          <5>1. req'[r] # Idle
            BY <2>4, <4>3, IdleFacts DEF Saves
          <5>2. QED BY <1>2, <3>1, <4>3, <5>1, RoomOwn
        <4>4. QED BY <4>2, <4>3
      <3>2. ASSUME NEW r \in Requests, Staff(r) PROVE Room(req[q])'
        <4>1. (\A p \in Requests : p # r => req'[p] = req[p]) /\ req'[r].kind \notin Saves
          BY <3>2, StaffFacts, IdleFacts DEF Saves
        <4>2. QED BY <2>3, <2>4, <4>1
      <3>3. CASE Tick
        BY <2>3, <2>4, <3>3, TickFacts
      <3>4. CASE SaveSettings \/ (\E p \in Plans : Refund(p)) \/ UNCHANGED vars
        <4>1. req' = req
          BY <3>4 DEF SaveSettings, Refund, vars
        <4>2. QED BY <2>3, <2>4, <4>1
      <3>5. QED BY <1>4, <3>1, <3>2, <3>3, <3>4 DEF Next, Own, Staff
    <2>5. QED BY <2>2, <2>4
  <1>5. QED BY <1>3, <1>4

\* Nothing is scheduled at first.
LEMMA LimitsInit == Init => CreditsInv /\ CapacityInv
  <1> SUFFICES ASSUME Init PROVE CreditsInv /\ CapacityInv
    OBVIOUS
  <1>1. \A r \in Requests : req[r].kind \notin Saves
    BY IdleFacts DEF Init, Saves
  <1>2. \A p \in Plans, d \in Days : ~Is(p, d, "SCHEDULED")
    BY DEF Init, NoRow, Is
  <1>3. ASSUME NEW n PROVE Cardinality(Packs(n, {})) = 0
    <2>1. Packs(n, {}) = {}
      BY DEF Packs
    <2>2. QED BY <2>1, FS_EmptySet
  <1>4. ASSUME NEW p \in Plans PROVE PacksOf(p, {"SCHEDULED"}) <= Credits
    <2>1. {d \in Days : row[p][d].status \in {"SCHEDULED"}} = {}
      BY <1>2 DEF Is
    <2>2. QED BY <1>3, <2>1, NumberAssumption DEF PacksOf
  <1>5. ASSUME NEW d \in Days PROVE PacksOn(d, Plans) <= Capacity
    <2>1. Cooked(d, Plans) = {}
      BY <1>2 DEF Cooked
    <2>2. QED BY <1>3, <2>1, NumberAssumption DEF PacksOn
  <1>6. QED BY <1>1, <1>4, <1>5 DEF CreditsInv, CapacityInv, ScheduledWithinCredits, WithinCapacity

\* What is true of every state that can be reached: what a request relies on to keep the limits
\* of its plan and of its days when it creates its rows.
THEOREM Limits == Spec => [](TypeInv /\ CreditsInv /\ CapacityInv)
  BY LimitsInit, CreditsNext, CapacityNext, HeldRows, PTL DEF Spec

\* What is scheduled keeps the credits of its plan, unless two requests schedule at once, and
\* the capacity of its day, unless staff override that too: the rows a request keeps have the
\* packs it wants, and what it has found free on a day is not taken while it is on its way.
THEOREM LimitsKept == Spec => []WithinLimits
  <1>1. CreditsInv /\ CapacityInv => WithinLimits
    BY DEF CreditsInv, CapacityInv, WithinLimits, ScheduledWithinCredits, WithinCapacity
  <1>2. QED BY <1>1, Limits, PTL

---------------------------------------------------------------------------
(* Server and calendar *)

\* What a behaviour is about is of its type, and the rest stays what it was.
InstanceInv ==
  /\ TypeOK
  /\ part = "server" => TypeInv
  /\ part = "calendar" => World /\ Screen

\* Neither the server nor the calendar, whichever a behaviour is about, leaves its types: no count
\* of packs, credits or meals leaves its range.
THEOREM InstanceTypes == MCSpec => []Types
  <1>1. MCInit => InstanceInv
    <2>1. MCInit => TypeInv /\ World /\ Screen
      BY CalendarAssumption, TypeInit, InitRight DEF MCInit
    <2>2. QED BY <2>1 DEF InstanceInv, TypeInv
  <1>2. InstanceInv /\ [MCNext]_<<part, vars, calendar>> => InstanceInv'
    <2>1. SUFFICES ASSUME InstanceInv, [MCNext]_<<part, vars, calendar>>
                   PROVE  InstanceInv'
      OBVIOUS
    <2>2. CASE part = "server" /\ Next /\ UNCHANGED part
      <3>1. TypeInv'
        BY <2>1, <2>2, TypeNext DEF InstanceInv
      <3>2. QED BY <2>2, <3>1 DEF InstanceInv, TypeInv
    <2>3. CASE part = "calendar" /\ CalendarNext /\ UNCHANGED server /\ UNCHANGED part
      <3>1. World' /\ Screen'
        BY <2>1, <2>3, CalendarAssumption, NextKeeps DEF InstanceInv
      <3>2. TypeOK'
        BY <2>1, <2>3, <3>1 DEF InstanceInv, TypeOK, World, server, NoEnd
      <3>3. QED BY <2>3, <3>1, <3>2 DEF InstanceInv
    <2>4. CASE UNCHANGED <<part, vars, calendar>>
      <3>1. UNCHANGED vars /\ UNCHANGED calendarVars /\ UNCHANGED part
        BY <2>4 DEF vars, calendar, calendarVars
      <3>2. part = "server" => TypeInv'
        BY <2>1, <3>1, TypeNext DEF InstanceInv
      <3>3. part = "calendar" => World' /\ Screen'
        BY <2>1, <3>1, CalendarAssumption, NextKeeps DEF InstanceInv
      <3>4. TypeOK'
        BY <2>1, <3>1 DEF InstanceInv, TypeOK, vars
      <3>5. QED BY <3>1, <3>2, <3>3, <3>4 DEF InstanceInv
    <2>5. QED BY <2>1, <2>2, <2>3, <2>4 DEF MCNext
  <1>3. InstanceInv => Types
    BY TypesFollow DEF InstanceInv, Types
  <1>4. QED BY <1>1, <1>2, <1>3, PTL DEF MCSpec

============================================================================
