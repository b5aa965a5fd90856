---------------------------- MODULE LedgerProofs ----------------------------
(***************************************************************************)
(* Proofs about Ledger, for any number of requests, top-ups, approvals and  *)
(* references, ledgers of any length, and any number of failures.           *)
(*                                                                          *)
(* First what every step keeps of the types; then LedgerInv.  A step either *)
(* leaves the book (balance and entries) alone or is a Commit, and the lock *)
(* says what other transactions can be doing at a Commit.  Last FinishInv,  *)
(* which ties the statuses of top-ups and approvals to the book.            *)
(***************************************************************************)
EXTENDS Ledger, TLAPS

Refs == TopUps \cup References \cup Approvals \cup {None}

---------------------------------------------------------------------------
(* Types *)

\* Going on with a step keeps the local states typed, and the operation of a
\* request that does not end.
LEMMA GoTyped ==
  ASSUME NEW r \in Handlers, NEW s \in LedgerSteps, task \in [Handlers -> TaskState], StepTo(r, s)
  PROVE  /\ task' \in [Handlers -> TaskState]
         /\ \A q \in Handlers : q # r => task'[q] = task[q]
         /\ task'[r].step = s
         /\ s # "idle" => /\ task'[r].op = task[r].op /\ task'[r].of = task[r].of
                          /\ task'[r].ref = task[r].ref /\ task'[r].before = task[r].before
         /\ s = "idle" => task'[r].op = "none" /\ task'[r].ref = None /\ task'[r].of = 0
  <1>1. NoTask \in TaskState /\ NoTask.step = "idle" /\ NoTask.op = "none" /\ NoTask.ref = None /\ NoTask.of = 0
    BY DEF NoTask, Local, TaskState, LedgerSteps, Operations
  <1>2. [task[r] EXCEPT !.step = s] \in TaskState
    BY DEF TaskState
  <1>3. CASE s = "idle"
    BY <1>1, <1>3 DEF StepTo
  <1>4. CASE s # "idle"
    <2>1. task' = [task EXCEPT ![r] = [task[r] EXCEPT !.step = s]]
      BY <1>4 DEF StepTo
    <2>2. task'[r] = [task[r] EXCEPT !.step = s]
      BY <2>1
    <2>3. QED BY <1>2, <1>4, <2>1, <2>2 DEF TaskState
  <1>5. QED BY <1>3, <1>4

\* Starting an operation keeps the local states typed.
LEMMA BeginTyped ==
  ASSUME NEW r \in Handlers, NEW s \in LedgerSteps, NEW op \in Operations, NEW amount \in Int,
         NEW of \in Nat, NEW ref \in Refs, task \in [Handlers -> TaskState],
         task' = [task EXCEPT ![r] = Local(s, op, amount, of, ref)]
  PROVE  /\ task' \in [Handlers -> TaskState]
         /\ \A q \in Handlers : q # r => task'[q] = task[q]
         /\ task'[r].step = s /\ task'[r].op = op /\ task'[r].of = of /\ task'[r].ref = ref
  <1>1. Local(s, op, amount, of, ref) \in TaskState
    BY DEF Local, TaskState, Refs
  <1>2. QED BY <1>1 DEF Local

\* The steps inside a transaction, and its end by an exception.
LEMMA TxTyped ==
  ASSUME NEW r \in Handlers, BookTypes, Open(r) \/ Check(r) \/ Read(r)
  PROVE  BookTypes'
  <1>1. task \in [Handlers -> TaskState] /\ cached \in Int /\ owner \in Handlers \cup {None}
    BY DEF BookTypes
  <1>2. ASSUME Abort(r)
        PROVE  task' \in [Handlers -> TaskState] /\ owner' \in Handlers \cup {None}
    BY <1>1, <1>2, GoTyped DEF Abort, Unlock, LedgerSteps
  <1>3. task' \in [Handlers -> TaskState] /\ owner' \in Handlers \cup {None}
    <2>1. CASE Open(r)
      BY <1>1, <2>1, GoTyped DEF Open, LedgerSteps, TxSteps
    <2>2. CASE Check(r)
      BY <1>1, <1>2, <2>2, GoTyped DEF Check, LedgerSteps, TxSteps
    <2>3. CASE Read(r)
      <3>1. [task[r] EXCEPT !.step = "commit", !.before = cached] \in TaskState
        BY <1>1 DEF TaskState, LedgerSteps, TxSteps
      <3>2. CASE Refused(r)
        BY <1>2, <2>3, <3>2 DEF Read
      <3>3. CASE ~Refused(r)
        BY <1>1, <2>3, <3>1, <3>3 DEF Read
      <3>4. QED BY <3>2, <3>3
    <2>4. QED BY <2>1, <2>2, <2>3
  <1>4. QED BY <1>3 DEF BookTypes, Open, Check, Read, settingVars, bookVars, topUpVars, reviewVars

\* The new entry is an entry.
LEMMA CommitTyped ==
  ASSUME NEW r \in Handlers, BookTypes, Commit(r)
  PROVE  BookTypes'
  <1> DEFINE l == task[r]
             e == [amount |-> l.amount, before |-> l.before, after |-> l.before + l.amount,
                   of |-> l.of, ref |-> IF l.ref \in Approvals THEN None ELSE l.ref]
  <1>1. task \in [Handlers -> TaskState] /\ entries \in Seq(Entry) /\ l \in TaskState
    BY DEF BookTypes
  <1>2. e \in Entry
    BY <1>1 DEF TaskState, Entry
  <1>3. entries' = Append(entries, e) /\ cached' = l.before + l.amount
    BY DEF Commit
  <1>4. entries' \in Seq(Entry) /\ cached' \in Int
    BY <1>1, <1>2, <1>3 DEF TaskState
  <1>5. task' \in [Handlers -> TaskState]
    BY <1>1, GoTyped DEF Commit, LedgerSteps
  <1>6. owner' \in Handlers \cup {None}
    BY DEF Commit, Unlock, BookTypes
  <1>7. QED BY <1>4, <1>5, <1>6 DEF BookTypes, Commit, settingVars, topUpVars, reviewVars

\* The operations that arrive.
LEMMA ArriveTyped ==
  ASSUME NEW r \in Handlers, BookTypes, OwnKind, Arrive(r)
  PROVE  BookTypes'
  <1>1. task \in [Handlers -> TaskState] /\ entries \in Seq(Entry)
    BY DEF BookTypes
  <1>2. \A k \in DOMAIN entries : -entries[k].amount \in Int /\ k \in Nat
    <2>1. TAKE k \in DOMAIN entries
    <2>2. k \in Nat /\ entries[k] \in Entry
      BY <1>1
    <2>3. QED BY <2>2 DEF Entry
  <1> DEFINE Kept == UNCHANGED <<settingVars, bookVars, owner, frozen, notices, reviewVars,
                                 unsettled, faults>>
  <1>3. SUFFICES /\ task' \in [Handlers -> TaskState]
                 /\ topUp' \in [TopUps -> TopUpStatus]
                 /\ payment' \in [TopUps -> PaymentStatus]
                 /\ Kept
    BY DEF BookTypes, settingVars, bookVars, reviewVars
  <1>4. CASE AppendEntry(r)
    <2>1. PICK amount \in Amounts : BeginTask(r, "open", "append", amount, 0, None)
      BY <1>4 DEF AppendEntry
    <2>2. task' \in [Handlers -> TaskState]
      BY <1>1, <2>1, BeginTyped, AmountAssumption DEF BeginTask, LedgerSteps, Operations, Refs
    <2>3. QED BY <1>4, <2>2 DEF AppendEntry, BookTypes, topUpVars
  <1>5. CASE Reverse(r)
    <2>1. PICK k \in DOMAIN entries : BeginTask(r, "open", "reverse", -entries[k].amount, k, None)
      BY <1>5 DEF Reverse
    <2>2. task' \in [Handlers -> TaskState]
      BY <1>1, <1>2, <2>1, BeginTyped DEF BeginTask, LedgerSteps, Operations, Refs
    <2>3. QED BY <1>5, <2>2 DEF Reverse, BookTypes, topUpVars
  <1>6. ASSUME NEW ref \in References, Backfill(r, ref)
        PROVE  task' \in [Handlers -> TaskState] /\ UNCHANGED topUpVars /\ Kept
    <2>1. PICK amount \in Amounts : BeginTask(r, "open", "backfill", amount, 0, ref)
      BY <1>6 DEF Backfill
    <2>2. task' \in [Handlers -> TaskState]
      BY <1>1, <2>1, BeginTyped, AmountAssumption DEF BeginTask, LedgerSteps, Operations, Refs
    <2>3. QED BY <1>6, <2>2 DEF Backfill, topUpVars
  <1>7. ASSUME NEW p \in Approvals, ApproveWalletReversal(r, p)
        PROVE  task' \in [Handlers -> TaskState] /\ UNCHANGED topUpVars /\ Kept
    <2>1. target[p] \in DOMAIN entries
      BY <1>7 DEF ApproveWalletReversal, OwnKind
    <2>2. -entries[target[p]].amount \in Int /\ target[p] \in Nat
      BY <1>2, <2>1
    <2>3. task' \in [Handlers -> TaskState]
      BY <1>1, <1>7, <2>2, BeginTyped
         DEF ApproveWalletReversal, BeginTask, LedgerSteps, Operations, Refs
    <2>4. QED BY <1>7, <2>3 DEF ApproveWalletReversal, topUpVars
  <1>8. ASSUME NEW p \in Approvals, RejectWalletReversal(r, p)
        PROVE  task' \in [Handlers -> TaskState] /\ UNCHANGED topUpVars /\ Kept
    <2>1. "review" \in LedgerSteps /\ "reject" \in Operations /\ 0 \in Int /\ 0 \in Nat /\ p \in Refs
      BY DEF LedgerSteps, Operations, Refs
    <2>2. task' = [task EXCEPT ![r] = Local("review", "reject", 0, 0, p)]
      BY <1>8 DEF RejectWalletReversal, BeginTask
    <2>3. task' \in [Handlers -> TaskState]
      BY ONLY <1>1, <2>1, <2>2, BeginTyped
    <2>4. QED BY <1>8, <2>3 DEF RejectWalletReversal, topUpVars
  <1>9. ASSUME NEW t \in TopUps, StartTopUp(r, t)
        PROVE  /\ task' \in [Handlers -> TaskState] /\ UNCHANGED topUp
               /\ payment' \in [TopUps -> PaymentStatus] /\ Kept
    <2>1. "createIntent" \in LedgerSteps /\ "topUp" \in Operations /\ 1 \in Int /\ 0 \in Nat /\ t \in Refs
      BY DEF LedgerSteps, Operations, Refs
    <2>2. task' = [task EXCEPT ![r] = Local("createIntent", "topUp", 1, 0, t)]
      BY <1>9 DEF StartTopUp, BeginTask
    <2>3. task' \in [Handlers -> TaskState]
      BY ONLY <1>1, <2>1, <2>2, BeginTyped
    <2>4. QED BY <1>9, <2>3 DEF StartTopUp, BookTypes, PaymentStatus
  <1>10. ASSUME NEW t \in TopUps, CreditTopUp(r, t)
         PROVE  /\ task' \in [Handlers -> TaskState] /\ UNCHANGED payment
                /\ topUp' \in [TopUps -> TopUpStatus] /\ Kept
    <2>1. "open" \in LedgerSteps /\ "topUp" \in Operations /\ 1 \in Int /\ 0 \in Nat /\ t \in Refs
      BY DEF LedgerSteps, Operations, Refs
    <2>2. task' = [task EXCEPT ![r] = Local("open", "topUp", 1, 0, t)]
      BY <1>10 DEF CreditTopUp, ClaimTopUp
    <2>3. task' \in [Handlers -> TaskState]
      BY ONLY <1>1, <2>1, <2>2, BeginTyped
    <2>4. QED BY <1>10, <2>3 DEF CreditTopUp, ClaimTopUp, BookTypes, TopUpStatus
  <1>11. QED BY <1>4, <1>5, <1>6, <1>7, <1>8, <1>9, <1>10 DEF Arrive, BookTypes, topUpVars

\* The other steps of a request, up to its end or its failure.
LEMMA ProceedTyped ==
  ASSUME NEW r \in Handlers, BookTypes, OwnKind, Proceed(r) \/ LoseStatement(r) \/ Die(r)
  PROVE  BookTypes'
  <1>1. task \in [Handlers -> TaskState] /\ Belongs(r)
    BY DEF BookTypes, OwnKind
  <1>2. CASE Open(r) \/ Check(r) \/ Read(r)
    BY <1>2, TxTyped
  <1>3. CASE Commit(r)
    BY <1>3, CommitTyped
  <1>4. CASE Review(r)
    <2>1. task' \in [Handlers -> TaskState]
      BY <1>1, <1>4, GoTyped DEF Review, LedgerSteps
    <2>2. approval' \in [Approvals -> ApprovalStatus]
      BY <1>4 DEF Review, BookTypes, ApprovalStatus
    <2>3. QED BY <1>4, <2>1, <2>2 DEF Review, BookTypes, settingVars, bookVars, topUpVars
  <1>5. CASE CreateTopUpIntent(r)
    <2>1. task' \in [Handlers -> TaskState]
      BY <1>1, <1>5, GoTyped DEF CreateTopUpIntent, LedgerSteps
    <2>2. topUp' \in [TopUps -> TopUpStatus] /\ payment' \in [TopUps -> PaymentStatus]
      BY <1>5 DEF CreateTopUpIntent, BookTypes, TopUpStatus, PaymentStatus
    <2>3. QED BY <1>5, <2>1, <2>2 DEF CreateTopUpIntent, BookTypes, settingVars, bookVars, reviewVars
  <1>6. CASE CreditAtOnce(r)
    <2>1. task[r].ref \in TopUps
      BY <1>1, <1>6 DEF CreditAtOnce, OnTask, Belongs
    <2>2. task' \in [Handlers -> TaskState]
      <3>1. CASE ClaimTopUp(r, task[r].ref)
        <4>1. /\ "open" \in LedgerSteps /\ "topUp" \in Operations /\ 1 \in Int /\ 0 \in Nat
              /\ task[r].ref \in Refs
          BY <2>1 DEF LedgerSteps, Operations, Refs
        <4>2. task' = [task EXCEPT ![r] = Local("open", "topUp", 1, 0, task[r].ref)]
          BY <3>1 DEF ClaimTopUp
        <4>3. QED BY ONLY <1>1, <4>1, <4>2, BeginTyped
      <3>2. CASE StepTo(r, "idle")
        BY <1>1, <3>2, GoTyped DEF LedgerSteps
      <3>3. QED BY <1>6, <3>1, <3>2 DEF CreditAtOnce
    <2>3. topUp' \in [TopUps -> TopUpStatus]
      BY <1>6 DEF CreditAtOnce, ClaimTopUp, BookTypes, TopUpStatus
    <2>4. QED BY <1>6, <2>2, <2>3 DEF CreditAtOnce, BookTypes, settingVars, bookVars, reviewVars
  <1>7. CASE SettleTopUp(r) \/ RestoreTopUp(r)
    <2>1. task' \in [Handlers -> TaskState]
      BY <1>1, <1>7, GoTyped DEF SettleTopUp, RestoreTopUp, LedgerSteps
    <2>2. topUp' \in [TopUps -> TopUpStatus]
      BY <1>7 DEF SettleTopUp, RestoreTopUp, BookTypes, TopUpStatus
    <2>3. QED BY <1>7, <2>1, <2>2 DEF SettleTopUp, RestoreTopUp, BookTypes, settingVars, bookVars, reviewVars
  <1>8. CASE LoseStatement(r)
    <2>1. task' \in [Handlers -> TaskState]
      BY <1>1, <1>8, GoTyped DEF LoseStatement, LedgerSteps
    <2>2. unsettled' \subseteq TopUps
      BY <1>1, <1>8 DEF LoseStatement, BookTypes, OnTask, Belongs
    <2>3. owner' \in Handlers \cup {None} /\ faults' \in 0..MaxFaults
      BY <1>8, LedgerBounds DEF LoseStatement, Unlock, BookTypes
    <2>4. QED BY <1>8, <2>1, <2>2, <2>3 DEF LoseStatement, BookTypes, settingVars, bookVars, topUpVars, reviewVars
  <1>9. CASE Die(r)
    <2>1. task' \in [Handlers -> TaskState]
      BY <1>1, <1>9, GoTyped DEF Die, LedgerSteps
    <2>2. owner' \in Handlers \cup {None} /\ faults' \in 0..MaxFaults
      BY <1>9, LedgerBounds DEF Die, Unlock, BookTypes
    <2>3. QED BY <1>9, <2>1, <2>2 DEF Die, BookTypes, settingVars, bookVars, topUpVars, reviewVars
  <1>10. QED BY <1>2, <1>3, <1>4, <1>5, <1>6, <1>7, <1>8, <1>9 DEF Proceed

\* The steps of the payer, of Xendit, of the admin who freezes or who asks for a reversal.
LEMMA OutsideTyped ==
  ASSUME BookTypes,
         \/ \E t \in TopUps : FailTopUp(t) \/ PayTopUp(t) \/ PaymentRefused(t)
         \/ \E p \in Approvals : RequestWalletReversal(p)
         \/ SetFreeze
  PROVE  BookTypes'
  <1>1. ASSUME NEW t \in TopUps, FailTopUp(t) \/ PayTopUp(t) \/ PaymentRefused(t)
        PROVE  BookTypes'
    BY <1>1 DEF FailTopUp, PayTopUp, PaymentRefused, BookTypes, TopUpStatus, PaymentStatus,
                settingVars, bookVars, reviewVars
  <1>2. ASSUME NEW p \in Approvals, RequestWalletReversal(p)
        PROVE  BookTypes'
    <2>1. PICK k \in DOMAIN entries : target' = [target EXCEPT ![p] = k]
      BY <1>2 DEF RequestWalletReversal
    <2>2. k \in Nat
      BY <2>1 DEF BookTypes
    <2>3. target' \in [Approvals -> Nat] /\ approval' \in [Approvals -> ApprovalStatus]
      BY <1>2, <2>1, <2>2 DEF RequestWalletReversal, BookTypes, ApprovalStatus
    <2>4. QED BY <1>2, <2>3 DEF RequestWalletReversal, BookTypes, settingVars, bookVars, topUpVars
  <1>3. CASE SetFreeze
    BY <1>3 DEF SetFreeze, BookTypes, settingVars, bookVars, topUpVars, reviewVars
  <1>4. QED BY <1>1, <1>2, <1>3

\* Every step of the system.
LEMMA NextTyped ==
  ASSUME BookTypes, OwnKind, [LedgerNext]_ledgerVars
  PROVE  BookTypes'
  <1>1. CASE UNCHANGED ledgerVars
    BY <1>1 DEF ledgerVars, BookTypes, settingVars, bookVars, topUpVars, reviewVars
  <1>2. CASE LedgerNext
    BY <1>2, ArriveTyped, ProceedTyped, OutsideTyped DEF LedgerNext
  <1>3. QED BY <1>1, <1>2

---------------------------------------------------------------------------
(* What a request carries fits its operation *)

\* Approvals that were asked for stay asked for, and no others come to be.
SameAsked == \A p \in Approvals : approval'[p] # "none" <=> approval[p] # "none"

\* A request that goes on still carries what fits its operation.
LEMMA GoBelongs ==
  ASSUME NEW r \in Handlers, NEW s \in LedgerSteps, BookTypes, Belongs(r), StepTo(r, s),
         account' = account, SameAsked,
         s \in {"createIntent", "claim", "succeed", "rollback"} => task[r].ref \in TopUps
  PROVE  Belongs(r)'
  <1>1. task \in [Handlers -> TaskState]
    BY DEF BookTypes
  <1>2. CASE s = "idle"
    BY <1>1, <1>2, GoTyped, NoneAssumption DEF Belongs, Reversing
  <1>3. CASE s # "idle"
    <2>1. /\ task'[r].step = s /\ task'[r].op = task[r].op /\ task'[r].of = task[r].of
          /\ task'[r].ref = task[r].ref
      BY <1>1, <1>3, GoTyped
    <2>2. QED BY <2>1 DEF Belongs, Reversing, SameAsked
  <1>4. QED BY <1>2, <1>3

\* A step of one request, which leaves the approvals to what they are about.
LEMMA OwnKindKept ==
  ASSUME NEW r \in Handlers, OwnKind, account' = account, target' = target, SameAsked,
         \A q \in Handlers : q # r => task'[q] = task[q], Belongs(r)',
         DOMAIN entries \subseteq DOMAIN entries'
  PROVE  OwnKind'
  <1>1. \A p \in Approvals : approval'[p] # "none" => account' = "wallet" /\ target'[p] \in DOMAIN entries'
    BY DEF OwnKind, SameAsked
  <1>2. ASSUME NEW q \in Handlers, q # r
        PROVE  Belongs(q)'
    BY <1>2 DEF OwnKind, Belongs, Reversing, SameAsked
  <1>3. QED BY <1>1, <1>2 DEF OwnKind

\* The steps of a request after its first.
LEMMA ProceedOwnKind ==
  ASSUME NEW r \in Handlers, BookTypes, OwnKind, Proceed(r) \/ LoseStatement(r) \/ Die(r)
  PROVE  OwnKind'
  <1>1. task \in [Handlers -> TaskState] /\ Belongs(r) /\ entries \in Seq(Entry)
    BY DEF BookTypes, OwnKind
  <1>2. account' = account /\ target' = target
    BY DEF Proceed, Open, Check, Read, Commit, Review, CreateTopUpIntent, CreditAtOnce, SettleTopUp,
           RestoreTopUp, LoseStatement, Die, settingVars, reviewVars
  <1>3. SameAsked
    <2>1. CASE Review(r)
      <3>1. approval' = [approval EXCEPT ![task[r].ref] =
                           IF task[r].op = "approve" THEN "APPROVED" ELSE "REJECTED"]
        BY <2>1 DEF Review
      <3>2. ASSUME NEW p \in Approvals, p = task[r].ref
            PROVE  approval[p] # "none" /\ approval'[p] # "none"
        BY <1>1, <3>1, <3>2 DEF Belongs, BookTypes
      <3>3. ASSUME NEW p \in Approvals, p # task[r].ref
            PROVE  approval'[p] = approval[p]
        BY <3>1, <3>3 DEF BookTypes
      <3>4. QED BY <3>2, <3>3 DEF SameAsked
    <2>2. CASE ~Review(r)
      BY <2>2 DEF Proceed, Open, Check, Read, Commit, CreateTopUpIntent, CreditAtOnce, SettleTopUp,
                  RestoreTopUp, LoseStatement, Die, reviewVars, SameAsked
    <2>3. QED BY <2>1, <2>2
  <1>4. DOMAIN entries \subseteq DOMAIN entries'
    <2>1. entries' = entries \/ \E e : entries' = Append(entries, e)
      BY DEF Proceed, Open, Check, Read, Commit, Review, CreateTopUpIntent, CreditAtOnce, SettleTopUp,
             RestoreTopUp, LoseStatement, Die, bookVars
    <2>2. QED BY <1>1, <2>1
  <1>5. \A q \in Handlers : q # r => task'[q] = task[q]
    BY <1>1 DEF Proceed, Open, Check, Read, Commit, Review, CreateTopUpIntent, CreditAtOnce, SettleTopUp,
           RestoreTopUp, LoseStatement, Die, Abort, StepTo, ClaimTopUp
  <1>6. Belongs(r)'
    <2>1. ASSUME NEW s \in LedgerSteps, StepTo(r, s),
                 s \in {"createIntent", "claim", "succeed", "rollback"} => task[r].ref \in TopUps
          PROVE  Belongs(r)'
      BY <1>1, <1>2, <1>3, <2>1, GoBelongs
    <2>2. CASE Abort(r)
      BY <1>1, <2>1, <2>2 DEF Abort, Belongs, LedgerSteps
    <2>3. CASE Open(r) \/ (Check(r) /\ ~Abort(r))
      BY <2>1, <2>3 DEF Open, Check, LedgerSteps, TxSteps
    <2>4. CASE Read(r) /\ ~Abort(r)
      <3>1. task' = [task EXCEPT ![r].step = "commit", ![r].before = cached]
        BY <2>4 DEF Read
      <3>2. /\ task'[r].step = "commit" /\ task'[r].op = task[r].op /\ task'[r].of = task[r].of
            /\ task'[r].ref = task[r].ref
        BY <1>1, <3>1 DEF TaskState
      <3>3. QED BY <1>1, <1>2, <1>3, <3>2 DEF Belongs, Reversing, SameAsked
    <2>5. CASE Commit(r)
      BY <1>1, <2>1, <2>5 DEF Commit, Belongs, LedgerSteps
    <2>6. CASE Review(r) \/ SettleTopUp(r) \/ RestoreTopUp(r) \/ Die(r)
      BY <2>1, <2>6 DEF Review, SettleTopUp, RestoreTopUp, Die, LedgerSteps
    <2>7. CASE CreateTopUpIntent(r)
      BY <1>1, <2>1, <2>7 DEF CreateTopUpIntent, Belongs, OnTask, LedgerSteps
    <2>8. CASE CreditAtOnce(r)
      <3>1. task[r].ref \in TopUps
        BY <1>1, <2>8 DEF CreditAtOnce, OnTask, Belongs
      <3>2. CASE ClaimTopUp(r, task[r].ref)
        <4>1. task'[r] = Local("open", "topUp", 1, 0, task[r].ref)
          BY <1>1, <3>2 DEF ClaimTopUp
        <4>2. task'[r].op = "topUp" /\ task'[r].ref = task[r].ref /\ task'[r].of = 0
          BY <4>1 DEF Local
        <4>3. QED BY <3>1, <4>2, RefAssumption DEF Belongs, Reversing
      <3>3. CASE StepTo(r, "idle")
        BY <2>1, <3>3 DEF LedgerSteps
      <3>4. QED BY <2>8, <3>2, <3>3 DEF CreditAtOnce
    <2>9. CASE LoseStatement(r)
      BY <1>1, <2>1, <2>9 DEF LoseStatement, Belongs, LedgerSteps
    <2>10. QED BY <2>2, <2>3, <2>4, <2>5, <2>6, <2>7, <2>8, <2>9 DEF Proceed
  <1>7. QED BY <1>2, <1>3, <1>4, <1>5, <1>6, OwnKindKept

\* The first step of an operation gives the request what fits it.
LEMMA ArriveOwnKind ==
  ASSUME NEW r \in Handlers, BookTypes, OwnKind, Arrive(r)
  PROVE  OwnKind'
  <1>1. task \in [Handlers -> TaskState] /\ entries \in Seq(Entry)
    BY DEF BookTypes
  <1>2. account' = account /\ target' = target /\ approval' = approval /\ entries' = entries
    BY DEF Arrive, AppendEntry, Reverse, Backfill, ApproveWalletReversal, RejectWalletReversal,
           StartTopUp, CreditTopUp, settingVars, bookVars, reviewVars
  <1>3. \A q \in Handlers : q # r => task'[q] = task[q]
    BY <1>1 DEF Arrive, AppendEntry, Reverse, Backfill, ApproveWalletReversal,
                RejectWalletReversal, StartTopUp, CreditTopUp, ClaimTopUp, BeginTask
  <1>4. ASSUME NEW s, NEW op, NEW amount, NEW of, NEW ref,
               task' = [task EXCEPT ![r] = Local(s, op, amount, of, ref)]
        PROVE  task'[r].step = s /\ task'[r].op = op /\ task'[r].of = of /\ task'[r].ref = ref
    BY <1>1, <1>4 DEF Local
  <1>5. Belongs(r)'
    <2>1. CASE AppendEntry(r)
      <3>1. PICK amount \in Amounts : BeginTask(r, "open", "append", amount, 0, None)
        BY <2>1 DEF AppendEntry
      <3>2. task'[r].step = "open" /\ task'[r].op = "append" /\ task'[r].of = 0 /\ task'[r].ref = None
        BY <1>4, <3>1 DEF BeginTask
      <3>3. QED BY <3>2, NoneAssumption DEF Belongs, Reversing
    <2>2. CASE Reverse(r)
      <3>1. PICK k \in DOMAIN entries : BeginTask(r, "open", "reverse", -entries[k].amount, k, None)
        BY <2>2 DEF Reverse
      <3>2. task'[r].step = "open" /\ task'[r].op = "reverse" /\ task'[r].ref = None
        BY <1>4, <3>1 DEF BeginTask
      <3>3. QED BY <3>2, NoneAssumption DEF Belongs, Reversing
    <2>3. ASSUME NEW ref \in References, Backfill(r, ref)
          PROVE  Belongs(r)'
      <3>1. PICK amount \in Amounts : BeginTask(r, "open", "backfill", amount, 0, ref)
        BY <2>3 DEF Backfill
      <3>2. task'[r].step = "open" /\ task'[r].op = "backfill" /\ task'[r].of = 0 /\ task'[r].ref = ref
        BY <1>4, <3>1 DEF BeginTask
      <3>3. account = "points"
        BY <2>3 DEF Backfill
      <3>4. QED BY <1>2, <3>2, <3>3, RefAssumption DEF Belongs, Reversing
    <2>4. ASSUME NEW p \in Approvals, ApproveWalletReversal(r, p)
          PROVE  Belongs(r)'
      <3>1. task'[r].step = "open" /\ task'[r].op = "approve" /\ task'[r].ref = p
        <4>1. task' = [task EXCEPT ![r] =
                        Local("open", "approve", -entries[target[p]].amount, target[p], p)]
          BY <2>4 DEF ApproveWalletReversal, BeginTask
        <4>2. QED BY <1>1, <4>1 DEF Local
      <3>2. approval[p] = "PENDING" /\ account = "wallet"
        BY <2>4 DEF ApproveWalletReversal, OwnKind
      <3>3. QED BY <1>2, <3>1, <3>2, RefAssumption DEF Belongs, Reversing
    <2>5. ASSUME NEW p \in Approvals, RejectWalletReversal(r, p)
          PROVE  Belongs(r)'
      <3>1. task'[r].step = "review" /\ task'[r].op = "reject" /\ task'[r].ref = p /\ task'[r].of = 0
        <4>1. task' = [task EXCEPT ![r] = Local("review", "reject", 0, 0, p)]
          BY <2>5 DEF RejectWalletReversal, BeginTask
        <4>2. QED BY <1>1, <4>1 DEF Local
      <3>2. approval[p] = "PENDING"
        BY <2>5 DEF RejectWalletReversal
      <3>3. QED BY <1>2, <3>1, <3>2, RefAssumption DEF Belongs, Reversing
    <2>6. ASSUME NEW t \in TopUps, StartTopUp(r, t)
          PROVE  Belongs(r)'
      <3>1. task'[r].step = "createIntent" /\ task'[r].op = "topUp" /\ task'[r].ref = t /\ task'[r].of = 0
        <4>1. task' = [task EXCEPT ![r] = Local("createIntent", "topUp", 1, 0, t)]
          BY <2>6 DEF StartTopUp, BeginTask
        <4>2. QED BY <1>1, <4>1 DEF Local
      <3>2. QED BY <3>1, RefAssumption DEF Belongs, Reversing
    <2>7. ASSUME NEW t \in TopUps, CreditTopUp(r, t)
          PROVE  Belongs(r)'
      <3>1. task'[r].step = "open" /\ task'[r].op = "topUp" /\ task'[r].ref = t /\ task'[r].of = 0
        <4>1. task' = [task EXCEPT ![r] = Local("open", "topUp", 1, 0, t)]
          BY <2>7 DEF CreditTopUp, ClaimTopUp
        <4>2. QED BY <1>1, <4>1 DEF Local
      <3>2. QED BY <3>1, RefAssumption DEF Belongs, Reversing
    <2>8. QED BY <2>7, <2>6, <2>5, <2>4, <2>3, <2>2, <2>1 DEF Arrive
  <1>6. QED BY <1>2, <1>3, <1>5, OwnKindKept DEF SameAsked

\* A request for a reversal is about an entry of the wallet.
LEMMA OutsideOwnKind ==
  ASSUME BookTypes, OwnKind,
         \/ \E t \in TopUps : FailTopUp(t) \/ PayTopUp(t) \/ PaymentRefused(t)
         \/ \E p \in Approvals : RequestWalletReversal(p)
         \/ SetFreeze
  PROVE  OwnKind'
  <1>1. CASE (\E t \in TopUps : FailTopUp(t) \/ PayTopUp(t) \/ PaymentRefused(t)) \/ SetFreeze
    <2>1. UNCHANGED <<account, approval, target, entries, task>>
      BY <1>1 DEF FailTopUp, PayTopUp, PaymentRefused, SetFreeze, settingVars, bookVars, reviewVars
    <2>2. QED BY <2>1 DEF OwnKind, Belongs, Reversing
  <1>2. ASSUME NEW p \in Approvals, RequestWalletReversal(p)
        PROVE  OwnKind'
    <2>1. PICK k \in DOMAIN entries : target' = [target EXCEPT ![p] = k]
      BY <1>2 DEF RequestWalletReversal
    <2>2. /\ approval' = [approval EXCEPT ![p] = "PENDING"]
          /\ account = "wallet"
          /\ UNCHANGED <<account, entries, task>>
      BY <1>2 DEF RequestWalletReversal, settingVars, bookVars
    <2>3. /\ approval'[p] = "PENDING" /\ target'[p] = k
          /\ \A o \in Approvals : o # p => approval'[o] = approval[o] /\ target'[o] = target[o]
      BY <2>1, <2>2 DEF BookTypes
    <2>4. \A o \in Approvals : approval'[o] # "none" => account' = "wallet" /\ target'[o] \in DOMAIN entries'
      BY <2>1, <2>2, <2>3 DEF OwnKind
    <2>5. ASSUME NEW q \in Handlers
          PROVE  Belongs(q)'
      BY <2>2, <2>3 DEF OwnKind, Belongs, Reversing
    <2>6. QED BY <2>4, <2>5 DEF OwnKind
  <1>3. QED BY <1>1, <1>2

\* Every step of the system.
LEMMA NextOwnKind ==
  ASSUME BookTypes, OwnKind, [LedgerNext]_ledgerVars
  PROVE  OwnKind'
  <1>1. CASE UNCHANGED ledgerVars
    BY <1>1 DEF ledgerVars, OwnKind, Belongs, Reversing, settingVars, bookVars, reviewVars
  <1>2. CASE LedgerNext
    BY <1>2, ArriveOwnKind, ProceedOwnKind, OutsideOwnKind DEF LedgerNext
  <1>3. QED BY <1>1, <1>2

\* Both hold at the start.
LEMMA InitTyped == LedgerInit => BookTypes /\ OwnKind
  <1> SUFFICES ASSUME LedgerInit PROVE BookTypes /\ OwnKind
    OBVIOUS
  <1>1. NoTask \in TaskState
    BY DEF NoTask, Local, TaskState, LedgerSteps, Operations
  <1>2. BookTypes
    <2>1. entries \in Seq(Entry) /\ task \in [Handlers -> TaskState]
      BY <1>1 DEF LedgerInit
    <2>2. faults \in 0..MaxFaults /\ cached \in Int /\ target \in [Approvals -> Nat]
      BY LedgerBounds DEF LedgerInit
    <2>3. /\ topUp \in [TopUps -> TopUpStatus] /\ payment \in [TopUps -> PaymentStatus]
          /\ approval \in [Approvals -> ApprovalStatus]
      BY DEF LedgerInit, TopUpStatus, PaymentStatus, ApprovalStatus
    <2>4. QED BY <2>1, <2>2, <2>3 DEF LedgerInit, BookTypes
  <1>3. ASSUME NEW r \in Handlers
        PROVE  Belongs(r)
    <2>1. task[r] = NoTask
      BY DEF LedgerInit
    <2>2. QED BY <2>1, NoneAssumption DEF Belongs, Reversing, NoTask, Local
  <1>4. QED BY <1>2, <1>3 DEF LedgerInit, OwnKind

\* Type correctness.  That the reference of a settled top-up is a top-up, and the entry of a
\* request for a reversal an entry, takes OwnKind.
THEOREM LedgerTypes == LedgerSpec => []BookTypes
  <1>1. BookTypes /\ OwnKind /\ [LedgerNext]_ledgerVars => (BookTypes /\ OwnKind)'
    BY NextTyped, NextOwnKind
  <1>2. QED BY <1>1, InitTyped, PTL DEF LedgerSpec

---------------------------------------------------------------------------
(* The lock, and what it protects *)

Locked == LockHeld /\ ReadFresh /\ CheckHeld
Booked == Chained /\ ReversedOnce /\ BackfilledOnce

\* A step of a request that is outside a transaction after it, and that takes the lock
\* from nobody else.
LEMMA OutsideTx ==
  ASSUME NEW r \in Handlers, Locked, UNCHANGED <<settingVars, bookVars>>,
         \A q \in Handlers : q # r => task'[q] = task[q],
         task'[r].step \notin TxSteps,
         \A q \in Handlers : q # r /\ owner = q => owner' = q
  PROVE  Locked'
  <1>1. UNCHANGED <<account, upsertLocks, cached, entries>>
    BY DEF settingVars, bookVars
  <1>2. LockHeld'
    BY <1>1 DEF Locked, LockHeld, LocksRow
  <1>3. ReadFresh'
    BY <1>1 DEF Locked, ReadFresh, OnTask, TxSteps
  <1>4. CheckHeld'
    BY <1>1 DEF Locked, CheckHeld, LocksRow, Reversing, Reversed, TxSteps
  <1>5. QED BY <1>2, <1>3, <1>4 DEF Locked

\* An exception.
LEMMA AbortLocked ==
  ASSUME NEW r \in Handlers, BookTypes, Locked, Abort(r), UNCHANGED <<settingVars, bookVars>>
  PROVE  Locked'
  <1>1. task \in [Handlers -> TaskState]
    BY DEF BookTypes
  <1>2. /\ \A q \in Handlers : q # r => task'[q] = task[q]
        /\ task'[r].step \notin TxSteps
    BY <1>1, GoTyped DEF Abort, LedgerSteps, TxSteps
  <1>3. \A q \in Handlers : q # r /\ owner = q => owner' = q
    BY DEF Abort, Unlock
  <1>4. QED BY <1>2, <1>3, OutsideTx

\* The lock is taken when nobody has it.
LEMMA OpenLocked ==
  ASSUME NEW r \in Handlers, BookTypes, Locked, Open(r)
  PROVE  Locked'
  <1> DEFINE s == IF Reversing(r) \/ task[r].op = "backfill" THEN "check" ELSE "read"
  <1>1. task \in [Handlers -> TaskState] /\ None \notin Handlers
    BY NoneAssumption DEF BookTypes
  <1>2. /\ \A q \in Handlers : q # r => task'[q] = task[q]
        /\ task'[r].step = s /\ task'[r].op = task[r].op /\ task'[r].of = task[r].of
        /\ task'[r].ref = task[r].ref
    BY <1>1, GoTyped DEF Open, LedgerSteps, TxSteps
  <1>3. UNCHANGED <<account, upsertLocks, cached, entries>>
    BY DEF Open, settingVars, bookVars
  <1>4. IF LocksRow(r) THEN owner = None /\ owner' = r ELSE UNCHANGED owner
    BY DEF Open
  <1>5. LockHeld'
    <2>1. ASSUME NEW q \in Handlers, (task[q].step \in TxSteps /\ LocksRow(q))'
          PROVE  owner' = q
      <3>1. CASE q = r
        BY <1>2, <1>3, <1>4, <2>1, <3>1 DEF LocksRow
      <3>2. CASE q # r
        <4>1. owner = q
          BY <1>2, <1>3, <2>1, <3>2 DEF LocksRow, Locked, LockHeld
        <4>2. QED BY <1>1, <1>4, <4>1
      <3>3. QED BY <3>1, <3>2
    <2>2. QED BY <2>1 DEF LockHeld
  <1>6. ReadFresh'
    BY <1>2, <1>3 DEF Locked, ReadFresh, OnTask
  <1>7. CheckHeld'
    <2>1. ASSUME NEW q \in Handlers, (task[q].step \in {"read", "commit"})'
          PROVE  (/\ Reversing(q) /\ LocksRow(q) /\ task[q].of # 0 => ~Reversed(task[q].of)
                  /\ task[q].op = "backfill" =>
                       \A i \in DOMAIN entries : entries[i].ref # task[q].ref)'
      <3>1. CASE q = r
        BY <1>2, <2>1, <3>1 DEF Reversing
      <3>2. CASE q # r
        BY <1>2, <1>3, <2>1, <3>2 DEF Locked, CheckHeld, Reversing, LocksRow, Reversed
      <3>3. QED BY <3>1, <3>2
    <2>2. QED BY <2>1 DEF CheckHeld
  <1>8. QED BY <1>5, <1>6, <1>7 DEF Locked

\* What a transaction goes on with it has just checked, or read, under its lock.
LEMMA CheckReadLocked ==
  ASSUME NEW r \in Handlers, BookTypes, Locked, Check(r) \/ Read(r), ~Abort(r)
  PROVE  Locked'
  <1>1. task \in [Handlers -> TaskState]
    BY DEF BookTypes
  <1>2. UNCHANGED <<account, upsertLocks, cached, entries, owner>>
    BY DEF Check, Read, settingVars, bookVars
  <1>3. CASE Check(r)
    <2>1. /\ Reversing(r) => ~Reversed(task[r].of)
          /\ task[r].op = "backfill" => \A i \in DOMAIN entries : entries[i].ref # task[r].ref
          /\ StepTo(r, "read")
      BY <1>3 DEF Check
    <2>2. /\ \A q \in Handlers : q # r => task'[q] = task[q]
          /\ task'[r].step = "read" /\ task'[r].op = task[r].op /\ task'[r].of = task[r].of
          /\ task'[r].ref = task[r].ref
      BY <1>1, <2>1, GoTyped DEF LedgerSteps, TxSteps
    <2>3. LockHeld'
      BY <1>2, <1>3, <2>2 DEF Locked, LockHeld, LocksRow, Check, OnTask, TxSteps
    <2>4. ReadFresh'
      BY <1>2, <2>2 DEF Locked, ReadFresh, OnTask
    <2>5. CheckHeld'
      BY <1>2, <2>1, <2>2 DEF Locked, CheckHeld, Reversing, LocksRow, Reversed
    <2>6. QED BY <2>3, <2>4, <2>5 DEF Locked
  <1>4. CASE Read(r)
    <2>1. task' = [task EXCEPT ![r].step = "commit", ![r].before = cached] /\ OnTask(r, "read")
      BY <1>4 DEF Read
    <2>2. /\ \A q \in Handlers : q # r => task'[q] = task[q]
          /\ task'[r].step = "commit" /\ task'[r].op = task[r].op /\ task'[r].of = task[r].of
          /\ task'[r].ref = task[r].ref /\ task'[r].before = cached
      BY <1>1, <2>1 DEF TaskState
    <2>3. LockHeld'
      BY <1>2, <2>1, <2>2 DEF Locked, LockHeld, LocksRow, OnTask, TxSteps
    <2>4. ReadFresh'
      BY <1>2, <2>2 DEF Locked, ReadFresh, OnTask
    <2>5. CheckHeld'
      <3>1. /\ \A q \in Handlers : task'[q].op = task[q].op /\ task'[q].of = task[q].of /\ task'[q].ref = task[q].ref
            /\ \A q \in Handlers : task'[q].step \in {"read", "commit"} => task[q].step \in {"read", "commit"}
        BY <2>1, <2>2 DEF OnTask
      <3>2. QED BY <1>2, <3>1 DEF Locked, CheckHeld, Reversing, LocksRow, Reversed
    <2>6. QED BY <2>3, <2>4, <2>5 DEF Locked
  <1>5. QED BY <1>3, <1>4

\* An entry is written by a transaction that has the lock, if it takes one, while no
\* other transaction that takes one is anywhere between its check and its end.
LEMMA CommitAlone ==
  ASSUME NEW r \in Handlers, NEW q \in Handlers, q # r, Locked, Commit(r),
         task[q].step \in TxSteps
  PROVE  ~LocksRow(q)
  BY NoneAssumption DEF Locked, LockHeld, Commit

\* A commit gives the lock up with what was read under it.
LEMMA CommitLocked ==
  ASSUME NEW r \in Handlers, BookTypes, OwnKind, Locked, Commit(r)
  PROVE  Locked'
  <1>1. task \in [Handlers -> TaskState]
    BY DEF BookTypes
  <1>2. UNCHANGED <<account, upsertLocks>>
    BY DEF Commit, settingVars
  <1>3. /\ \A q \in Handlers : q # r => task'[q] = task[q]
        /\ task'[r].step \notin TxSteps
    BY <1>1, GoTyped DEF Commit, LedgerSteps, TxSteps
  <1>4. \A q \in Handlers : (task[q].step \in TxSteps)' => q # r /\ ~LocksRow(q)' /\ ~LocksRow(q)
    BY <1>2, <1>3, CommitAlone DEF LocksRow
  <1>5. LockHeld'
    BY <1>4 DEF LockHeld
  <1>6. ReadFresh'
    BY <1>2, <1>4 DEF ReadFresh, LocksRow, OnTask, TxSteps
  <1>7. CheckHeld'
    <2>1. ASSUME NEW q \in Handlers, (task[q].step \in {"read", "commit"})'
          PROVE  ~LocksRow(q)' /\ task'[q].op # "backfill"
      <3>1. q # r /\ ~LocksRow(q)' /\ ~LocksRow(q)
        BY <1>4, <2>1 DEF TxSteps
      <3>2. task[q].op = "backfill" => LocksRow(q)
        BY DEF OwnKind, Belongs, LocksRow
      <3>3. QED BY <1>3, <3>1, <3>2
    <2>2. QED BY <2>1 DEF CheckHeld
  <1>8. QED BY <1>5, <1>6, <1>7 DEF Locked

\* The new entry continues the ledger, reverses what nobody has reversed, and backfills
\* what nobody has backfilled.
LEMMA CommitBooked ==
  ASSUME NEW r \in Handlers, BookTypes, OwnKind, Locked, Booked, Commit(r)
  PROVE  Booked'
  <1> DEFINE l == task[r]
             n == Len(entries)
             e == [amount |-> l.amount, before |-> l.before, after |-> l.before + l.amount,
                   of |-> l.of, ref |-> IF l.ref \in Approvals THEN None ELSE l.ref]
  <1>1. entries \in Seq(Entry) /\ l \in TaskState /\ l.step = "commit" /\ l.before \in Int /\ l.amount \in Int
    BY DEF BookTypes, Commit, OnTask, TaskState
  <1>2. entries' = Append(entries, e) /\ cached' = l.before + l.amount /\ UNCHANGED <<account, upsertLocks>>
    BY DEF Commit, settingVars
  <1>3. /\ n \in Nat /\ DOMAIN entries = 1..n /\ DOMAIN entries' = 1..(n + 1) /\ Len(entries') = n + 1
        /\ \A i \in 1..n : entries'[i] = entries[i]
        /\ entries'[n + 1] = e
    BY <1>1, <1>2
  <1> HIDE DEF l, n, e
  <1>4. e.before = l.before /\ e.after = l.before + l.amount /\ e.amount = l.amount /\ e.of = l.of
    BY DEF e
  <1>5. Chained'
    <2> SUFFICES ASSUME upsertLocks
                 PROVE  /\ cached' = Balance(entries')
                        /\ \A i \in DOMAIN entries' :
                             /\ entries'[i].after = entries'[i].before + entries'[i].amount
                             /\ entries'[i].before = IF i = 1 THEN 0 ELSE entries'[i - 1].after
      BY <1>2 DEF Chained
    <2>1. l.before = Balance(entries)
      BY <1>1 DEF Locked, ReadFresh, OnTask, Booked, Chained, l
    <2>2. l.before = IF n = 0 THEN 0 ELSE entries[n].after
      BY <1>1, <2>1 DEF Balance, n
    <2>3. cached' = Balance(entries')
      BY <1>2, <1>3, <1>4 DEF Balance
    <2>4. ASSUME NEW i \in 1..(n + 1)
          PROVE  /\ entries'[i].after = entries'[i].before + entries'[i].amount
                 /\ entries'[i].before = IF i = 1 THEN 0 ELSE entries'[i - 1].after
      <3>1. CASE i = n + 1
        <4>1. n # 0 => n \in 1..n /\ entries'[n] = entries[n]
          BY <1>3
        <4>2. QED BY <1>3, <1>4, <2>2, <3>1, <4>1
      <3>2. CASE i # n + 1
        <4>1. i \in 1..n /\ (i # 1 => i - 1 \in 1..n)
          BY <1>3, <3>2
        <4>2. QED BY <1>3, <4>1 DEF Booked, Chained
      <3>3. QED BY <3>1, <3>2
    <2>5. QED BY <1>3, <2>3, <2>4
  <1>6. ReversedOnce'
    <2> SUFFICES ASSUME account = "points" \/ upsertLocks, NEW i \in 1..(n + 1), NEW j \in 1..(n + 1),
                        entries'[i].of # 0, entries'[i].of = entries'[j].of
                 PROVE  i = j
      BY <1>2, <1>3 DEF ReversedOnce
    <2>1. ASSUME e.of # 0, NEW k \in 1..n
          PROVE  entries[k].of # e.of
      <3>1. Reversing(r) /\ LocksRow(r)
        BY <1>4, <2>1 DEF OwnKind, Belongs, Reversing, LocksRow, l
      <3>2. ~Reversed(l.of)
        BY <1>1, <1>4, <2>1, <3>1 DEF Locked, CheckHeld, l
      <3>3. QED BY <1>3, <1>4, <3>2 DEF Reversed
    <2>2. CASE i \in 1..n /\ j \in 1..n
      BY <1>3, <2>2 DEF Booked, ReversedOnce
    <2>3. CASE i = n + 1 \/ j = n + 1
      BY <1>3, <2>1, <2>3
    <2>4. QED BY <1>3, <2>2, <2>3
  <1>7. BackfilledOnce'
    <2> SUFFICES ASSUME NEW i \in 1..(n + 1), NEW j \in 1..(n + 1),
                        entries'[i].ref \in References, entries'[i].ref = entries'[j].ref
                 PROVE  i = j
      BY <1>3 DEF BackfilledOnce
    <2>1. ASSUME e.ref \in References, NEW k \in 1..n
          PROVE  entries[k].ref # e.ref
      <3>1. e.ref = l.ref /\ l.op = "backfill"
        BY <2>1, NoneAssumption DEF OwnKind, Belongs, e, l
      <3>2. \A m \in DOMAIN entries : entries[m].ref # l.ref
        BY <1>1, <3>1 DEF Locked, CheckHeld, l
      <3>3. QED BY <1>3, <3>1, <3>2
    <2>2. CASE i \in 1..n /\ j \in 1..n
      BY <1>3, <2>2 DEF Booked, BackfilledOnce
    <2>3. CASE i = n + 1 \/ j = n + 1
      BY <1>3, <2>1, <2>3
    <2>4. QED BY <1>3, <2>2, <2>3
  <1>8. QED BY <1>5, <1>6, <1>7 DEF Booked

\* Every other step of a request is outside its transactions, or ends one.
LEMMA RequestLocked ==
  ASSUME NEW r \in Handlers, BookTypes, Locked,
         \/ Review(r) \/ CreateTopUpIntent(r) \/ CreditAtOnce(r) \/ SettleTopUp(r) \/ RestoreTopUp(r)
         \/ LoseStatement(r) \/ Die(r) \/ Arrive(r)
  PROVE  Locked' /\ UNCHANGED <<settingVars, bookVars>>
  <1>1. task \in [Handlers -> TaskState]
    BY DEF BookTypes
  <1>2. ASSUME NEW s \in LedgerSteps \ TxSteps, StepTo(r, s)
        PROVE  (\A q \in Handlers : q # r => task'[q] = task[q]) /\ task'[r].step \notin TxSteps
    BY <1>1, <1>2, GoTyped
  <1>4. CASE Review(r) \/ CreateTopUpIntent(r) \/ SettleTopUp(r) \/ RestoreTopUp(r)
    <2>1. /\ \A q \in Handlers : q # r => task'[q] = task[q]
          /\ task'[r].step \notin TxSteps
      BY <1>2, <1>4 DEF Review, CreateTopUpIntent, SettleTopUp, RestoreTopUp, LedgerSteps, TxSteps
    <2>2. UNCHANGED <<settingVars, bookVars, owner>>
      BY <1>4 DEF Review, CreateTopUpIntent, SettleTopUp, RestoreTopUp
    <2>3. QED BY <2>1, <2>2, OutsideTx
  <1>5. CASE CreditAtOnce(r)
    <2>1. /\ \A q \in Handlers : q # r => task'[q] = task[q]
          /\ task'[r].step \notin TxSteps
      <3>1. CASE ClaimTopUp(r, task[r].ref)
        BY <1>1, <3>1 DEF ClaimTopUp, Local, TxSteps
      <3>2. CASE StepTo(r, "idle")
        BY <1>2, <3>2 DEF LedgerSteps, TxSteps
      <3>3. QED BY <1>5, <3>1, <3>2 DEF CreditAtOnce
    <2>2. UNCHANGED <<settingVars, bookVars, owner>>
      BY <1>5 DEF CreditAtOnce
    <2>3. QED BY <2>1, <2>2, OutsideTx
  <1>6. CASE LoseStatement(r) \/ Die(r)
    <2>1. /\ \A q \in Handlers : q # r => task'[q] = task[q]
          /\ task'[r].step \notin TxSteps
      BY <1>2, <1>6 DEF LoseStatement, Die, LedgerSteps, TxSteps
    <2>2. UNCHANGED <<settingVars, bookVars>> /\ \A q \in Handlers : q # r /\ owner = q => owner' = q
      BY <1>6 DEF LoseStatement, Die, Unlock
    <2>3. QED BY <2>1, <2>2, OutsideTx
  <1>7. CASE Arrive(r)
    <2>1. /\ \A q \in Handlers : q # r => task'[q] = task[q]
          /\ task'[r].step \in {"open", "review", "createIntent"}
      BY <1>1, <1>7 DEF Arrive, AppendEntry, Reverse, Backfill, ApproveWalletReversal,
                        RejectWalletReversal, StartTopUp, CreditTopUp, ClaimTopUp, BeginTask, Local
    <2>2. UNCHANGED <<settingVars, bookVars, owner>>
      BY <1>7 DEF Arrive, AppendEntry, Reverse, Backfill, ApproveWalletReversal,
                  RejectWalletReversal, StartTopUp, CreditTopUp
    <2>3. QED BY <2>1, <2>2, OutsideTx DEF TxSteps
  <1>8. QED BY <1>4, <1>5, <1>6, <1>7

\* A step that leaves the book alone keeps what is said of it.
LEMMA BookedKept ==
  ASSUME Booked, UNCHANGED <<settingVars, bookVars>>
  PROVE  Booked'
  BY DEF Booked, Chained, Balance, ReversedOnce, BackfilledOnce, settingVars, bookVars

\* Every step keeps the lock and the books.
LEMMA NextBooked ==
  ASSUME BookTypes, OwnKind, Locked, Booked, [LedgerNext]_ledgerVars
  PROVE  Locked' /\ Booked'
  <1>1. CASE UNCHANGED ledgerVars
    BY <1>1, BookedKept DEF ledgerVars, settingVars, bookVars, Locked, LockHeld, ReadFresh, CheckHeld,
                            LocksRow, Reversing, Reversed, OnTask
  <1>2. ASSUME NEW r \in Handlers, Proceed(r) \/ Arrive(r) \/ LoseStatement(r) \/ Die(r)
        PROVE  Locked' /\ Booked'
    <2>1. CASE Commit(r)
      BY <2>1, CommitLocked, CommitBooked
    <2>2. CASE Open(r) \/ Check(r) \/ Read(r)
      <3>1. UNCHANGED <<settingVars, bookVars>>
        BY <2>2 DEF Open, Check, Read
      <3>2. CASE Open(r)
        BY <3>1, <3>2, OpenLocked, BookedKept
      <3>3. CASE Abort(r)
        BY <3>1, <3>3, AbortLocked, BookedKept
      <3>4. CASE ~Abort(r) /\ ~Open(r)
        BY <2>2, <3>1, <3>4, CheckReadLocked, BookedKept
      <3>5. QED BY <3>2, <3>3, <3>4
    <2>3. CASE ~Commit(r) /\ ~Open(r) /\ ~Check(r) /\ ~Read(r)
      <3>1. Locked' /\ UNCHANGED <<settingVars, bookVars>>
        BY <1>2, <2>3, RequestLocked DEF Proceed
      <3>2. QED BY <3>1, BookedKept
    <2>4. QED BY <2>1, <2>2, <2>3
  <1>3. CASE \/ \E t \in TopUps : FailTopUp(t) \/ PayTopUp(t) \/ PaymentRefused(t)
             \/ \E p \in Approvals : RequestWalletReversal(p)
             \/ SetFreeze
    <2>1. UNCHANGED <<settingVars, bookVars, owner, task>>
      BY <1>3 DEF FailTopUp, PayTopUp, PaymentRefused, RequestWalletReversal, SetFreeze
    <2>2. Locked'
      BY <2>1 DEF settingVars, bookVars, Locked, LockHeld, ReadFresh, CheckHeld, LocksRow,
                  Reversing, Reversed, OnTask
    <2>3. QED BY <2>1, <2>2, BookedKept
  <1>4. QED BY <1>1, <1>2, <1>3 DEF LedgerNext

\* The lock, fresh reads, standing checks and the three facts about the book hold together
\* in every state, with any number of requests.
THEOREM LedgerInvariant == LedgerSpec => []LedgerInv
  <1> DEFINE IInv == BookTypes /\ OwnKind /\ Locked /\ Booked
  <1>1. LedgerInit => IInv
    <2> SUFFICES ASSUME LedgerInit PROVE Locked /\ Booked
      BY InitTyped
    <2>1. \A r \in Handlers : task[r].step = "idle"
      BY DEF LedgerInit, NoTask, Local
    <2>2. Locked
      BY <2>1 DEF Locked, LockHeld, ReadFresh, CheckHeld, OnTask, TxSteps
    <2>3. Booked
      BY DEF LedgerInit, Booked, Chained, Balance, ReversedOnce, BackfilledOnce
    <2>4. QED BY <2>2, <2>3
  <1>2. IInv /\ [LedgerNext]_ledgerVars => IInv'
    BY NextTyped, NextOwnKind, NextBooked
  <1>3. IInv => LedgerInv
    BY DEF LedgerInv, Locked, Booked
  <1>4. QED BY <1>1, <1>2, <1>3, PTL DEF LedgerSpec

\* No append is lost and the cached balance is the ledger's, if the upsert locks the row.
THEOREM LedgerChained == LedgerSpec => []Chained
  <1>1. LedgerInv => Chained
    BY DEF LedgerInv
  <1>2. QED BY <1>1, LedgerInvariant, PTL

\* An entry of the points, and one of a wallet whose upsert locks it, is reversed once.
THEOREM ReversedAtMostOnce == LedgerSpec => []ReversedOnce
  <1>1. LedgerInv => ReversedOnce
    BY DEF LedgerInv
  <1>2. QED BY <1>1, LedgerInvariant, PTL

\* A legacy reference is backfilled once, whatever the upsert does.
THEOREM BackfilledAtMostOnce == LedgerSpec => []BackfilledOnce
  <1>1. LedgerInv => BackfilledOnce
    BY DEF LedgerInv
  <1>2. QED BY <1>1, LedgerInvariant, PTL

\* No reversal and no backfill is applied twice, in the wallet if its upsert locks the row.
THEOREM CorrectedAtMostOnce == LedgerSpec => []CorrectedOnce
  <1>1. ReversedOnce /\ BackfilledOnce => CorrectedOnce
    BY DEF CorrectedOnce
  <1>2. QED BY <1>1, ReversedAtMostOnce, BackfilledAtMostOnce, PTL

---------------------------------------------------------------------------
(* What is marked as done is in the book *)

\* A request that makes the payment of a top-up, and one that credits it.
Crediting(r) ==
  task[r].op = "topUp" /\ task[r].step \in {"open", "succeed", "rollback"} \cup TxSteps
Paying(r) == task[r].step = "createIntent" \/ Crediting(r)

\* Nobody else makes or credits the payment of a request that does.
OnePayer == \A r, q \in Handlers : Paying(r) /\ Paying(q) /\ task[r].ref = task[q].ref => r = q

\* Whoever credits a top-up has taken a captured payment, and credits it unless that is done;
\* whoever approves reverses the entry that was asked for before writing APPROVED.
Performs(r) ==
  LET l == task[r]  t == l.ref IN
    /\ t \in TopUps \/ l.step \in {"createIntent", "claim", "succeed", "rollback"} => l.op = "topUp"
    /\ l.step = "createIntent" => topUp[t] = "none" /\ payment[t] \in {"CREATED", "SUCCEEDED"}
    /\ Crediting(r) => topUp[t] \in {"PROCESSING", "FAILED"} /\ payment[t] = "SUCCEEDED"
    /\ Crediting(r) /\ l.step # "succeed" /\ t \notin unsettled => Credits(t) = {}
    /\ l.step = "succeed" => Credits(t) # {}
    /\ l.op = "approve" => t \in Approvals /\ l.of = target[t]
    /\ l.op = "approve" /\ l.step = "review" => Reversed(l.of)

\* What the rows of a top-up and the book say of each other.
Credited(t) ==
  /\ payment[t] = "none" => topUp[t] = "none"
  /\ topUp[t] = "none" \/ (topUp[t] = "PENDING" /\ t \notin unsettled) => Credits(t) = {}
  /\ topUp[t] = "SUCCEEDED" => payment[t] = "SUCCEEDED" /\ Credits(t) # {}
  /\ t \notin unsettled => \A i, j \in Credits(t) : i = j

FinishInv ==
  /\ OnePayer
  /\ \A r \in Handlers : Performs(r)
  /\ \A t \in TopUps : Credited(t)
  /\ ApprovedIsReversed

\* A request goes on, and neither the book nor a payment nor an approval changes.
LEMMA FinishCalm ==
  ASSUME NEW r \in Handlers, FinishInv, UNCHANGED <<entries, topUp, payment, approval, target>>,
         unsettled \subseteq unsettled', \A q \in Handlers : q # r => task'[q] = task[q],
         Paying(r)' => Paying(r) /\ task'[r].ref = task[r].ref, Performs(r)'
  PROVE  FinishInv'
  <1>1. ASSUME NEW q \in Handlers, q # r PROVE Performs(q)'
    BY <1>1 DEF FinishInv, Performs, Crediting, Credits, Reversed
  <1>2. OnePayer'
    BY DEF FinishInv, OnePayer, Paying, Crediting
  <1>3. (\A t \in TopUps : Credited(t)') /\ ApprovedIsReversed'
    BY DEF FinishInv, Credited, Credits, ApprovedIsReversed, Reversed
  <1>4. QED BY <1>1, <1>2, <1>3 DEF FinishInv

\* A step of one top-up.
LEMMA FinishTopUp ==
  ASSUME NEW t \in TopUps, OwnKind, FinishInv, UNCHANGED <<entries, approval, target, unsettled>>,
         \A u \in TopUps : u # t => topUp'[u] = topUp[u] /\ payment'[u] = payment[u],
         \A q \in Handlers :
           Performs(q)' \/ (task'[q] = task[q] /\ (Paying(q) => task[q].ref # t)),
         OnePayer', Credited(t)'
  PROVE  FinishInv'
  <1>1. ASSUME NEW q \in Handlers, task'[q] = task[q], Paying(q) => task[q].ref # t
        PROVE  Performs(q)'
    <2>1. Performs(q) /\ Belongs(q)
      BY DEF FinishInv, OwnKind
    <2>2. Paying(q) => task[q].ref \in TopUps
      BY <2>1 DEF Paying, Crediting, Belongs
    <2>3. Paying(q) => topUp'[task[q].ref] = topUp[task[q].ref] /\ payment'[task[q].ref] = payment[task[q].ref]
      BY <1>1, <2>2
    <2>4. QED BY <1>1, <2>1, <2>3 DEF Performs, Paying, Crediting, Credits, Reversed
  <1>2. (\A u \in TopUps : u # t => Credited(u)') /\ ApprovedIsReversed'
    BY DEF FinishInv, Credited, Credits, ApprovedIsReversed, Reversed
  <1>3. QED BY <1>1, <1>2 DEF FinishInv

\* A request that is no payer ends or goes on inside its operation.
LEMMA FinishGo ==
  ASSUME NEW r \in Handlers, NEW s \in LedgerSteps, BookTypes, OwnKind, FinishInv, StepTo(r, s),
         UNCHANGED <<entries, topUp, payment, approval, target>>, unsettled \subseteq unsettled',
         \/ s = "idle"
         \/ s \in TxSteps /\ task[r].step \in {"open"} \cup TxSteps
         \/ s = "rollback" /\ Crediting(r) /\ (OnTask(r, "succeed") => task[r].ref \in unsettled')
  PROVE  FinishInv'
  <1>1. task \in [Handlers -> TaskState] /\ Performs(r)
    BY DEF BookTypes, FinishInv
  <1>2. /\ \A q \in Handlers : q # r => task'[q] = task[q]
        /\ task'[r].step = s
        /\ s # "idle" => task'[r].op = task[r].op /\ task'[r].of = task[r].of /\ task'[r].ref = task[r].ref
        /\ s = "idle" => task'[r].op = "none" /\ task'[r].ref = None /\ task'[r].of = 0
    BY <1>1, GoTyped
  <1>3. CASE s = "idle"
    <2>1. Performs(r)' /\ ~Paying(r)'
      BY <1>2, <1>3, NoneAssumption DEF Performs, Paying, Crediting, TxSteps
    <2>2. QED BY <1>2, <2>1, FinishCalm
  <1>4. CASE s # "idle"
    <2>1. Paying(r)' => Crediting(r) /\ Crediting(r)'
      BY <1>2, <1>4 DEF Paying, Crediting, TxSteps
    <2>2. Crediting(r)' => Crediting(r)
      BY <2>1 DEF Paying
    <2>3. s \notin {"createIntent", "claim", "succeed", "review"}
      BY <1>4 DEF TxSteps
    <2>4. Crediting(r) /\ task[r].ref \notin unsettled' => Credits(task[r].ref) = {}
      BY <1>1, <1>4 DEF Performs, OnTask, TxSteps
    <2>5. s = "rollback" => task[r].op = "topUp"
      BY <1>4 DEF TxSteps, Crediting
    <2>6. Performs(r)'
      BY <1>1, <1>2, <1>4, <2>2, <2>3, <2>4, <2>5 DEF Performs, Credits
    <2>7. QED BY <1>2, <1>4, <2>1, <2>6, FinishCalm DEF Paying
  <1>5. QED BY <1>3, <1>4

\* A new operation that pays nothing.
LEMMA FinishBegin ==
  ASSUME NEW r \in Handlers, NEW s \in {"open", "review"}, NEW op \in Operations \ {"topUp"},
         NEW amount \in Int, NEW of \in Nat, NEW ref \in Refs \ TopUps,
         BookTypes, FinishInv, BeginTask(r, s, op, amount, of, ref),
         op = "approve" => s = "open" /\ ref \in Approvals /\ of = target[ref],
         UNCHANGED <<entries, topUp, payment, approval, target, unsettled>>
  PROVE  FinishInv'
  <1>1. /\ \A q \in Handlers : q # r => task'[q] = task[q]
        /\ task'[r].step = s /\ task'[r].op = op /\ task'[r].of = of /\ task'[r].ref = ref
    <2>1. s \in LedgerSteps /\ op \in Operations /\ ref \in Refs /\ task \in [Handlers -> TaskState]
      BY DEF BookTypes, LedgerSteps
    <2>2. task' = [task EXCEPT ![r] = Local(s, op, amount, of, ref)]
      BY DEF BeginTask
    <2>3. QED BY <2>1, <2>2, BeginTyped, ZenonT(60)
  <1>2. Performs(r)' /\ ~Paying(r)'
    BY <1>1 DEF Performs, Paying, Crediting
  <1>3. QED BY <1>1, <1>2, FinishCalm

\* What arrives keeps FinishInv, other than top-ups, which have lemmas of their own.
LEMMA FinishArrive ==
  ASSUME NEW r \in Handlers, BookTypes, OwnKind, FinishInv, Arrive(r),
         \A t \in TopUps : ~StartTopUp(r, t) /\ ~CreditTopUp(r, t)
  PROVE  FinishInv'
  <1> USE DEF bookVars, topUpVars, reviewVars
  <1>1. \A k \in DOMAIN entries : -entries[k].amount \in Int /\ k \in Nat
    <2>1. TAKE k \in DOMAIN entries
    <2>2. k \in Nat /\ entries[k] \in Entry
      BY DEF BookTypes
    <2>3. QED BY <2>2 DEF Entry
  <1>2. CASE AppendEntry(r)
    BY <1>2, FinishBegin, AmountAssumption, NoneAssumption DEF AppendEntry, Operations, Refs
  <1>3. ASSUME NEW ref \in References, Backfill(r, ref) PROVE FinishInv'
    BY <1>3, FinishBegin, AmountAssumption, RefAssumption DEF Backfill, Operations, Refs
  <1>4. CASE Reverse(r)
    BY <1>1, <1>4, FinishBegin, NoneAssumption DEF Reverse, Operations, Refs
  <1>5. ASSUME NEW p \in Approvals, ApproveWalletReversal(r, p) PROVE FinishInv'
    <2>1. target[p] \in DOMAIN entries
      BY <1>5 DEF ApproveWalletReversal, OwnKind
    <2>2. p \in Refs \ TopUps
      BY RefAssumption DEF Refs
    <2>3. QED BY <1>1, <1>5, <2>1, <2>2, FinishBegin DEF ApproveWalletReversal, Operations
  <1>6. ASSUME NEW p \in Approvals, RejectWalletReversal(r, p) PROVE FinishInv'
    BY <1>6, FinishBegin, RefAssumption DEF RejectWalletReversal, Operations, Refs
  <1>7. QED BY <1>2, <1>3, <1>4, <1>5, <1>6 DEF Arrive

\* A statement about one top-up.
LEMMA FinishPay ==
  ASSUME NEW r \in Handlers, NEW t \in TopUps, BookTypes, OwnKind, FinishInv,
         \/ StartTopUp(r, t) \/ CreditTopUp(r, t)
         \/ task[r].ref = t /\ (CreateTopUpIntent(r) \/ CreditAtOnce(r) \/ SettleTopUp(r) \/ RestoreTopUp(r))
  PROVE  FinishInv'
  <1> USE DEF bookVars, topUpVars, reviewVars
  <1>1. /\ task \in [Handlers -> TaskState] /\ Performs(r) /\ Credited(t) /\ Belongs(r)
        /\ \A q \in Handlers : Paying(q) /\ task[q].ref = t => topUp[t] # "PENDING" /\ payment[t] # "none"
    BY DEF BookTypes, FinishInv, OwnKind, Performs, Paying
  <1>2. UNCHANGED <<entries, approval, target, unsettled>>
    BY DEF StartTopUp, CreditTopUp, CreateTopUpIntent, CreditAtOnce, SettleTopUp, RestoreTopUp
  <1>3. Credits(t)' = Credits(t)
    BY <1>2 DEF Credits
  <1>4. ASSUME NEW s \in {"open", "createIntent"},
               task' = [task EXCEPT ![r] = Local(s, "topUp", 1, 0, t)]
        PROVE  /\ \A q \in Handlers : q # r => task'[q] = task[q]
               /\ task'[r].step = s /\ task'[r].op = "topUp" /\ task'[r].ref = t
    BY <1>1, <1>4 DEF Local
  <1>5. CASE StartTopUp(r, t)
    <2>1. /\ payment[t] = "none" /\ topUp' = topUp /\ payment'[t] \in {"CREATED", "SUCCEEDED"}
          /\ \A u \in TopUps : u # t => payment'[u] = payment[u]
          /\ task' = [task EXCEPT ![r] = Local("createIntent", "topUp", 1, 0, t)]
      BY <1>5 DEF StartTopUp, BeginTask, BookTypes
    <2>2. /\ \A q \in Handlers : q # r => task'[q] = task[q]
          /\ task'[r].step = "createIntent" /\ task'[r].op = "topUp" /\ task'[r].ref = t
      BY <1>4, <2>1
    <2>3. \A q \in Handlers : Paying(q) => task[q].ref # t
      BY <1>1, <2>1
    <2>4. Performs(r)'
      BY <1>1, <2>1, <2>2 DEF Performs, Crediting, Credited, TxSteps
    <2>5. OnePayer'
      BY <2>2, <2>3 DEF FinishInv, OnePayer, Paying, Crediting
    <2>6. Credited(t)'
      BY <1>1, <1>2, <1>3, <2>1 DEF Credited
    <2>7. QED BY <1>2, <2>6, <2>5, <2>4, <2>3, <2>2, <2>1, FinishTopUp
  <1>6. CASE CreditTopUp(r, t) \/ (task[r].ref = t /\ CreditAtOnce(r) /\ ClaimTopUp(r, t))
    <2>1. /\ payment[t] = "SUCCEEDED" /\ topUp[t] = "PENDING" /\ payment' = payment
          /\ topUp'[t] = "PROCESSING" /\ \A u \in TopUps : u # t => topUp'[u] = topUp[u]
          /\ task' = [task EXCEPT ![r] = Local("open", "topUp", 1, 0, t)]
      BY <1>6 DEF CreditTopUp, CreditAtOnce, ClaimTopUp, BookTypes
    <2>2. /\ \A q \in Handlers : q # r => task'[q] = task[q]
          /\ task'[r].step = "open" /\ task'[r].op = "topUp" /\ task'[r].ref = t
      BY <1>4, <2>1
    <2>3. \A q \in Handlers : Paying(q) => task[q].ref # t
      BY <1>1, <2>1
    <2>4. Performs(r)'
      BY <1>1, <1>2, <1>3, <2>1, <2>2 DEF Performs, Credited
    <2>5. OnePayer'
      BY <2>2, <2>3 DEF FinishInv, OnePayer, Paying, Crediting
    <2>6. Credited(t)'
      BY <1>1, <1>2, <1>3, <2>1 DEF Credited
    <2>7. QED BY <1>2, <2>6, <2>5, <2>4, <2>3, <2>2, <2>1, FinishTopUp
  <1>7. CASE CreditAtOnce(r) /\ ~ClaimTopUp(r, t) /\ task[r].ref = t
    BY <1>2, <1>7, FinishGo DEF CreditAtOnce, LedgerSteps
  <1>8. CASE task[r].ref = t /\ CreateTopUpIntent(r)
    <2>1. /\ OnTask(r, "createIntent") /\ topUp[t] = "none" /\ topUp'[t] = "PENDING"
          /\ \A u \in TopUps : u # t => topUp'[u] = topUp[u] /\ payment'[u] = payment[u]
          /\ payment[t] = "CREATED" => payment'[t] = "REQUIRES_ACTION"
          /\ payment[t] = "SUCCEEDED" => payment'[t] = "SUCCEEDED"
          /\ payment[t] \in {"CREATED", "SUCCEEDED"}
      BY <1>1, <1>8 DEF CreateTopUpIntent, Performs, OnTask, BookTypes
    <2>2. PICK s \in {"idle", "claim"} : StepTo(r, s)
      BY <1>8 DEF CreateTopUpIntent
    <2>3. /\ \A q \in Handlers : q # r => task'[q] = task[q]
          /\ task'[r].step = s
          /\ s # "idle" => task'[r].op = task[r].op /\ task'[r].of = task[r].of /\ task'[r].ref = task[r].ref
          /\ s = "idle" => task'[r].op = "none" /\ task'[r].ref = None /\ task'[r].of = 0
      BY <1>1, <2>2, GoTyped DEF LedgerSteps
    <2>4. Paying(r) /\ ~Paying(r)'
      BY <2>1, <2>3 DEF Paying, Crediting, OnTask, TxSteps
    <2>5. Performs(r)'
      <3>1. task[r].op = "topUp"
        BY <1>1, <2>1 DEF Performs, OnTask
      <3>2. ~Crediting(r)' /\ task'[r].step \notin {"createIntent", "succeed", "review"}
        BY <2>3, <2>4 DEF Paying
      <3>3. task'[r].op # "approve" /\ (task'[r].ref \in TopUps => task'[r].op = "topUp")
        BY <2>3, <3>1, NoneAssumption
      <3>4. task'[r].step = "claim" => task'[r].op = "topUp"
        BY <2>3, <3>1
      <3>5. task'[r].step # "rollback"
        BY <2>3
      <3>6. QED BY <3>2, <3>3, <3>4, <3>5 DEF Performs
    <2>6. OnePayer'
      BY <2>3, <2>4 DEF FinishInv, OnePayer, Paying, Crediting
    <2>7. Credited(t)'
      BY <1>1, <1>2, <1>3, <2>1 DEF Credited
    <2>8. \A q \in Handlers : q # r /\ Paying(q) => task[q].ref # t
      BY <1>8, <2>4 DEF FinishInv, OnePayer
    <2>9. QED BY <1>2, <2>1, <2>3, <2>5, <2>6, <2>7, <2>8, FinishTopUp
  <1>9. CASE task[r].ref = t /\ (SettleTopUp(r) \/ RestoreTopUp(r))
    <2>1. /\ Crediting(r) /\ payment[t] = "SUCCEEDED" /\ payment' = payment
          /\ \A u \in TopUps : u # t => topUp'[u] = topUp[u]
          /\ \/ topUp'[t] = "SUCCEEDED" /\ Credits(t) # {}
             \/ topUp'[t] = "PENDING" /\ (t \notin unsettled => Credits(t) = {})
      BY <1>1, <1>9 DEF SettleTopUp, RestoreTopUp, Performs, Crediting, OnTask, BookTypes
    <2>2. /\ \A q \in Handlers : q # r => task'[q] = task[q]
          /\ task'[r].step = "idle" /\ task'[r].op = "none" /\ task'[r].ref = None /\ task'[r].of = 0
      BY <1>1, <1>9, GoTyped DEF SettleTopUp, RestoreTopUp, LedgerSteps
    <2>3. Paying(r) /\ ~Paying(r)'
      BY <2>1, <2>2 DEF Paying, Crediting, TxSteps
    <2>4. Performs(r)'
      BY <2>2, NoneAssumption DEF Performs, Crediting, TxSteps
    <2>5. OnePayer'
      BY <2>2, <2>3 DEF FinishInv, OnePayer, Paying, Crediting
    <2>6. Credited(t)'
      BY <1>1, <1>2, <1>3, <2>1 DEF Credited
    <2>7. \A q \in Handlers : q # r /\ Paying(q) => task[q].ref # t
      BY <1>9, <2>3 DEF FinishInv, OnePayer
    <2>8. QED BY <1>2, <2>1, <2>2, <2>4, <2>5, <2>6, <2>7, FinishTopUp
  <1>10. QED BY <1>5, <1>6, <1>7, <1>8, <1>9

\* An entry is written.
LEMMA FinishCommit ==
  ASSUME NEW r \in Handlers, BookTypes, OwnKind, FinishInv, Commit(r)
  PROVE  FinishInv'
  <1> DEFINE l == task[r]
             n == Len(entries)
             e == [amount |-> l.amount, before |-> l.before, after |-> l.before + l.amount,
                   of |-> l.of, ref |-> IF l.ref \in Approvals THEN None ELSE l.ref]
  <1>1. /\ entries \in Seq(Entry) /\ task \in [Handlers -> TaskState] /\ l.step = "commit"
        /\ Performs(r) /\ Belongs(r)
    BY DEF BookTypes, Commit, OnTask, FinishInv, OwnKind
  <1>2. entries' = Append(entries, e)
    BY DEF Commit
  <1>3. /\ n \in Nat /\ DOMAIN entries = 1..n /\ DOMAIN entries' = 1..(n + 1)
        /\ \A i \in 1..n : entries'[i] = entries[i]
        /\ entries'[n + 1] = e
    BY <1>1, <1>2
  <1>4. e.of = l.of /\ (\A t \in TopUps : e.ref = t <=> l.ref = t)
    BY NoneAssumption, RefAssumption
  <1>5. UNCHANGED <<topUp, payment, approval, target, unsettled>>
    BY DEF Commit, topUpVars, reviewVars
  <1>6. \A t \in TopUps : Credits(t)' = IF l.ref = t THEN Credits(t) \cup {n + 1} ELSE Credits(t)
    <2> HIDE DEF l, n, e
    <2>1. TAKE t \in TopUps
    <2>2. \A i \in 1..n : entries'[i].ref = entries[i].ref
      BY <1>3
    <2>3. n + 1 \notin 1..n /\ 1..(n + 1) = 1..n \cup {n + 1}
      BY <1>3
    <2>4. Credits(t) = {i \in 1..n : entries[i].ref = t}
          /\ Credits(t)' = {i \in 1..(n + 1) : entries'[i].ref = t}
      BY <1>3 DEF Credits
    <2>5. entries'[n + 1].ref = t <=> l.ref = t
      BY <1>3, <1>4
    <2>6. QED BY <2>2, <2>3, <2>4, <2>5
  <1>7. \A k \in Nat : Reversed(k) \/ k = l.of => Reversed(k)'
    <2> HIDE DEF l, n, e
    <2>1. n + 1 \in 1..(n + 1) /\ 1..n \subseteq 1..(n + 1)
      BY <1>3
    <2>2. ASSUME NEW k \in Nat, k = l.of PROVE Reversed(k)'
      <3>1. entries'[n + 1].of = k /\ n + 1 \in DOMAIN entries'
        BY <1>3, <1>4, <2>1, <2>2
      <3>2. QED BY <3>1 DEF Reversed
    <2>3. ASSUME NEW k \in Nat, Reversed(k) PROVE Reversed(k)'
      <3>1. PICK i \in 1..n : entries[i].of = k
        BY <1>3, <2>3 DEF Reversed
      <3>2. entries'[i].of = k /\ i \in DOMAIN entries'
        BY <1>3, <2>1, <3>1
      <3>3. QED BY <3>2 DEF Reversed
    <2>4. QED BY <2>2, <2>3
  <1>8. PICK s \in {"succeed", "review", "idle"} :
          /\ StepTo(r, s)
          /\ s = "succeed" <=> l.op = "topUp"
          /\ s = "review" => l.op = "approve"
    <2>1. l.op = "topUp" => StepTo(r, "succeed")
      BY DEF Commit
    <2>2. l.op = "approve" => StepTo(r, "review")
      BY DEF Commit
    <2>3. l.op \notin {"topUp", "approve"} => StepTo(r, "idle")
      BY DEF Commit
    <2>4. QED BY <2>1, <2>2, <2>3
  <1>9. /\ \A q \in Handlers : q # r => task'[q] = task[q]
        /\ task'[r].step = s
        /\ s # "idle" => task'[r].op = l.op /\ task'[r].of = l.of /\ task'[r].ref = l.ref
        /\ s = "idle" => task'[r].op = "none" /\ task'[r].ref = None /\ task'[r].of = 0
    BY <1>1, <1>8, GoTyped DEF LedgerSteps
  <1>10. Crediting(r) <=> l.op = "topUp"
    BY <1>1 DEF Crediting, TxSteps
  <1>11. l.op = "topUp" <=> l.ref \in TopUps
    BY <1>1 DEF Performs, Belongs
  <1> HIDE DEF l, n, e
  <1>12. Crediting(r)' => Crediting(r)
    BY <1>8, <1>9, <1>10 DEF Crediting, TxSteps
  <1>13. OnePayer'
    <2>1. Paying(r)' => Paying(r) /\ task'[r].ref = task[r].ref
      BY <1>8, <1>9, <1>12 DEF Paying, Crediting, l
    <2>2. QED BY <1>9, <2>1 DEF FinishInv, OnePayer, Paying, Crediting
  <1>14. ASSUME NEW t \in TopUps PROVE Credited(t)'
    <2>1. CASE l.ref # t
      BY <1>5, <1>6, <2>1 DEF FinishInv, Credited
    <2>2. CASE l.ref = t
      <3>1. Crediting(r) /\ l.step # "succeed"
        BY <1>1, <1>10, <1>11, <2>2
      <3>2. /\ topUp[t] \in {"PROCESSING", "FAILED"} /\ payment[t] = "SUCCEEDED"
            /\ t \notin unsettled => Credits(t) = {}
        BY <1>1, <2>2, <3>1 DEF Performs, l
      <3>3. Credits(t)' = Credits(t) \cup {n + 1}
        BY <1>6, <2>2
      <3>4. QED BY <1>5, <3>2, <3>3 DEF Credited
    <2>3. QED BY <2>1, <2>2
  <1>15. ASSUME NEW q \in Handlers, q # r PROVE Performs(q)'
    <2>1. Performs(q) /\ Belongs(q) /\ task'[q] = task[q]
      BY <1>9, <1>15 DEF FinishInv, OwnKind
    <2>2. Paying(q) => task[q].ref \in TopUps
      BY <2>1 DEF Paying, Crediting, Belongs
    <2>3. Crediting(q) => l.ref # task[q].ref
      BY <1>10, <1>11, <1>15, <2>2 DEF Paying, FinishInv, OnePayer, l
    <2>4. Crediting(q) => \E t \in TopUps : t = task[q].ref /\ Credits(t)' = Credits(t)
      BY <1>6, <2>2, <2>3 DEF Paying
    <2>5. task[q].step = "succeed" => Crediting(q)
      BY <2>1 DEF Performs, Crediting
    <2>6. task[q].of \in Nat
      BY <1>1 DEF TaskState
    <2>7. task[q].op = "approve" /\ task[q].step = "review"
            => \E k \in Nat : k = task[q].of /\ Reversed(k)'
      BY <1>7, <2>1, <2>6 DEF Performs
    <2>8. QED BY <1>5, <2>1, <2>4, <2>5, <2>7 DEF Performs, Crediting, Credits, Reversed
  <1>16. Performs(r)'
    <2>1. CASE s = "idle"
      BY <1>9, <2>1, NoneAssumption DEF Performs, Crediting, TxSteps
    <2>2. CASE s = "succeed"
      <3>1. PICK t \in TopUps : t = l.ref /\ l.op = "topUp" /\ Crediting(r)
        BY <1>8, <1>10, <1>11, <2>2
      <3>2. topUp[t] \in {"PROCESSING", "FAILED"} /\ payment[t] = "SUCCEEDED"
        BY <1>1, <3>1 DEF Performs, l
      <3>3. Credits(t)' # {}
        BY <1>6, <3>1
      <3>4. task'[r].ref = t /\ task'[r].op = "topUp" /\ task'[r].step = "succeed"
        BY <1>9, <2>2, <3>1
      <3>5. QED BY <1>5, <3>2, <3>3, <3>4 DEF Performs, Credits
    <2>3. CASE s = "review"
      <3>1. l.op = "approve" /\ l.ref \in Approvals /\ l.of = target[l.ref]
        BY <1>1, <1>8, <2>3 DEF Performs, l
      <3>2. /\ task'[r].step = "review" /\ task'[r].op = "approve" /\ task'[r].of = l.of
            /\ task'[r].ref = l.ref
        BY <1>9, <2>3, <3>1
      <3>3. l.of \in Nat
        BY <1>1 DEF l, TaskState
      <3>4. PICK k \in Nat : k = l.of /\ Reversed(k)'
        BY <1>7, <3>3
      <3>5. task'[r].of = k /\ task'[r].ref \notin TopUps
        BY <3>1, <3>2, <3>4, RefAssumption
      <3>6. QED BY <1>5, <3>1, <3>2, <3>4, <3>5 DEF Performs, Crediting, Reversed
    <2>4. QED BY <1>8, <2>1, <2>2, <2>3
  <1>17. ApprovedIsReversed'
    BY <1>5, <1>7 DEF FinishInv, ApprovedIsReversed, Reversed, BookTypes
  <1>18. QED BY <1>13, <1>14, <1>15, <1>16, <1>17 DEF FinishInv

\* Every step keeps FinishInv.
LEMMA FinishNext ==
  ASSUME BookTypes, OwnKind, FinishInv, [LedgerNext]_ledgerVars
  PROVE  FinishInv'
  <1> USE DEF bookVars, topUpVars, reviewVars
  <1>1. ASSUME UNCHANGED <<entries, topUp, payment, approval, target, unsettled, task>> PROVE FinishInv'
    BY <1>1 DEF FinishInv, OnePayer, Performs, Paying, Crediting, Credited, Credits,
                ApprovedIsReversed, Reversed
  <1>2. ASSUME NEW r \in Handlers, Proceed(r), ~Commit(r) PROVE FinishInv'
    <2>1. CASE Open(r) \/ Check(r) \/ Read(r)
      <3>1. /\ UNCHANGED <<entries, topUp, payment, approval, target, unsettled>>
            /\ task[r].step \in {"open"} \cup TxSteps
        BY <2>1 DEF Open, Check, Read, OnTask, TxSteps
      <3>2. ASSUME Abort(r) PROVE FinishInv'
        <4>1. StepTo(r, "idle") \/ (StepTo(r, "rollback") /\ Crediting(r) /\ ~OnTask(r, "succeed"))
          BY <3>1, <3>2 DEF Abort, Crediting, OnTask, TxSteps
        <4>2. QED BY <3>1, <4>1, FinishGo DEF LedgerSteps
      <3>3. ASSUME NEW s \in {"check", "read"}, StepTo(r, s) PROVE FinishInv'
        BY <3>1, <3>3, FinishGo DEF LedgerSteps, TxSteps
      <3>4. CASE Read(r) /\ ~Abort(r)
        <4>1. task' = [task EXCEPT ![r].step = "commit", ![r].before = cached]
          BY <3>4 DEF Read
        <4>2. task \in [Handlers -> TaskState] /\ OnTask(r, "read")
          BY <3>4 DEF BookTypes, Read
        <4>3. /\ \A q \in Handlers : q # r => task'[q] = task[q]
              /\ task'[r].step = "commit" /\ task'[r].op = task[r].op /\ task'[r].of = task[r].of
              /\ task'[r].ref = task[r].ref
          BY <4>1, <4>2 DEF TaskState
        <4>4. Crediting(r)' <=> Crediting(r)
          BY <4>2, <4>3 DEF Crediting, OnTask, TxSteps
        <4>5. Paying(r)' => Paying(r)
          BY <4>3, <4>4 DEF Paying
        <4>6. Performs(r)
          BY DEF FinishInv
        <4>7. Performs(r)'
          BY <3>1, <4>2, <4>3, <4>4, <4>6 DEF Performs, OnTask, Credits
        <4>8. QED BY <3>1, <4>3, <4>5, <4>7, FinishCalm
      <3>5. QED BY <2>1, <3>2, <3>3, <3>4 DEF Open, Check
    <2>2. CASE CreateTopUpIntent(r) \/ CreditAtOnce(r) \/ SettleTopUp(r) \/ RestoreTopUp(r)
      <3>1. task[r].ref \in TopUps
        BY <2>2 DEF OwnKind, Belongs, CreateTopUpIntent, CreditAtOnce, SettleTopUp, RestoreTopUp, OnTask
      <3>2. QED BY <2>2, <3>1, FinishPay
    <2>3. CASE Review(r)
      <3>1. Performs(r) /\ task[r].step = "review" /\ task \in [Handlers -> TaskState]
        BY <2>3 DEF Review, OnTask, FinishInv, BookTypes
      <3>2. /\ UNCHANGED <<entries, topUp, payment, target, unsettled>>
            /\ \A p \in Approvals : approval'[p] = "APPROVED" =>
                 approval[p] = "APPROVED" \/ (p = task[r].ref /\ task[r].op = "approve")
        BY <2>3 DEF Review, BookTypes
      <3>3. /\ \A q \in Handlers : q # r => task'[q] = task[q]
            /\ task'[r].step = "idle" /\ task'[r].op = "none" /\ task'[r].ref = None
        BY <2>3, <3>1, GoTyped DEF Review, LedgerSteps
      <3>4. \A q \in Handlers : Performs(q)'
        <4>1. Performs(r)'
          BY <3>3, NoneAssumption DEF Performs, Crediting, TxSteps
        <4>2. ASSUME NEW q \in Handlers, q # r PROVE Performs(q)'
          BY <3>2, <3>3, <4>2 DEF FinishInv, Performs, Crediting, Credits, Reversed
        <4>3. QED BY <4>1, <4>2
      <3>5. OnePayer' /\ \A t \in TopUps : Credited(t)'
        BY <3>2, <3>3 DEF FinishInv, OnePayer, Paying, Crediting, Credited, Credits, TxSteps
      <3>6. ApprovedIsReversed'
        BY <3>1, <3>2 DEF FinishInv, ApprovedIsReversed, Performs, Reversed
      <3>7. QED BY <3>4, <3>5, <3>6 DEF FinishInv
    <2>4. QED BY <1>2, <2>1, <2>2, <2>3 DEF Proceed
  <1>3. ASSUME NEW r \in Handlers, LoseStatement(r) \/ Die(r) PROVE FinishInv'
    <2>1. UNCHANGED <<entries, topUp, payment, approval, target>> /\ unsettled \subseteq unsettled'
      BY <1>3 DEF LoseStatement, Die
    <2>2. \/ StepTo(r, "idle")
          \/ StepTo(r, "rollback") /\ Crediting(r) /\ (OnTask(r, "succeed") => task[r].ref \in unsettled')
      BY <1>3 DEF LoseStatement, Die, Crediting
    <2>3. QED BY <2>1, <2>2, FinishGo DEF LedgerSteps
  <1>4. ASSUME NEW t \in TopUps, FailTopUp(t) \/ PayTopUp(t) \/ PaymentRefused(t) PROVE FinishInv'
    <2>1. UNCHANGED <<entries, approval, target, unsettled, task>>
      BY <1>4 DEF FailTopUp, PayTopUp, PaymentRefused
    <2>2. /\ \A u \in TopUps : u # t => topUp'[u] = topUp[u] /\ payment'[u] = payment[u]
          /\ \/ topUp[t] \notin {"none", "SUCCEEDED"} /\ topUp'[t] = "FAILED" /\ payment'[t] = payment[t]
             \/ payment[t] \in {"REQUIRES_ACTION", "FAILED"} /\ payment'[t] \in {"SUCCEEDED", "FAILED"}
                  /\ topUp'[t] = topUp[t]
      BY <1>4 DEF FailTopUp, PayTopUp, PaymentRefused, BookTypes
    <2>3. Credited(t)'
      <3>1. Credited(t) /\ Credits(t)' = Credits(t)
        BY <2>1 DEF FinishInv, Credits
      <3>2. QED BY <2>1, <2>2, <3>1 DEF Credited
    <2>4. OnePayer'
      BY <2>1 DEF FinishInv, OnePayer, Paying, Crediting
    <2>5. ASSUME NEW q \in Handlers, Paying(q), task[q].ref = t PROVE Performs(q)'
      <3>1. Performs(q) /\ task'[q] = task[q]
        BY <2>1 DEF FinishInv
      <3>2. Credits(t)' = Credits(t) /\ Reversed(task[q].of)' = Reversed(task[q].of)
        BY <2>1 DEF Credits, Reversed
      <3>3. CASE task[q].step = "createIntent"
        <4>1. topUp[t] = "none" /\ payment[t] \in {"CREATED", "SUCCEEDED"}
          BY <2>5, <3>1, <3>3 DEF Performs
        <4>2. QED BY <2>2, <4>1
      <3>4. CASE Crediting(q)
        <4>1. topUp[t] \in {"PROCESSING", "FAILED"} /\ payment[t] = "SUCCEEDED"
          BY <2>5, <3>1, <3>4 DEF Performs
        <4>2. topUp'[t] \in {"PROCESSING", "FAILED"} /\ payment'[t] = "SUCCEEDED"
          BY <2>2, <4>1
        <4>3. Crediting(q)' /\ task[q].step # "createIntent" /\ task[q].op = "topUp"
          BY <3>1, <3>4 DEF Crediting, TxSteps
        <4>4. QED BY <2>1, <2>5, <3>1, <3>2, <3>4, <4>2, <4>3 DEF Performs, Credits
      <3>5. QED BY <2>5, <3>3, <3>4 DEF Paying
    <2>6. QED BY <2>5, <2>4, <2>3, <2>2, <2>1, FinishTopUp
  <1>5. ASSUME NEW p \in Approvals, RequestWalletReversal(p) PROVE FinishInv'
    <2>1. /\ UNCHANGED <<entries, topUp, payment, unsettled, task>> /\ approval[p] = "none"
          /\ \A o \in Approvals : o # p => approval'[o] = approval[o] /\ target'[o] = target[o]
          /\ approval'[p] = "PENDING"
      BY <1>5 DEF RequestWalletReversal, BookTypes
    <2>2. ASSUME NEW q \in Handlers PROVE Performs(q)'
      <3>1. task[q].op = "approve" => task[q].ref \in Approvals /\ task[q].ref # p
        BY <2>1 DEF FinishInv, Performs, OwnKind, Belongs
      <3>2. task[q].op = "approve" => target'[task[q].ref] = target[task[q].ref]
        BY <2>1, <3>1
      <3>3. Performs(q)
        BY DEF FinishInv
      <3>4. QED BY <2>1, <3>2, <3>3 DEF Performs, Crediting, Credits, Reversed
    <2>3. OnePayer' /\ \A t \in TopUps : Credited(t)'
      BY <2>1 DEF FinishInv, OnePayer, Paying, Crediting, Credited, Credits
    <2>4. ApprovedIsReversed'
      BY <2>1 DEF FinishInv, ApprovedIsReversed, Reversed
    <2>5. QED BY <2>2, <2>3, <2>4 DEF FinishInv
  <1>6. CASE SetFreeze \/ UNCHANGED ledgerVars
    BY <1>1, <1>6 DEF SetFreeze, ledgerVars
  <1>7. QED BY <1>2, <1>3, <1>4, <1>5, <1>6, FinishCommit, FinishArrive, FinishPay DEF LedgerNext, Arrive

\* What is marked as done is in the book, and once: a settled top-up was captured and is credited,
\* once unless its intent could not be settled after the credit, and an approved reversal was
\* executed, although status and book are written by separate statements that can fail
\* (creditWalletIfNeeded, approveWalletReversal).
THEOREM FinishedBooked == LedgerSpec => []FinishedIsBooked
  <1> DEFINE IInv == BookTypes /\ OwnKind /\ FinishInv
  <1>1. LedgerInit => IInv
    <2> SUFFICES ASSUME LedgerInit PROVE FinishInv
      BY InitTyped
    <2>1. \A r \in Handlers : task[r] = NoTask
      BY DEF LedgerInit
    <2>2. \A r \in Handlers : ~Paying(r) /\ Performs(r)
      BY <2>1, NoneAssumption DEF Paying, Crediting, Performs, NoTask, Local, TxSteps
    <2>3. \A t \in TopUps : Credited(t)
      BY DEF LedgerInit, Credited, Credits
    <2>4. QED BY <2>2, <2>3 DEF LedgerInit, FinishInv, OnePayer, ApprovedIsReversed
  <1>2. IInv /\ [LedgerNext]_ledgerVars => IInv'
    BY NextTyped, NextOwnKind, FinishNext
  <1>3. IInv => FinishedIsBooked
    <2>1. SUFFICES ASSUME IInv PROVE SettledIsCredited
      BY DEF FinishedIsBooked, FinishInv
    <2>2. QED BY <2>1 DEF FinishInv, Credited, SettledIsCredited
  <1>4. QED BY <1>1, <1>2, <1>3, PTL DEF LedgerSpec

=============================================================================
