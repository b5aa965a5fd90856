------------------------------- MODULE Ledger -------------------------------
(***************************************************************************)
(* A member's account: the stored wallet (WalletService) or the loyalty     *)
(* points (LoyaltyService), with every operation that appends to its ledger *)
(* and the cached balance kept beside it.                                   *)
(*                                                                          *)
(* Both services append in one READ COMMITTED transaction: an upsert of the *)
(* account's row, a read of the balance, the new entry, and a write of the  *)
(* new balance.  The transaction is split between the read and the write;   *)
(* entry and balance become visible together, at the commit.  The accounts  *)
(* share no row, so a behaviour is about one of them.                       *)
(***************************************************************************)
EXTENDS Integers, Sequences, FiniteSets

CONSTANTS
  Handlers,    \* backend requests that can be in flight at once
  TopUps,      \* wallet top-ups paid through Xendit
  Approvals,   \* requests for the reversal of a wallet transaction
  References,  \* legacy references of backfilled points
  Amounts,     \* amounts of the other appends: adjustments, orders, receipts, bonuses
  MaxEntries,  \* bound: no operation begins once the ledger is this long
  MaxFaults,   \* bound: statements that fail and requests that die
  None         \* no request, no top-up, no reference, no approval

ASSUME NoneAssumption == None \notin Handlers \cup TopUps \cup References \cup Approvals
ASSUME RefAssumption == References \cap (TopUps \cup Approvals) = {} /\ TopUps \cap Approvals = {}
ASSUME AmountAssumption == Amounts \subseteq Int \ {0}
ASSUME LedgerBounds == MaxEntries \in Nat /\ MaxFaults \in Nat

VARIABLES
  account,     \* "wallet" or "points"
  upsertLocks, \* whether Prisma's upsert with an empty update locks the row
  cached,      \* balance_cents or points_cached
  entries,     \* the ledger, oldest entry first
  owner,       \* the request whose transaction holds the lock of the row
  frozen,      \* is_frozen of the wallet
  topUp,       \* status of the payment intent of a top-up
  payment,     \* status of its payment request at Xendit
  notices,     \* top-ups for which Xendit has sent a failure notice
  approval,    \* status of the approval requests
  target,      \* the ledger entry an approval request is about
  unsettled,   \* history: top-ups credited whose intent could not be settled
  task,        \* local state of each request
  faults       \* statements that failed and requests that died so far

bookVars    == <<cached, entries>>
topUpVars   == <<topUp, payment, notices>>
reviewVars  == <<approval, target>>
settingVars == <<account, upsertLocks>>
ledgerVars  ==
  <<settingVars, bookVars, owner, frozen, topUpVars, reviewVars, unsettled, task, faults>>

TopUpStatus == {"none", "PENDING", "PROCESSING", "SUCCEEDED", "FAILED"}
PaymentStatus == {"none", "CREATED", "REQUIRES_ACTION", "SUCCEEDED", "FAILED"}
ApprovalStatus == {"none", "PENDING", "APPROVED", "REJECTED"}

\* of: the entry a reversal reverses, 0 for any other; ref: what the entry credits.
Entry == [amount : Int, before : Int, after : Int, of : Nat,
          ref : TopUps \cup References \cup {None}]

Operations == {"append", "backfill", "reverse", "approve", "topUp", "reject", "none"}
TxSteps == {"check", "read", "commit"}
LedgerSteps == {"idle", "createIntent", "claim", "open", "succeed", "rollback", "review"} \cup TxSteps

TaskState == [step : LedgerSteps, op : Operations, amount : Int, of : Nat,
               ref : TopUps \cup References \cup Approvals \cup {None}, before : Int]
Local(s, op, amount, of, ref) ==
  [step |-> s, op |-> op, amount |-> amount, of |-> of, ref |-> ref, before |-> 0]
NoTask == Local("idle", "none", 0, 0, None)

BookTypes ==
  /\ account \in {"wallet", "points"}
  /\ upsertLocks \in BOOLEAN
  /\ cached \in Int
  /\ entries \in Seq(Entry)
  /\ owner \in Handlers \cup {None}
  /\ frozen \in BOOLEAN
  /\ topUp \in [TopUps -> TopUpStatus]
  /\ payment \in [TopUps -> PaymentStatus]
  /\ notices \subseteq TopUps
  /\ approval \in [Approvals -> ApprovalStatus]
  /\ target \in [Approvals -> Nat]
  /\ unsettled \subseteq TopUps
  /\ task \in [Handlers -> TaskState]
  /\ faults \in 0..MaxFaults

LedgerInit ==
  /\ account \in {"wallet", "points"}
  /\ upsertLocks \in BOOLEAN
  /\ cached = 0
  /\ entries = <<>>
  /\ owner = None
  /\ frozen = FALSE
  /\ topUp = [t \in TopUps |-> "none"]
  /\ payment = [t \in TopUps |-> "none"]
  /\ notices = {}
  /\ approval = [p \in Approvals |-> "none"]
  /\ target = [p \in Approvals |-> 0]
  /\ unsettled = {}
  /\ task = [r \in Handlers |-> NoTask]
  /\ faults = 0

---------------------------------------------------------------------------
(* Local control *)

OnTask(r, s) == task[r].step = s

StepTo(r, s) == task' = [task EXCEPT ![r] = IF s = "idle" THEN NoTask ELSE [@ EXCEPT !.step = s]]

BeginTask(r, s, op, amount, of, ref) ==
  /\ OnTask(r, "idle")
  /\ task' = [task EXCEPT ![r] = Local(s, op, amount, of, ref)]

\* Bound: an operation that appends may begin.
Room == Len(entries) < MaxEntries

Reversing(r) == task[r].op \in {"reverse", "approve"}

\* Reversals and backfills of points take SELECT ... FOR UPDATE.
LocksRow(r) ==
  upsertLocks \/ (account = "points" /\ task[r].op \in {"reverse", "backfill"})

Unlock(r) == owner' = IF owner = r THEN None ELSE owner

---------------------------------------------------------------------------
(* The transaction of an append *)

\* Mutant: the upsert does not lock the row, whatever Prisma makes of it.
OpenUnlocked(r) ==
  /\ OnTask(r, "open")
  /\ StepTo(r, IF Reversing(r) \/ task[r].op = "backfill" THEN "check" ELSE "read")
  /\ UNCHANGED <<settingVars, bookVars, owner, frozen, topUpVars, reviewVars, unsettled, faults>>

\* Mutant: lockLoyaltyWallet leaves out its SELECT ... FOR UPDATE.
OpenUpsertOnly(r) ==
  /\ OnTask(r, "open")
  /\ IF upsertLocks THEN owner = None /\ owner' = r ELSE UNCHANGED owner
  /\ StepTo(r, IF Reversing(r) \/ task[r].op = "backfill" THEN "check" ELSE "read")
  /\ UNCHANGED <<settingVars, bookVars, frozen, topUpVars, reviewVars, unsettled, faults>>

\* ensureWalletInTx or lockLoyaltyWallet.
Open(r) ==
  /\ OnTask(r, "open")
  /\ IF LocksRow(r) THEN owner = None /\ owner' = r ELSE UNCHANGED owner
  /\ StepTo(r, IF Reversing(r) \/ task[r].op = "backfill" THEN "check" ELSE "read")
  /\ UNCHANGED <<settingVars, bookVars, frozen, topUpVars, reviewVars, unsettled, faults>>

\* Mutant: the error of a top-up's append is swallowed.
AbortSwallowed(r) ==
  /\ Unlock(r)
  /\ StepTo(r, IF task[r].op = "topUp" THEN "succeed" ELSE "idle")

\* An exception rolls the transaction back; a top-up then gives its claim back.
Abort(r) ==
  /\ Unlock(r)
  /\ StepTo(r, IF task[r].op = "topUp" THEN "rollback" ELSE "idle")

Reversed(k) == \E i \in DOMAIN entries : entries[i].of = k

\* Mutant: confirmDuplicate skips both duplicate checks of a backfill.
CheckConfirmed(r) ==
  /\ OnTask(r, "check")
  /\ \/ /\ Reversing(r)
        /\ entries[task[r].of].of # 0 \/ Reversed(task[r].of)
        /\ Abort(r)
     \/ /\ Reversing(r) => entries[task[r].of].of = 0 /\ ~Reversed(task[r].of)
        /\ StepTo(r, "read")
        /\ UNCHANGED owner
  /\ UNCHANGED <<settingVars, bookVars, frozen, topUpVars, reviewVars, unsettled, faults>>

\* A reversal is not reversed, an entry is reversed once, and a legacy reference is
\* backfilled once; a backfill that repeats a recent amount may also be refused.
Check(r) ==
  LET l == task[r]
  IN /\ OnTask(r, "check")
     /\ \/ /\ \/ Reversing(r) /\ (entries[l.of].of # 0 \/ Reversed(l.of))
              \/ l.op = "backfill"
           /\ Abort(r)
        \/ /\ Reversing(r) => entries[l.of].of = 0 /\ ~Reversed(l.of)
           /\ l.op = "backfill" => \A i \in DOMAIN entries : entries[i].ref # l.ref
           /\ StepTo(r, "read")
           /\ UNCHANGED owner
     /\ UNCHANGED <<settingVars, bookVars, frozen, topUpVars, reviewVars, unsettled, faults>>

\* A frozen wallet takes nothing but reversals, and no balance becomes negative.
Refused(r) ==
  \/ frozen /\ ~Reversing(r)
  \/ cached + task[r].amount < 0

Read(r) ==
  /\ OnTask(r, "read")
  /\ IF Refused(r)
     THEN Abort(r)
     ELSE /\ task' = [task EXCEPT ![r].step = "commit", ![r].before = cached]
          /\ UNCHANGED owner
  /\ UNCHANGED <<settingVars, bookVars, frozen, topUpVars, reviewVars, unsettled, faults>>

\* The update of the row waits for its lock.
Commit(r) ==
  LET l == task[r]
      after == l.before + l.amount
  IN /\ OnTask(r, "commit")
     /\ owner \in {None, r}
     /\ entries' = Append(entries, [amount |-> l.amount, before |-> l.before, after |-> after,
                                    of |-> l.of,
                                    ref |-> IF l.ref \in Approvals THEN None ELSE l.ref])
     /\ cached' = after
     /\ Unlock(r)
     /\ StepTo(r, CASE l.op = "topUp" -> "succeed" [] l.op = "approve" -> "review" [] OTHER -> "idle")
     /\ UNCHANGED <<settingVars, frozen, topUpVars, reviewVars, unsettled, faults>>

---------------------------------------------------------------------------
(* The operations *)

\* Admin adjustments, orders, POS receipts, campaign bonuses, cashier top-ups.
AppendEntry(r) ==
  /\ Room
  /\ \E amount \in Amounts : BeginTask(r, "open", "append", amount, 0, None)
  /\ UNCHANGED <<settingVars, bookVars, owner, frozen, topUpVars, reviewVars, unsettled, faults>>

\* backfillCustomerLoyalty
Backfill(r, ref) ==
  /\ account = "points"
  /\ Room
  /\ \E amount \in Amounts : BeginTask(r, "open", "backfill", amount, 0, ref)
  /\ UNCHANGED <<settingVars, bookVars, owner, frozen, topUpVars, reviewVars, unsettled, faults>>

\* reverseWalletTransaction and reverseLoyaltyEntry
Reverse(r) ==
  /\ Room
  /\ \E k \in DOMAIN entries : BeginTask(r, "open", "reverse", -entries[k].amount, k, None)
  /\ UNCHANGED <<settingVars, bookVars, owner, frozen, topUpVars, reviewVars, unsettled, faults>>

SetFreeze ==
  /\ account = "wallet"
  /\ owner = None
  /\ frozen' = ~frozen
  /\ UNCHANGED <<settingVars, bookVars, owner, topUpVars, reviewVars, unsettled, task, faults>>

RequestWalletReversal(p) ==
  /\ account = "wallet"
  /\ approval[p] = "none"
  /\ \E k \in DOMAIN entries : target' = [target EXCEPT ![p] = k]
  /\ approval' = [approval EXCEPT ![p] = "PENDING"]
  /\ UNCHANGED <<settingVars, bookVars, owner, frozen, topUpVars, unsettled, task, faults>>

\* Mutant: the request is marked before the reversal is done.
ApproveFirst(r, p) ==
  /\ approval[p] = "PENDING"
  /\ Room
  /\ approval' = [approval EXCEPT ![p] = "APPROVED"]
  /\ BeginTask(r, "open", "approve", -entries[target[p]].amount, target[p], p)
  /\ UNCHANGED <<settingVars, bookVars, owner, frozen, topUpVars, target, unsettled, faults>>

\* approveWalletReversal: a read of the status, the reversal, and then the status.
ApproveWalletReversal(r, p) ==
  /\ approval[p] = "PENDING"
  /\ Room
  /\ BeginTask(r, "open", "approve", -entries[target[p]].amount, target[p], p)
  /\ UNCHANGED <<settingVars, bookVars, owner, frozen, topUpVars, reviewVars, unsettled, faults>>

RejectWalletReversal(r, p) ==
  /\ approval[p] = "PENDING"
  /\ BeginTask(r, "review", "reject", 0, 0, p)
  /\ UNCHANGED <<settingVars, bookVars, owner, frozen, topUpVars, reviewVars, unsettled, faults>>

\* The update by id that ends an approval or a rejection.
Review(r) ==
  /\ OnTask(r, "review")
  /\ approval' = [approval EXCEPT ![task[r].ref] =
                    IF task[r].op = "approve" THEN "APPROVED" ELSE "REJECTED"]
  /\ StepTo(r, "idle")
  /\ UNCHANGED <<settingVars, bookVars, owner, frozen, topUpVars, target, unsettled, faults>>

---------------------------------------------------------------------------
(* Wallet top-ups through Xendit *)

\* createWalletTopUpSession; Xendit may capture the payment before it answers.
StartTopUp(r, t) ==
  /\ account = "wallet"
  /\ payment[t] = "none"
  /\ Room
  /\ \E s \in {"CREATED", "SUCCEEDED"} : payment' = [payment EXCEPT ![t] = s]
  /\ BeginTask(r, "createIntent", "topUp", 1, 0, t)
  /\ UNCHANGED <<settingVars, bookVars, owner, frozen, topUp, notices, reviewVars, unsettled, faults>>

\* Then the payer gets the redirect URL, or the checkout applies the capture itself.
CreateTopUpIntent(r) ==
  LET t == task[r].ref
  IN /\ OnTask(r, "createIntent")
     /\ topUp' = [topUp EXCEPT ![t] = "PENDING"]
     /\ payment' = [payment EXCEPT ![t] = IF @ = "CREATED" THEN "REQUIRES_ACTION" ELSE @]
     /\ StepTo(r, IF payment[t] = "CREATED" THEN "idle" ELSE "claim")
     /\ UNCHANGED <<settingVars, bookVars, owner, frozen, notices, reviewVars, unsettled, faults>>

\* Mutant: the claim accepts an intent that is being credited.
ClaimTopUpAgain(r, t) ==
  /\ payment[t] = "SUCCEEDED"
  /\ topUp[t] \in {"PENDING", "PROCESSING"}
  /\ topUp' = [topUp EXCEPT ![t] = "PROCESSING"]
  /\ task' = [task EXCEPT ![r] = Local("open", "topUp", 1, 0, t)]

\* The claim of creditWalletIfNeeded, on a payment Xendit says it has captured.
ClaimTopUp(r, t) ==
  /\ payment[t] = "SUCCEEDED"
  /\ topUp[t] = "PENDING"
  /\ topUp' = [topUp EXCEPT ![t] = "PROCESSING"]
  /\ task' = [task EXCEPT ![r] = Local("open", "topUp", 1, 0, t)]

\* A webhook or a status poll; the claim of a checkout that saw the capture.
CreditTopUp(r, t) ==
  /\ OnTask(r, "idle")
  /\ ClaimTopUp(r, t)
  /\ UNCHANGED <<settingVars, bookVars, owner, frozen, payment, notices, reviewVars, unsettled, faults>>

CreditAtOnce(r) ==
  /\ OnTask(r, "claim")
  /\ \/ ClaimTopUp(r, task[r].ref)
     \/ topUp[task[r].ref] # "PENDING" /\ StepTo(r, "idle") /\ UNCHANGED topUp
  /\ UNCHANGED <<settingVars, bookVars, owner, frozen, payment, notices, reviewVars, unsettled, faults>>

\* Mutant: the intent gets a status nobody knows.
SettleTopUpPaid(r) ==
  /\ OnTask(r, "succeed")
  /\ topUp' = [topUp EXCEPT ![task[r].ref] = "PAID"]
  /\ StepTo(r, "idle")
  /\ UNCHANGED <<settingVars, bookVars, owner, frozen, payment, notices, reviewVars, unsettled, faults>>

SettleTopUp(r) ==
  /\ OnTask(r, "succeed")
  /\ topUp' = [topUp EXCEPT ![task[r].ref] = "SUCCEEDED"]
  /\ StepTo(r, "idle")
  /\ UNCHANGED <<settingVars, bookVars, owner, frozen, payment, notices, reviewVars, unsettled, faults>>

RestoreTopUp(r) ==
  /\ OnTask(r, "rollback")
  /\ topUp' = [topUp EXCEPT ![task[r].ref] = "PENDING"]
  /\ StepTo(r, "idle")
  /\ UNCHANGED <<settingVars, bookVars, owner, frozen, payment, notices, reviewVars, unsettled, faults>>

\* handleXenditWebhook, payment.failure
FailTopUp(t) ==
  /\ t \in notices
  /\ topUp[t] \notin {"none", "SUCCEEDED"}
  /\ topUp' = [topUp EXCEPT ![t] = "FAILED"]
  /\ UNCHANGED <<settingVars, bookVars, owner, frozen, payment, notices, reviewVars, unsettled, task, faults>>

PayTopUp(t) ==
  /\ payment[t] \in {"REQUIRES_ACTION", "FAILED"}
  /\ payment' = [payment EXCEPT ![t] = "SUCCEEDED"]
  /\ UNCHANGED <<settingVars, bookVars, owner, frozen, topUp, notices, reviewVars, unsettled, task, faults>>

PaymentRefused(t) ==
  /\ payment[t] = "REQUIRES_ACTION"
  /\ payment' = [payment EXCEPT ![t] = "FAILED"]
  /\ notices' = notices \cup {t}
  /\ UNCHANGED <<settingVars, bookVars, owner, frozen, topUp, reviewVars, unsettled, task, faults>>

---------------------------------------------------------------------------
(* Failing statements and dying requests: both roll an open transaction back *)

LoseStatement(r) ==
  /\ faults < MaxFaults
  /\ ~OnTask(r, "idle")
  /\ faults' = faults + 1
  /\ Unlock(r)
  /\ StepTo(r, IF task[r].step \in {"open", "succeed"} \cup TxSteps /\ task[r].op = "topUp"
           THEN "rollback" ELSE "idle")
  /\ unsettled' = IF OnTask(r, "succeed") THEN unsettled \cup {task[r].ref} ELSE unsettled
  /\ UNCHANGED <<settingVars, bookVars, frozen, topUpVars, reviewVars>>

Die(r) ==
  /\ faults < MaxFaults
  /\ ~OnTask(r, "idle")
  /\ faults' = faults + 1
  /\ Unlock(r)
  /\ StepTo(r, "idle")
  /\ UNCHANGED <<settingVars, bookVars, frozen, topUpVars, reviewVars, unsettled>>

---------------------------------------------------------------------------
Proceed(r) ==
  \/ Open(r) \/ Check(r) \/ Read(r) \/ Commit(r) \/ Review(r)
  \/ CreateTopUpIntent(r) \/ CreditAtOnce(r) \/ SettleTopUp(r) \/ RestoreTopUp(r)

Arrive(r) ==
  \/ AppendEntry(r) \/ Reverse(r)
  \/ \E ref \in References : Backfill(r, ref)
  \/ \E p \in Approvals : ApproveWalletReversal(r, p) \/ RejectWalletReversal(r, p)
  \/ \E t \in TopUps : StartTopUp(r, t) \/ CreditTopUp(r, t)

LedgerNext ==
  \/ \E r \in Handlers : Proceed(r) \/ Arrive(r) \/ LoseStatement(r) \/ Die(r)
  \/ \E t \in TopUps : FailTopUp(t) \/ PayTopUp(t) \/ PaymentRefused(t)
  \/ \E p \in Approvals : RequestWalletReversal(p)
  \/ SetFreeze

LedgerSpec == LedgerInit /\ [][LedgerNext]_ledgerVars

---------------------------------------------------------------------------
(* Properties *)

\* Where the next entry has to start.
Balance(es) == IF es = <<>> THEN 0 ELSE es[Len(es)].after

\* If the upsert locks the row, no append is lost: every entry starts from the balance
\* its predecessor left, and the cached balance is the last one, whatever requests
\* append, reverse, fail or die at the same time.
Chained ==
  upsertLocks =>
    /\ cached = Balance(entries)
    /\ \A i \in DOMAIN entries :
         /\ entries[i].after = entries[i].before + entries[i].amount
         /\ entries[i].before = IF i = 1 THEN 0 ELSE entries[i - 1].after

\* Two reversals of one entry, direct or approved, do not both happen.  The wallet has
\* only its upsert to thank for it, the points their explicit lock.
ReversedOnce ==
  account = "points" \/ upsertLocks =>
    \A i, j \in DOMAIN entries : entries[i].of # 0 /\ entries[i].of = entries[j].of => i = j

\* A legacy reference is backfilled once, also by two submits at the same time.
BackfilledOnce ==
  \A i, j \in DOMAIN entries :
    entries[i].ref \in References /\ entries[i].ref = entries[j].ref => i = j

\* A correction of the book is made once, whoever asks for it again at the same time
\* (reverseTransaction, reverseLoyaltyEntry, backfillCustomerLoyalty).
CorrectedOnce == ReversedOnce /\ BackfilledOnce

Credits(t) == {i \in DOMAIN entries : entries[i].ref = t}

\* A settled top-up was captured, and its money is in the ledger; a top-up found captured by
\* webhook, poll and checkout is credited once, unless its intent could not be settled after
\* the credit: then it is PENDING again.
SettledIsCredited ==
  \A t \in TopUps :
    /\ topUp[t] = "SUCCEEDED" => payment[t] = "SUCCEEDED" /\ Credits(t) # {}
    /\ t \notin unsettled => \A i, j \in Credits(t) : i = j

\* A reversal request that ends APPROVED was executed, also when it was rejected, or its
\* transaction reversed directly, at the same time.
ApprovedIsReversed == \A p \in Approvals : approval[p] = "APPROVED" => Reversed(target[p])

\* What is marked as done is in the book, and once: a top-up that is settled, a reversal that
\* is approved (creditWalletIfNeeded, approve).
FinishedIsBooked == SettledIsCredited /\ ApprovedIsReversed

---------------------------------------------------------------------------
(* Why it works: the inductive invariant behind Chained, ReversedOnce and
   BackfilledOnce *)

\* A transaction that locks the row has the lock from its first check to its end.
LockHeld == \A r \in Handlers : task[r].step \in TxSteps /\ LocksRow(r) => owner = r

\* The balance a transaction has read is still the balance.
ReadFresh == upsertLocks => \A r \in Handlers : OnTask(r, "commit") => task[r].before = cached

\* What a transaction has checked is still so: nobody has reversed its entry, nor
\* backfilled its reference.
CheckHeld ==
  \A r \in Handlers : task[r].step \in {"read", "commit"} =>
    /\ Reversing(r) /\ LocksRow(r) /\ task[r].of # 0 => ~Reversed(task[r].of)
    /\ task[r].op = "backfill" => \A i \in DOMAIN entries : entries[i].ref # task[r].ref

\* What a request carries fits its operation: references belong to backfills, top-ups to
\* credits, entries to reversals, and an approval to a request that was made.
Belongs(r) ==
  LET l == task[r]
  IN /\ l.op = "approve" => account = "wallet"
     /\ l.op = "backfill" => account = "points"
     /\ l.op # "backfill" => l.ref \notin References
     /\ l.op = "topUp" \/ l.step \in {"createIntent", "claim", "succeed", "rollback"} =>
          l.ref \in TopUps
     /\ l.ref \in Approvals => approval[l.ref] # "none"
     /\ ~Reversing(r) => l.of = 0

\* Approvals are about entries of the wallet.
OwnKind ==
  /\ \A p \in Approvals : approval[p] # "none" =>
       account = "wallet" /\ target[p] \in DOMAIN entries
  /\ \A r \in Handlers : Belongs(r)

\* Appends, reversals, backfills and top-ups together keep all of this.
LedgerInv ==
  LockHeld /\ ReadFresh /\ CheckHeld /\ OwnKind /\ Chained /\ ReversedOnce /\ BackfilledOnce
=============================================================================
