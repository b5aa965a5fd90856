----------------------------- MODULE ShopOrder ------------------------------
(***************************************************************************)
(* The sale of a shop order: checkout with a promotion, payment through     *)
(* Xendit, finalization, and what the promotion costs the member.           *)
(*                                                                          *)
(* All orders are of one member, and those with a promotion use the same    *)
(* one: a campaign voucher, which checkout locks; a catalogue voucher, which *)
(* it only reads; or a reward paid with points.  An action is a statement,  *)
(* or a transaction none of whose parts another request can see or change.  *)
(***************************************************************************)
EXTENDS Integers, FiniteSets

CONSTANTS
  Orders,              \* calls of createShopOrderCheckout
  Requests,            \* backend requests that can be in flight at once
  StartPoints,         \* the member's points at the start
  PointsCost,          \* points the reward costs
  PointsEarned,        \* points an order earns
  MaxMishaps,          \* bound: statements that fail and requests that die
  Surprises,           \* bound: what may be allowed, see "allowed"
  NoOrder

ASSUME OrderAssumption == NoOrder \notin Orders
ASSUME PointAssumption == {StartPoints, PointsCost, PointsEarned} \subseteq Nat
ASSUME MishapAssumption == MaxMishaps \in Nat
ASSUME SurpriseAssumption == Surprises \subseteq {"lapse", "instant", "recapture"}

VARIABLES
  promotion,  \* the kind of promotion: "voucher", "catalogue" or "points"
  demoMode,   \* PAYMENTS_DEMO_MODE
  allowed,    \* what may happen: a payment outlasts the 15 minutes of a lock ("lapse"),
              \* Xendit captures before it answers the checkout ("instant"), or a failed
              \* payment is tried again and captured ("recapture")
  order,      \* CustomerOrder.status
  uses,       \* orders that carry the promotion
  discounted, \* orders whose total it reduced
  free,       \* orders it reduced to nothing
  awarded,    \* history: how often the points of an order were awarded
  spent,      \* history: how often the reward of an order was paid for
  points,     \* the member's points
  referrals,  \* history: how often the member's referrer was rewarded
  voucher,    \* status of the voucher; ISSUED and REDEEMED are ACTIVE and USED here
  lockToken,  \* the order whose lock token the voucher has
  lapsed,     \* whether lock_expires_at has passed
  redemption, \* VoucherRedemption.status of an order
  storeUses,  \* history: how often the voucher was redeemed in the store
  intent,     \* PaymentIntent.status of an order
  xendit,     \* status of its payment request at Xendit
  failures,   \* orders for which Xendit has sent a failure notice
  retried,    \* history: orders whose intent could not be settled after the promotion
  holder,     \* the request whose transaction has updated the stored wallet's row
  req,        \* local state of each request
  mishaps     \* statements that failed and requests that died so far

settings    == <<promotion, demoMode, allowed>>
orderVars   == <<order, uses, discounted, free, awarded, referrals>>
pointVars   == <<spent, points>>
voucherVars == <<voucher, lockToken, lapsed, redemption, storeUses>>
payVars     == <<intent, xendit, failures>>
vars == <<settings, orderVars, pointVars, voucherVars, payVars, retried, holder, req, mishaps>>

OrderStatus == {"none", "pending_payment", "placed", "completed"}
VoucherStatus == {"ACTIVE", "LOCKED", "USED", "VOID"}
RedemptionStatus == {"none", "LOCKED", "CONFIRMED", "RELEASED"}
IntentStatus == {"none", "PENDING", "PROCESSING", "SUCCEEDED", "FAILED"}
XenditStatus == {"none", "CREATED", "REQUIRES_ACTION", "SUCCEEDED", "FAILED"}

InOrderTx == {"referral", "award", "reward"}  \* the wallet's row is locked
ApplySteps == {"finalize", "place", "promote", "use", "succeed"} \cup InOrderTx
Steps == {"idle", "discount", "create", "request", "intent", "claim", "reply", "rollback",
          "fail", "storeUse", "revoke"} \cup ApplySteps

\* Who wants the order finalized: a checkout that saw the capture, a webhook or poll, a
\* checkout with nothing to pay, one in demo mode, or the button of the demo.
Callers == {"none", "checkout", "notice", "free", "demo", "button"}

LocalState == [step : Steps, at : Orders \cup {NoOrder}, caller : Callers]
Idle == [step |-> "idle", at |-> NoOrder, caller |-> "none"]

TypeOK ==
  /\ promotion \in {"voucher", "catalogue", "points"} /\ demoMode \in BOOLEAN
  /\ allowed \subseteq Surprises
  /\ order \in [Orders -> OrderStatus]
  /\ uses \subseteq Orders /\ discounted \subseteq uses /\ free \subseteq discounted
  /\ awarded \in [Orders -> Nat] /\ spent \in [Orders -> Nat]
  /\ points \in Nat /\ referrals \in Nat /\ storeUses \in Nat
  /\ voucher \in VoucherStatus /\ lockToken \in Orders \cup {NoOrder} /\ lapsed \in BOOLEAN
  /\ redemption \in [Orders -> RedemptionStatus]
  /\ intent \in [Orders -> IntentStatus] /\ xendit \in [Orders -> XenditStatus]
  /\ failures \subseteq Orders /\ retried \subseteq Orders
  /\ holder \subseteq Requests
  /\ req \in [Requests -> LocalState]
  /\ mishaps \in 0..MaxMishaps

Init ==
  /\ promotion \in {"voucher", "catalogue", "points"} /\ demoMode \in BOOLEAN
  /\ allowed \in {{}, Surprises}
  /\ order = [o \in Orders |-> "none"]
  /\ uses = {} /\ discounted = {} /\ free = {}
  /\ awarded = [o \in Orders |-> 0] /\ spent = [o \in Orders |-> 0]
  /\ points = StartPoints /\ referrals = 0 /\ storeUses = 0
  /\ voucher = "ACTIVE" /\ lockToken = NoOrder /\ lapsed = FALSE
  /\ redemption = [o \in Orders |-> "none"]
  /\ intent = [o \in Orders |-> "none"] /\ xendit = [o \in Orders |-> "none"]
  /\ failures = {} /\ retried = {}
  /\ holder = {}
  /\ req = [r \in Requests |-> Idle]
  /\ mishaps = 0

---------------------------------------------------------------------------
(* Local control *)

At(r, s) == req[r].step = s
It(r) == req[r].at

Go(r, s) == req' = [req EXCEPT ![r] = IF s = "idle" THEN Idle ELSE [@ EXCEPT !.step = s]]

Begin(r, s, o, caller) ==
  /\ At(r, "idle")
  /\ req' = [req EXCEPT ![r] = [step |-> s, at |-> o, caller |-> caller]]

Applying(r) == req[r].caller \in {"checkout", "notice"} /\ req[r].step \in ApplySteps

\* Mutant: an exception in a finalization is only logged.
ThrowIgnored(r) == Go(r, IF Applying(r) THEN "succeed" ELSE "idle")

\* An exception in a finalization gives the claim back; elsewhere it ends the request.
Throw(r) == Go(r, IF Applying(r) THEN "rollback" ELSE "idle")

\* applyShopOrderFromXendit returns.
Return(r) == Go(r, IF req[r].caller = "checkout" THEN "reply" ELSE "idle")

---------------------------------------------------------------------------
(* The campaign voucher *)

\* Mutant: the conditional update does not look at the expiry of the lock.
LockableAny == voucher \in {"ACTIVE", "LOCKED"}

Lockable == voucher = "ACTIVE" \/ (voucher = "LOCKED" /\ lapsed)

\* releaseVoucherLock
Release(o) ==
  /\ IF lockToken = o /\ voucher = "LOCKED"
     THEN voucher' = "ACTIVE" /\ lockToken' = NoOrder /\ lapsed' = FALSE
     ELSE UNCHANGED <<voucher, lockToken, lapsed>>
  /\ redemption' = [redemption EXCEPT ![o] = IF @ = "LOCKED" THEN "RELEASED" ELSE @]
  /\ UNCHANGED storeUses

\* Time passes.
Lapse ==
  /\ "lapse" \in allowed
  /\ voucher = "LOCKED" /\ ~lapsed
  /\ lapsed' = TRUE
  /\ UNCHANGED <<settings, orderVars, pointVars, voucher, lockToken, redemption, storeUses,
                 payVars, retried, holder, req, mishaps>>

\* redeemVoucherInStore: one conditional update for a campaign voucher; for a catalogue
\* voucher a read, and then an update by id.
RedeemInStore(r) ==
  /\ At(r, "idle")
  /\ \/ /\ promotion = "voucher" /\ Lockable
        /\ voucher' = "USED" /\ lockToken' = NoOrder /\ lapsed' = FALSE
        /\ storeUses' = storeUses + 1
        /\ UNCHANGED <<redemption, req>>
     \/ /\ promotion = "catalogue" /\ voucher = "ACTIVE"
        /\ Begin(r, "storeUse", NoOrder, "none")
        /\ UNCHANGED voucherVars
  /\ UNCHANGED <<settings, orderVars, pointVars, payVars, retried, holder, mishaps>>

StoreUse(r) ==
  /\ At(r, "storeUse")
  /\ voucher' = "USED"
  /\ storeUses' = storeUses + 1
  /\ Go(r, "idle")
  /\ UNCHANGED <<settings, orderVars, pointVars, lockToken, lapsed, redemption, payVars, retried,
                 holder, mishaps>>

\* revokeVoucher and revokeCustomerVoucher: a read of the status, and then the withdrawal.
Revoke(r) ==
  /\ \/ promotion = "voucher" /\ voucher \notin {"USED", "VOID"}
     \/ promotion = "catalogue" /\ voucher = "ACTIVE"
  /\ Begin(r, "revoke", NoOrder, "none")
  /\ UNCHANGED <<settings, orderVars, pointVars, voucherVars, payVars, retried, holder, mishaps>>

Withdraw(r) ==
  /\ At(r, "revoke")
  /\ voucher' = "VOID" /\ lockToken' = NoOrder /\ lapsed' = FALSE
  /\ redemption' = [o \in Orders |-> IF redemption[o] = "LOCKED" THEN "RELEASED" ELSE redemption[o]]
  /\ Go(r, "idle")
  /\ UNCHANGED <<settings, orderVars, pointVars, storeUses, payVars, retried, holder, mishaps>>

---------------------------------------------------------------------------
(* createShopOrderCheckout *)

New(o) ==
  /\ order[o] = "none" /\ o \notin uses
  /\ \A r \in Requests : It(r) # o

\* Without a promotion the order goes straight to its creation.
CheckoutPlain(r, o) ==
  /\ New(o)
  /\ Begin(r, "create", o, "checkout")
  /\ UNCHANGED <<settings, orderVars, pointVars, voucherVars, payVars, retried, holder, mishaps>>

\* validateAndLockVoucher
LockVoucher(r, o) ==
  /\ New(o)
  /\ promotion = "voucher" /\ Lockable
  /\ voucher' = "LOCKED" /\ lockToken' = o /\ lapsed' = FALSE
  /\ redemption' = [redemption EXCEPT ![o] = "LOCKED"]
  /\ uses' = uses \cup {o}
  /\ Begin(r, "discount", o, "checkout")
  /\ UNCHANGED <<settings, order, discounted, free, awarded, referrals, pointVars, storeUses,
                 payVars, retried, holder, mishaps>>

\* computeLockedVoucherDiscount finds no discount if the lock is gone.
Discount(r) ==
  /\ At(r, "discount")
  /\ discounted' = IF lockToken = It(r) /\ voucher = "LOCKED"
                   THEN discounted \cup {It(r)} ELSE discounted
  /\ Go(r, "create")
  /\ UNCHANGED <<settings, order, uses, free, awarded, referrals, pointVars, voucherVars, payVars,
                 retried, holder, mishaps>>

\* A catalogue voucher, and a reward for points, are only looked at.
CheckPromotion(r, o) ==
  /\ New(o)
  /\ \/ promotion = "catalogue" /\ voucher = "ACTIVE"
     \/ promotion = "points" /\ points >= PointsCost
  /\ uses' = uses \cup {o} /\ discounted' = discounted \cup {o}
  /\ Begin(r, "create", o, "checkout")
  /\ UNCHANGED <<settings, order, free, awarded, referrals, pointVars, voucherVars, payVars,
                 retried, holder, mishaps>>

\* The amount or the channel is refused, after the lock has been taken.
Refuse(r) ==
  /\ At(r, "create") /\ ~demoMode
  /\ Go(r, "idle")
  /\ UNCHANGED <<settings, orderVars, pointVars, voucherVars, payVars, retried, holder, mishaps>>

\* createPendingMemberOrder: in demo mode, with nothing left to pay, or before the payment.
CreateOrder(r) ==
  /\ At(r, "create")
  /\ order' = [order EXCEPT ![It(r)] = "pending_payment"]
  /\ \/ demoMode /\ free' = free
        /\ req' = [req EXCEPT ![r].step = "promote", ![r].caller = "demo"]
     \/ ~demoMode /\ It(r) \in discounted /\ free' = free \cup {It(r)}
        /\ req' = [req EXCEPT ![r].step = "finalize", ![r].caller = "free"]
     \/ ~demoMode /\ free' = free /\ Go(r, "request")
  /\ UNCHANGED <<settings, uses, discounted, awarded, referrals, pointVars, voucherVars, payVars,
                 retried, holder, mishaps>>

RequestPayment(r) ==
  /\ At(r, "request")
  /\ \E s \in {"CREATED"} \cup (IF "instant" \in allowed THEN {"SUCCEEDED"} ELSE {}) :
       xendit' = [xendit EXCEPT ![It(r)] = s]
  /\ Go(r, "intent")
  /\ UNCHANGED <<settings, orderVars, pointVars, voucherVars, intent, failures, retried, holder,
                 mishaps>>

CreateIntent(r) ==
  /\ At(r, "intent")
  /\ intent' = [intent EXCEPT ![It(r)] = "PENDING"]
  /\ Go(r, IF xendit[It(r)] = "SUCCEEDED" THEN "claim" ELSE "reply")
  /\ UNCHANGED <<settings, orderVars, pointVars, voucherVars, xendit, failures, retried, holder,
                 mishaps>>

\* The member gets the link to pay.  A payment captured at once has none, and a checkout
\* without link gives its lock back.
Reply(r) ==
  /\ At(r, "reply")
  /\ LET o == It(r) IN
       /\ xendit' = [xendit EXCEPT ![o] = IF @ = "CREATED" THEN "REQUIRES_ACTION" ELSE @]
       /\ IF xendit[o] = "SUCCEEDED" /\ redemption[o] # "none"
          THEN Release(o) ELSE UNCHANGED voucherVars
  /\ Go(r, "idle")
  /\ UNCHANGED <<settings, orderVars, pointVars, intent, failures, retried, holder, mishaps>>

---------------------------------------------------------------------------
(* applyShopOrderFromXendit and what it calls *)

\* Mutant: the payment is read and then taken without a condition.
ClaimAny(r) ==
  /\ At(r, "claim")
  /\ IF intent[It(r)] # "SUCCEEDED"
     THEN intent' = [intent EXCEPT ![It(r)] = "PROCESSING"] /\ Go(r, "finalize")
     ELSE UNCHANGED intent /\ Return(r)
  /\ UNCHANGED <<settings, orderVars, pointVars, voucherVars, xendit, failures, retried, holder,
                 mishaps>>

\* The payment is taken by one conditional update, PENDING to PROCESSING.
Claim(r) ==
  /\ At(r, "claim")
  /\ IF intent[It(r)] = "PENDING"
     THEN intent' = [intent EXCEPT ![It(r)] = "PROCESSING"] /\ Go(r, "finalize")
     ELSE UNCHANGED intent /\ Return(r)
  /\ UNCHANGED <<settings, orderVars, pointVars, voucherVars, xendit, failures, retried, holder,
                 mishaps>>

\* Mutant: a poll that does not look at the status Xendit reports.
SettleAny(r, o) ==
  /\ intent[o] # "none"
  /\ Begin(r, "claim", o, "notice")
  /\ UNCHANGED <<settings, orderVars, pointVars, voucherVars, payVars, retried, holder, mishaps>>

\* A capture webhook or a status poll finds the payment captured.
Settle(r, o) ==
  /\ xendit[o] = "SUCCEEDED" /\ intent[o] # "none"
  /\ Begin(r, "claim", o, "notice")
  /\ UNCHANGED <<settings, orderVars, pointVars, voucherVars, payVars, retried, holder, mishaps>>

\* Mutants: an order is finalized unless it is completed, or in any case.
AwaitingOpen(o) == order[o] \in {"pending_payment", "placed"}
AwaitingAny(o) == order[o] # "none"

Awaiting(o) == order[o] = "pending_payment"

AfterOrder(r) == IF req[r].caller = "button" THEN "idle" ELSE "promote"

\* finalizeShopOrderAfterPayment reads the status in its transaction, which locks nothing.
ReadOrder(r) ==
  /\ At(r, "finalize")
  /\ Go(r, IF Awaiting(It(r)) THEN "place" ELSE AfterOrder(r))
  /\ UNCHANGED <<settings, orderVars, pointVars, voucherVars, payVars, retried, holder, mishaps>>

\* Mutant: the stored wallet is not touched before the referrer is looked at.
PlaceUnlocked(r) ==
  /\ At(r, "place")
  /\ Go(r, "referral")
  /\ UNCHANGED <<settings, orderVars, pointVars, voucherVars, payVars, retried, holder, mishaps>>

\* The order and the stored wallet are updated.  Nobody sees it before the commit, but the
\* wallet's row, the same for all orders of a member, stays locked until then.
Place(r) ==
  /\ At(r, "place") /\ holder = {}
  /\ holder' = {r}
  /\ Go(r, "referral")
  /\ UNCHANGED <<settings, orderVars, pointVars, voucherVars, payVars, retried, mishaps>>

PaidOrders == {o \in Orders : order[o] \in {"placed", "completed"}}

\* maybeRewardReferrerOnFirstOrder counts the orders that are committed, and its own.
Referral(r) ==
  /\ At(r, "referral")
  /\ Go(r, IF PaidOrders \cup {It(r)} = {It(r)} /\ referrals = 0 THEN "reward" ELSE "award")
  /\ UNCHANGED <<settings, orderVars, pointVars, voucherVars, payVars, retried, holder, mishaps>>

\* The commit: an order with nothing to pay earns no points.
Award(r) ==
  /\ At(r, "award") \/ At(r, "reward")
  /\ LET o == It(r) IN
       /\ order' = [order EXCEPT ![o] = "placed"]
       /\ awarded' = [awarded EXCEPT ![o] = @ + 1]
       /\ points' = IF o \in free THEN points ELSE points + PointsEarned
  /\ referrals' = IF At(r, "reward") THEN referrals + 1 ELSE referrals
  /\ holder' = holder \ {r}
  /\ Go(r, AfterOrder(r))
  /\ UNCHANGED <<settings, uses, discounted, free, spent, voucherVars, payVars, retried, mishaps>>

AfterPromotions(r) == IF req[r].caller \in {"free", "demo"} THEN "idle" ELSE "succeed"

\* finalizeShopPromotions.  The voucher is looked up by its lock token and then written by
\* id; the catalogue voucher is written only if it is still there; and the points are
\* taken only if there are enough.
Promote(r) ==
  /\ At(r, "promote")
  /\ LET o == It(r) IN
       \/ /\ o \in uses /\ promotion = "voucher" /\ lockToken = o
          /\ Go(r, "use")
          /\ UNCHANGED <<voucher, pointVars>>
       \/ /\ o \notin uses \/ (promotion = "voucher" /\ lockToken # o)
          /\ Go(r, AfterPromotions(r))
          /\ UNCHANGED <<voucher, pointVars>>
       \/ /\ o \in uses /\ promotion = "catalogue"
          /\ voucher' = IF voucher = "ACTIVE" THEN "USED" ELSE voucher
          /\ Go(r, AfterPromotions(r))
          /\ UNCHANGED pointVars
       \/ /\ o \in uses /\ promotion = "points" /\ points >= PointsCost
          /\ points' = points - PointsCost
          /\ spent' = [spent EXCEPT ![o] = @ + 1]
          /\ Go(r, AfterPromotions(r))
          /\ UNCHANGED voucher
       \/ /\ o \in uses /\ promotion = "points" /\ points < PointsCost
          /\ Throw(r)
          /\ UNCHANGED <<voucher, pointVars>>
  /\ UNCHANGED <<settings, orderVars, lockToken, lapsed, redemption, storeUses, payVars, retried,
                 holder, mishaps>>

\* finalizeVoucherRedemption
Use(r) ==
  /\ At(r, "use")
  /\ voucher' = "USED" /\ lockToken' = NoOrder /\ lapsed' = FALSE
  /\ redemption' = [redemption EXCEPT ![It(r)] = IF @ = "LOCKED" THEN "CONFIRMED" ELSE @]
  /\ Go(r, AfterPromotions(r))
  /\ UNCHANGED <<settings, orderVars, pointVars, storeUses, payVars, retried, holder, mishaps>>

\* Mutant: the status of another table.
SucceedPaid(r) ==
  /\ At(r, "succeed")
  /\ intent' = [intent EXCEPT ![It(r)] = "PAID"]
  /\ Return(r)
  /\ UNCHANGED <<settings, orderVars, pointVars, voucherVars, xendit, failures, retried, holder,
                 mishaps>>

Succeed(r) ==
  /\ At(r, "succeed")
  /\ intent' = [intent EXCEPT ![It(r)] = "SUCCEEDED"]
  /\ Return(r)
  /\ UNCHANGED <<settings, orderVars, pointVars, voucherVars, xendit, failures, retried, holder,
                 mishaps>>

Rollback(r) ==
  /\ At(r, "rollback")
  /\ intent' = [intent EXCEPT ![It(r)] = "PENDING"]
  /\ Go(r, "idle")
  /\ UNCHANGED <<settings, orderVars, pointVars, voucherVars, xendit, failures, retried, holder,
                 mishaps>>

---------------------------------------------------------------------------
(* The other handlers *)

\* A payment.failure webhook releases the voucher and then marks the intent.
FailureNotice(r, o) ==
  /\ o \in failures /\ intent[o] # "none"
  /\ Begin(r, "fail", o, "notice")
  /\ IF redemption[o] # "none" THEN Release(o) ELSE UNCHANGED voucherVars
  /\ UNCHANGED <<settings, orderVars, pointVars, payVars, retried, holder, mishaps>>

MarkFailed(r) ==
  /\ At(r, "fail")
  /\ intent' = [intent EXCEPT ![It(r)] = IF @ = "SUCCEEDED" THEN @ ELSE "FAILED"]
  /\ Go(r, "idle")
  /\ UNCHANGED <<settings, orderVars, pointVars, voucherVars, xendit, failures, retried, holder,
                 mishaps>>

\* completeDemoShopOrder
CompleteDemo(r, o) ==
  /\ demoMode /\ Awaiting(o)
  /\ Begin(r, "finalize", o, "button")
  /\ UNCHANGED <<settings, orderVars, pointVars, voucherVars, payVars, retried, holder, mishaps>>

\* completeOrder, at the counter
CompleteOrder(o) ==
  /\ order[o] = "placed"
  /\ order' = [order EXCEPT ![o] = "completed"]
  /\ UNCHANGED <<settings, uses, discounted, free, awarded, referrals, pointVars, voucherVars,
                 payVars, retried, holder, req, mishaps>>

---------------------------------------------------------------------------
(* Xendit and failures *)

Pay(o) ==
  /\ \/ xendit[o] = "REQUIRES_ACTION"
     \/ "recapture" \in allowed /\ xendit[o] = "FAILED"
  /\ xendit' = [xendit EXCEPT ![o] = "SUCCEEDED"]
  /\ UNCHANGED <<settings, orderVars, pointVars, voucherVars, intent, failures, retried, holder,
                 req, mishaps>>

PaymentFails(o) ==
  /\ xendit[o] = "REQUIRES_ACTION"
  /\ xendit' = [xendit EXCEPT ![o] = "FAILED"]
  /\ failures' = failures \cup {o}
  /\ UNCHANGED <<settings, orderVars, pointVars, voucherVars, intent, retried, holder, req,
                 mishaps>>

\* A statement throws.  A transaction it was part of is rolled back.
Fault(r) ==
  /\ ~At(r, "idle") /\ mishaps < MaxMishaps
  /\ mishaps' = mishaps + 1
  /\ Throw(r)
  /\ holder' = holder \ {r}
  /\ retried' = IF At(r, "succeed") THEN retried \cup {It(r)} ELSE retried
  /\ UNCHANGED <<settings, orderVars, pointVars, voucherVars, payVars>>

\* The request dies.
Crash(r) ==
  /\ ~At(r, "idle") /\ mishaps < MaxMishaps
  /\ mishaps' = mishaps + 1
  /\ Go(r, "idle")
  /\ holder' = holder \ {r}
  /\ UNCHANGED <<settings, orderVars, pointVars, voucherVars, payVars, retried>>

---------------------------------------------------------------------------
Checkout(r) ==
  \/ \E o \in Orders : CheckoutPlain(r, o) \/ LockVoucher(r, o) \/ CheckPromotion(r, o)
  \/ Discount(r) \/ Refuse(r) \/ CreateOrder(r) \/ RequestPayment(r) \/ CreateIntent(r)
  \/ Reply(r)

Apply(r) ==
  \/ Claim(r) \/ ReadOrder(r) \/ Place(r) \/ Referral(r) \/ Award(r)
  \/ Promote(r) \/ Use(r) \/ Succeed(r) \/ Rollback(r)

Notice(r) ==
  \/ \E o \in Orders : Settle(r, o) \/ FailureNotice(r, o) \/ CompleteDemo(r, o)
  \/ MarkFailed(r)

Counter(r) == RedeemInStore(r) \/ StoreUse(r) \/ Revoke(r) \/ Withdraw(r)

Next ==
  \/ \E r \in Requests : Checkout(r) \/ Apply(r) \/ Notice(r) \/ Counter(r) \/ Fault(r) \/ Crash(r)
  \/ \E o \in Orders : CompleteOrder(o) \/ Pay(o) \/ PaymentFails(o)
  \/ Lapse

Spec == Init /\ [][Next]_vars

---------------------------------------------------------------------------
(* Properties *)

\* A campaign voucher pays for one order or one purchase in the store, although checkout,
\* failure notice, till and finalization write its row from different requests.  Each of
\* the three surprises breaks it: the lock is given to somebody else while the payment
\* that relies on it goes on.
OneUse ==
  promotion = "voucher" /\ allowed = {} => Cardinality(discounted \cap PaidOrders) + storeUses <= 1

\* Whoever brought the member is rewarded once, also when two first orders are finalized at
\* the same time: neither transaction sees the other's order, so what keeps them apart is
\* the row of the stored wallet, updated before the count.
ReferrerRewardedOnce == referrals <= 1

\* The points of an order are awarded once, whatever webhook, poll, checkout and retry do.
\* In demo mode two clicks may award them twice: nothing there claims a payment.
AwardedOnce == ~demoMode => \A o \in Orders : awarded[o] <= 1

\* A paid order rewards each of the two once, the member and whoever brought the member
\* (finalizeShopOrderAfterPayment).
RewardedOnce == AwardedOnce /\ ReferrerRewardedOnce

\* "On success webhook, finalize redemption and mark voucher USED": after the settlement of a
\* payment the voucher that reduced it cannot be used again, by any later request.
UsedOnSuccess ==
  \A o \in discounted :
    intent[o] = "SUCCEEDED" /\ promotion # "points" => voucher \in {"USED", "VOID"}

\* An order is placed only if its payment was captured or nothing was left to pay, and a payment
\* is settled only when all that it pays for is done: the order is placed, the reward is paid
\* for, and, if nothing surprising is allowed, the voucher is used.
SettledIsDone ==
  /\ ~demoMode => \A o \in PaidOrders : xendit[o] = "SUCCEEDED" \/ o \in free
  /\ \A o \in Orders : intent[o] = "SUCCEEDED" =>
       /\ o \in PaidOrders
       /\ promotion = "points" /\ o \in uses => spent[o] > 0
  /\ allowed = {} => UsedOnSuccess

\* The reward of an order is paid for once, unless the statement that settles the payment
\* failed after the points had been taken: the retry takes them again.
PointsSpentOnce == \A o \in Orders \ retried : spent[o] <= 1

\* A completed order never comes back to the queue of the counter, however late a payment
\* notice or the retry of a finalization comes.
OrderNeverReopens ==
  [][\A o \in Orders : ~demoMode /\ order[o] = "completed" => order'[o] = "completed"]_vars
=============================================================================
