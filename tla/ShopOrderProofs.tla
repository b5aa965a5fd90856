-------------------------- MODULE ShopOrderProofs --------------------------
(***************************************************************************)
(* Proofs about ShopOrder, for any number of orders and requests, any       *)
(* amounts of points, any number of failures, and whatever is allowed.      *)
(***************************************************************************)
EXTENDS ShopOrder, FiniteSetTheorems, TLAPS

---------------------------------------------------------------------------
(* Types *)

\* A request that works on an order has one.
Busy == \A r \in Requests : req[r].step \notin {"idle", "storeUse", "revoke"} => It(r) \in Orders

\* The promotion of an order is on its row before the discount is computed.
DiscountInv == \A r \in Requests : req[r].step = "discount" => It(r) \in uses

\* A request that goes on to another step keeps its order.
LEMMA GoTyped ==
  ASSUME NEW r \in Requests, NEW s \in Steps, req \in [Requests -> LocalState], Busy, Go(r, s),
         s \in {"idle", "storeUse", "revoke"} \/ It(r) \in Orders
  PROVE  /\ req' \in [Requests -> LocalState] /\ Busy'
         /\ \A q \in Requests : q # r => req'[q] = req[q]
         /\ req'[r].step = s
         /\ s # "idle" => req'[r].at = req[r].at /\ req'[r].caller = req[r].caller
         /\ s = "idle" => req'[r] = Idle
  <1>1. Idle \in LocalState
    BY DEF Idle, LocalState, Steps, Callers
  <1>2. CASE s = "idle"
    BY <1>1, <1>2 DEF Go, Busy, It, Idle
  <1>3. CASE s # "idle"
    <2>1. req' = [req EXCEPT ![r] = [req[r] EXCEPT !.step = s]]
      BY <1>3 DEF Go
    <2>2. [req[r] EXCEPT !.step = s] \in LocalState
      BY DEF LocalState
    <2>3. QED BY <1>3, <2>1, <2>2 DEF Busy, It, LocalState
  <1>4. QED BY <1>2, <1>3

\* A request begins with the order its step needs.
LEMMA BeginTyped ==
  ASSUME NEW r \in Requests, NEW s \in Steps, NEW o \in Orders \cup {NoOrder}, NEW c \in Callers,
         req \in [Requests -> LocalState], Busy, Begin(r, s, o, c),
         s \in {"idle", "storeUse", "revoke"} \/ o \in Orders
  PROVE  /\ req' \in [Requests -> LocalState] /\ Busy'
         /\ \A q \in Requests : q # r => req'[q] = req[q]
         /\ req'[r].step = s /\ req'[r].at = o /\ req'[r].caller = c
  BY DEF Begin, Busy, It, LocalState

\* A call returns to a step that has its order.
LEMMA ReturnTyped ==
  ASSUME NEW r \in Requests, req \in [Requests -> LocalState], Busy, It(r) \in Orders, Return(r)
  PROVE  req' \in [Requests -> LocalState] /\ Busy'
  BY GoTyped DEF Return, Steps

\* An exception leads to a step that has its order.
LEMMA ThrowTyped ==
  ASSUME NEW r \in Requests, req \in [Requests -> LocalState], Busy, Throw(r)
  PROVE  req' \in [Requests -> LocalState] /\ Busy'
  <1>1. Applying(r) => It(r) \in Orders
    BY DEF Applying, Busy, ApplySteps, InOrderTx
  <1>2. QED BY <1>1, GoTyped DEF Throw, Steps

\* What a request does to the local states.
LEMMA ReqTyped ==
  ASSUME TypeOK, Busy, NEW r \in Requests,
         Checkout(r) \/ Apply(r) \/ Notice(r) \/ Counter(r) \/ Fault(r) \/ Crash(r)
  PROVE  req' \in [Requests -> LocalState] /\ Busy'
  <1>1. req \in [Requests -> LocalState]
    BY DEF TypeOK
  <1>2. ASSUME NEW s \in Steps \ {"idle", "storeUse", "revoke"}, At(r, s)
        PROVE  It(r) \in Orders
    BY <1>2 DEF Busy, At
  <1>3. ASSUME NEW s \in {"create", "discount", "claim", "fail", "finalize"}, NEW o \in Orders,
               NEW c \in Callers, Begin(r, s, o, c)
        PROVE  req' \in [Requests -> LocalState] /\ Busy'
    BY <1>1, <1>3, BeginTyped DEF Steps, ApplySteps
  <1>4. ASSUME NEW s \in Steps, Go(r, s), s \in {"idle", "storeUse", "revoke"} \/ It(r) \in Orders
        PROVE  req' \in [Requests -> LocalState] /\ Busy'
    BY <1>1, <1>4, GoTyped
  <1>5. CASE Checkout(r)
    <2>1. CASE \E o \in Orders : CheckoutPlain(r, o) \/ LockVoucher(r, o) \/ CheckPromotion(r, o)
      BY <1>3, <2>1 DEF CheckoutPlain, LockVoucher, CheckPromotion, Callers
    <2>2. CASE Discount(r) \/ Refuse(r) \/ RequestPayment(r) \/ Reply(r)
      BY <1>2, <1>4, <2>2 DEF Discount, Refuse, RequestPayment, Reply, Steps, ApplySteps
    <2>3. CASE CreateIntent(r)
      BY <1>2, <1>4, <2>3 DEF CreateIntent, Steps, ApplySteps
    <2>4. CASE CreateOrder(r)
      <3>1. It(r) \in Orders
        BY <1>2, <2>4 DEF CreateOrder, Steps
      <3>2. ASSUME NEW s \in Steps, NEW c \in Callers,
                   req' = [req EXCEPT ![r].step = s, ![r].caller = c]
            PROVE  req' \in [Requests -> LocalState] /\ Busy'
        BY <1>1, <3>1, <3>2 DEF LocalState, Busy, It
      <3>3. QED BY <1>4, <2>4, <3>1, <3>2 DEF CreateOrder, Steps, ApplySteps, Callers
    <2>5. QED BY <1>5, <2>1, <2>2, <2>3, <2>4 DEF Checkout
  <1>6. CASE Apply(r)
    <2>1. It(r) \in Orders
      BY <1>2, <1>6 DEF Apply, Claim, ReadOrder, Place, Referral, Award, Promote, Use, Succeed,
                        Rollback, Steps, ApplySteps, InOrderTx
    <2>2. AfterOrder(r) \in Steps /\ AfterPromotions(r) \in Steps
      BY DEF AfterOrder, AfterPromotions, Steps, ApplySteps
    <2>3. CASE Claim(r) \/ Succeed(r)
      BY <1>1, <1>4, <2>1, <2>3, ReturnTyped DEF Claim, Succeed, Steps, ApplySteps
    <2>4. CASE ReadOrder(r) \/ Place(r) \/ Referral(r) \/ Award(r) \/ Use(r) \/ Rollback(r)
      BY <1>4, <2>1, <2>2, <2>4
         DEF ReadOrder, Place, Referral, Award, Use, Rollback, Steps, ApplySteps, InOrderTx
    <2>5. CASE Promote(r)
      BY <1>1, <1>4, <2>1, <2>2, <2>5, ThrowTyped DEF Promote, Steps, ApplySteps
    <2>6. QED BY <1>6, <2>3, <2>4, <2>5 DEF Apply
  <1>7. CASE Notice(r)
    <2>1. CASE \E o \in Orders : Settle(r, o) \/ FailureNotice(r, o) \/ CompleteDemo(r, o)
      BY <1>3, <2>1 DEF Settle, FailureNotice, CompleteDemo, Callers
    <2>2. CASE MarkFailed(r)
      BY <1>4, <2>2 DEF MarkFailed, Steps
    <2>3. QED BY <1>7, <2>1, <2>2 DEF Notice
  <1>8. CASE Counter(r)
    <2>1. ASSUME NEW s \in {"storeUse", "revoke"}, Begin(r, s, NoOrder, "none")
          PROVE  req' \in [Requests -> LocalState] /\ Busy'
      BY <1>1, <2>1, BeginTyped DEF Steps, Callers
    <2>2. CASE RedeemInStore(r)
      BY <1>1, <2>1, <2>2 DEF RedeemInStore, Busy, It
    <2>3. CASE Revoke(r)
      BY <2>1, <2>3 DEF Revoke
    <2>4. CASE StoreUse(r) \/ Withdraw(r)
      BY <1>4, <2>4 DEF StoreUse, Withdraw, Steps
    <2>5. QED BY <1>8, <2>2, <2>3, <2>4 DEF Counter
  <1>9. CASE Fault(r)
    BY <1>1, <1>9, ThrowTyped DEF Fault
  <1>10. CASE Crash(r)
    BY <1>4, <1>10 DEF Crash, Steps
  <1>11. QED BY <1>5, <1>6, <1>7, <1>8, <1>9, <1>10

\* The data other than the local states.
DataOK ==
  /\ promotion \in {"voucher", "catalogue", "points"} /\ demoMode \in BOOLEAN
  /\ allowed \subseteq Surprises
  /\ order \in [Orders -> OrderStatus]
  /\ uses \subseteq Orders /\ discounted \subseteq uses /\ free \subseteq discounted
  /\ awarded \in [Orders -> Nat] /\ spent \in [Orders -> Nat]
  /\ points \in Nat /\ referrals \in Nat /\ storeUses \in Nat
  /\ voucher \in VoucherStatus /\ lockToken \in Orders \cup {NoOrder} /\ lapsed \in BOOLEAN
  /\ redemption \in [Orders -> RedemptionStatus]
  /\ intent \in [Orders -> IntentStatus] /\ xendit \in [Orders -> XenditStatus]
  /\ failures \subseteq Orders /\ retried \subseteq Orders
  /\ holder \subseteq Requests
  /\ mishaps \in 0..MaxMishaps

\* Every step keeps the types of the rows.
LEMMA DataTyped ==
  ASSUME TypeOK, Busy, DiscountInv, Next
  PROVE  DataOK'
  <1> USE DEF TypeOK, DataOK, settings, orderVars, pointVars, voucherVars, payVars
  <1>2. ASSUME NEW r \in Requests, NEW s \in Steps \ {"idle", "storeUse", "revoke"}, At(r, s)
        PROVE  It(r) \in Orders
    BY <1>2 DEF Busy, At
  <1>3. ASSUME NEW o \in Orders, Release(o)
        PROVE  /\ redemption' \in [Orders -> RedemptionStatus] /\ voucher' \in VoucherStatus
               /\ lockToken' \in Orders \cup {NoOrder} /\ lapsed' \in BOOLEAN /\ storeUses' = storeUses
    BY <1>3 DEF Release, RedemptionStatus, VoucherStatus
  <1>4. ASSUME NEW r \in Requests, Checkout(r) PROVE DataOK'
    <2>1. CASE \E o \in Orders : CheckoutPlain(r, o) \/ LockVoucher(r, o) \/ CheckPromotion(r, o)
      BY <2>1 DEF CheckoutPlain, LockVoucher, CheckPromotion, RedemptionStatus, VoucherStatus
    <2>2. CASE Discount(r)
      <3>1. It(r) \in uses
        BY <2>2 DEF Discount, At, DiscountInv
      <3>2. discounted' = discounted \/ discounted' = discounted \cup {It(r)}
        BY <2>2 DEF Discount
      <3>3. QED BY <2>2, <3>1, <3>2 DEF Discount
    <2>6. CASE Refuse(r)
      BY <2>6 DEF Refuse
    <2>3. CASE CreateOrder(r)
      BY <1>2, <2>3 DEF CreateOrder, Steps, OrderStatus
    <2>4. CASE RequestPayment(r) \/ CreateIntent(r)
      BY <2>4 DEF RequestPayment, CreateIntent, XenditStatus, IntentStatus
    <2>5. CASE Reply(r)
      BY <1>2, <1>3, <2>5 DEF Reply, Steps, ApplySteps, XenditStatus
    <2>7. QED BY <1>4, <2>6, <2>5, <2>4, <2>3, <2>2, <2>1 DEF Checkout
  <1>5. ASSUME NEW r \in Requests, Apply(r) PROVE DataOK'
    <2>1. CASE Claim(r) \/ ReadOrder(r) \/ Place(r) \/ Referral(r) \/ Succeed(r) \/ Rollback(r)
      BY <2>1 DEF Claim, ReadOrder, Place, Referral, Succeed, Rollback, IntentStatus
    <2>2. CASE Award(r)
      <3>1. It(r) \in Orders
        BY <1>2, <2>2 DEF Award, Steps, ApplySteps, InOrderTx
      <3>2. order' \in [Orders -> OrderStatus] /\ awarded' \in [Orders -> Nat]
        BY <2>2, <3>1 DEF Award, OrderStatus
      <3>3. points' \in Nat /\ referrals' \in Nat
        BY <2>2, PointAssumption DEF Award
      <3>4. QED BY <2>2, <3>2, <3>3 DEF Award
    <2>3. CASE Promote(r)
      <3>1. points >= PointsCost => points - PointsCost \in Nat
        BY PointAssumption
      <3>2. QED BY <2>3, <3>1 DEF Promote, VoucherStatus
    <2>4. CASE Use(r)
      BY <2>4 DEF Use, VoucherStatus, RedemptionStatus
    <2>5. QED BY <1>5, <2>1, <2>2, <2>3, <2>4 DEF Apply
  <1>6. ASSUME NEW r \in Requests, Notice(r) PROVE DataOK'
    <2>1. CASE \E o \in Orders : Settle(r, o) \/ CompleteDemo(r, o)
      BY <2>1 DEF Settle, CompleteDemo
    <2>2. CASE \E o \in Orders : FailureNotice(r, o)
      BY <1>3, <2>2 DEF FailureNotice
    <2>3. CASE MarkFailed(r)
      BY <2>3 DEF MarkFailed, IntentStatus
    <2>4. QED BY <1>6, <2>1, <2>2, <2>3 DEF Notice
  <1>7. ASSUME NEW r \in Requests, Counter(r) PROVE DataOK'
    <2>1. CASE StoreUse(r) \/ Revoke(r)
      BY <2>1 DEF StoreUse, Revoke, VoucherStatus
    <2>2. CASE RedeemInStore(r)
      <3>1. /\ voucher' \in VoucherStatus /\ lockToken' \in Orders \cup {NoOrder}
            /\ lapsed' \in BOOLEAN /\ storeUses' \in Nat /\ redemption' = redemption
        <4>1. CASE UNCHANGED voucherVars
          BY <4>1
        <4>2. CASE voucher' = "USED" /\ lockToken' = NoOrder /\ lapsed' = FALSE
                   /\ storeUses' = storeUses + 1 /\ redemption' = redemption
          <5>1. storeUses' \in Nat
            BY <4>2
          <5>2. lapsed' \in BOOLEAN
            BY <4>2
          <5>3. QED BY <4>2, <5>1, <5>2 DEF VoucherStatus
        <4>3. QED BY <2>2, <4>1, <4>2 DEF RedeemInStore
      <3>2. UNCHANGED <<settings, orderVars, pointVars, payVars, retried, holder, mishaps>>
        BY <2>2 DEF RedeemInStore
      <3>3. QED BY <3>1, <3>2
    <2>3. CASE Withdraw(r)
      <3>1. redemption' \in [Orders -> RedemptionStatus]
        BY <2>3 DEF Withdraw, RedemptionStatus
      <3>2. QED BY <2>3, <3>1 DEF Withdraw, VoucherStatus
    <2>4. QED BY <1>7, <2>1, <2>2, <2>3 DEF Counter
  <1>8. ASSUME NEW r \in Requests, Fault(r) \/ Crash(r) PROVE DataOK'
    BY <1>2, <1>8, MishapAssumption DEF Fault, Crash, Steps, ApplySteps
  <1>9. CASE \E o \in Orders : CompleteOrder(o) \/ Pay(o) \/ PaymentFails(o)
    BY <1>9 DEF CompleteOrder, Pay, PaymentFails, OrderStatus, XenditStatus
  <1>10. CASE Lapse
    BY <1>10 DEF Lapse
  <1>11. QED BY <1>4, <1>5, <1>6, <1>7, <1>8, <1>9, <1>10 DEF Next

\* The order of a request that computes its discount.
LEMMA DiscountNext ==
  ASSUME TypeOK, Busy, DiscountInv, Next
  PROVE  DiscountInv'
  <1>1. req \in [Requests -> LocalState]
    BY DEF TypeOK
  <1>2. ASSUME NEW r \in Requests, NEW s \in Steps \ {"discount"}, Go(r, s), uses' = uses
        PROVE  DiscountInv'
    BY <1>1, <1>2 DEF Go, Idle, DiscountInv, It, LocalState
  <1>3. ASSUME NEW r \in Requests, NEW s \in Steps \ {"discount"}, NEW o, NEW c,
               Begin(r, s, o, c), uses \subseteq uses'
        PROVE  DiscountInv'
    BY <1>1, <1>3 DEF Begin, DiscountInv, It, LocalState
  <1>4. ASSUME NEW r \in Requests, Throw(r) \/ Return(r), uses' = uses
        PROVE  DiscountInv'
    BY <1>2, <1>4 DEF Throw, Return, Steps
  <1>5. ASSUME UNCHANGED <<req, uses>> PROVE DiscountInv'
    BY <1>5 DEF DiscountInv, It
  <1>6. ASSUME NEW r \in Requests, Checkout(r) PROVE DiscountInv'
    <2>1. CASE \E o \in Orders : CheckoutPlain(r, o) \/ CheckPromotion(r, o)
      BY <1>3, <2>1 DEF CheckoutPlain, CheckPromotion, Steps, orderVars
    <2>2. CASE \E o \in Orders : LockVoucher(r, o)
      BY <1>1, <2>2 DEF LockVoucher, Begin, DiscountInv, It, LocalState
    <2>3. CASE Discount(r) \/ Refuse(r) \/ RequestPayment(r) \/ CreateIntent(r) \/ Reply(r)
      BY <1>2, <2>3 DEF Discount, Refuse, RequestPayment, CreateIntent, Reply, orderVars, Steps
    <2>4. CASE CreateOrder(r)
      <3>1. uses' = uses
        BY <2>4 DEF CreateOrder
      <3>2. ASSUME NEW s \in {"promote", "finalize"}, NEW c,
                   req' = [req EXCEPT ![r].step = s, ![r].caller = c]
            PROVE  DiscountInv'
        BY <1>1, <3>1, <3>2 DEF DiscountInv, It, LocalState
      <3>3. QED BY <1>2, <2>4, <3>1, <3>2 DEF CreateOrder, Steps
    <2>5. QED BY <1>6, <2>1, <2>2, <2>3, <2>4 DEF Checkout
  <1>7. ASSUME NEW r \in Requests, Apply(r) PROVE DiscountInv'
    <2>1. uses' = uses
      BY <1>7 DEF Apply, Claim, ReadOrder, Place, Referral, Award, Promote, Use, Succeed, Rollback,
                  orderVars
    <2>2. \/ Throw(r) \/ Return(r)
          \/ \E s \in Steps \ {"discount"} : Go(r, s)
      BY <1>7 DEF Apply, Claim, ReadOrder, Place, Referral, Award, Promote, Use, Succeed, Rollback,
                  AfterOrder, AfterPromotions, Steps, ApplySteps, InOrderTx
    <2>3. QED BY <1>2, <1>4, <2>1, <2>2
  <1>8. ASSUME NEW r \in Requests, Notice(r) PROVE DiscountInv'
    BY <1>2, <1>3, <1>8
       DEF Notice, Settle, FailureNotice, CompleteDemo, MarkFailed, orderVars, Steps, ApplySteps
  <1>9. ASSUME NEW r \in Requests, Counter(r) PROVE DiscountInv'
    BY <1>2, <1>3, <1>5, <1>9
       DEF Counter, RedeemInStore, StoreUse, Revoke, Withdraw, orderVars, Steps
  <1>10. ASSUME NEW r \in Requests, Fault(r) \/ Crash(r) PROVE DiscountInv'
    BY <1>2, <1>4, <1>10 DEF Fault, Crash, orderVars, Steps
  <1>11. CASE Lapse \/ \E o \in Orders : CompleteOrder(o) \/ Pay(o) \/ PaymentFails(o)
    BY <1>5, <1>11 DEF Lapse, CompleteOrder, Pay, PaymentFails, orderVars
  <1>12. QED BY <1>6, <1>7, <1>8, <1>9, <1>10, <1>11 DEF Next

\* Every step keeps the types.
LEMMA TypeNext ==
  ASSUME TypeOK, Busy, DiscountInv, [Next]_vars
  PROVE  TypeOK' /\ Busy' /\ DiscountInv'
  <1>1. CASE UNCHANGED vars
    BY <1>1 DEF vars, settings, orderVars, pointVars, voucherVars, payVars, TypeOK, Busy, DiscountInv,
                It
  <1>2. CASE Next
    <2>1. req' \in [Requests -> LocalState] /\ Busy'
      <3>1. CASE \E r \in Requests : \/ Checkout(r) \/ Apply(r) \/ Notice(r) \/ Counter(r)
                                     \/ Fault(r) \/ Crash(r)
        BY <3>1, ReqTyped
      <3>2. CASE Lapse \/ \E o \in Orders : CompleteOrder(o) \/ Pay(o) \/ PaymentFails(o)
        BY <3>2 DEF Lapse, CompleteOrder, Pay, PaymentFails, TypeOK, Busy, It
      <3>3. QED BY <1>2, <3>1, <3>2 DEF Next
    <2>2. QED BY <1>2, <2>1, DataTyped, DiscountNext DEF TypeOK, DataOK
  <1>3. QED BY <1>1, <1>2

\* The variables keep their types: a discount is only of an order that carries the promotion,
\* and only a discounted order can be free.
THEOREM TypeCorrect == Spec => [](TypeOK /\ Busy /\ DiscountInv)
  <1>1. Init => TypeOK /\ Busy /\ DiscountInv
    <2>1. SUFFICES ASSUME Init PROVE TypeOK /\ Busy /\ DiscountInv
      OBVIOUS
    <2>2. Idle \in LocalState /\ Idle.step = "idle"
      BY DEF Idle, LocalState, Steps, Callers
    <2>3. Busy /\ DiscountInv /\ req \in [Requests -> LocalState]
      BY <2>1, <2>2 DEF Init, Busy, DiscountInv
    <2>4. /\ order \in [Orders -> OrderStatus] /\ redemption \in [Orders -> RedemptionStatus]
          /\ intent \in [Orders -> IntentStatus] /\ xendit \in [Orders -> XenditStatus]
          /\ voucher \in VoucherStatus
      BY <2>1 DEF Init, OrderStatus, VoucherStatus, RedemptionStatus, IntentStatus, XenditStatus
    <2>5. points \in Nat /\ mishaps \in 0..MaxMishaps
      BY <2>1, PointAssumption, MishapAssumption DEF Init
    <2>6. QED BY <2>1, <2>3, <2>4, <2>5 DEF Init, TypeOK
  <1>2. QED BY <1>1, TypeNext, PTL DEF Spec

---------------------------------------------------------------------------
(* The row of the stored wallet *)

\* The row is the holder's while it looks whether the referrer is still to be rewarded.
WalletInv ==
  /\ \A r \in Requests : req[r].step \in InOrderTx => holder = {r}
  /\ \A r \in Requests : req[r].step = "reward" => referrals = 0
  /\ referrals <= 1

\* A request that neither enters the transaction nor is in it leaves the row alone.
LEMMA WalletOutside ==
  ASSUME TypeOK, WalletInv, NEW r \in Requests, \A q \in Requests : q # r => req'[q] = req[q],
         req'[r].step \notin InOrderTx, referrals' = referrals,
         holder' = holder \/ holder' = holder \ {r}
  PROVE  WalletInv'
  BY DEF TypeOK, WalletInv, InOrderTx

\* Every step keeps the lock of the wallet's row.
LEMMA WalletNext ==
  ASSUME TypeOK, Busy, WalletInv, Next
  PROVE  WalletInv'
  <1>1. req \in [Requests -> LocalState]
    BY DEF TypeOK
  <1>2. ASSUME NEW r \in Requests, NEW s \in Steps \ InOrderTx, Go(r, s), referrals' = referrals,
               holder' = holder \/ holder' = holder \ {r}
        PROVE  WalletInv'
    <2>1. /\ \A q \in Requests : q # r => req'[q] = req[q]
          /\ req'[r].step \notin InOrderTx
      BY <1>1, <1>2 DEF Go, Idle, InOrderTx, LocalState
    <2>2. QED BY <1>2, <2>1, WalletOutside
  <1>3. ASSUME NEW r \in Requests, NEW s \in Steps \ InOrderTx, NEW o, NEW c, Begin(r, s, o, c),
               referrals' = referrals, holder' = holder
        PROVE  WalletInv'
    BY <1>1, <1>3, WalletOutside DEF Begin
  <1>4. ASSUME NEW r \in Requests, Throw(r) \/ Return(r), referrals' = referrals,
               holder' = holder \/ holder' = holder \ {r}
        PROVE  WalletInv'
    BY <1>2, <1>4 DEF Throw, Return, Steps, InOrderTx
  <1>5. ASSUME UNCHANGED <<req, holder, referrals>> PROVE WalletInv'
    BY <1>5 DEF WalletInv
  <1>6. ASSUME NEW r \in Requests, Checkout(r) PROVE WalletInv'
    <2>1. UNCHANGED <<referrals, holder>>
      BY <1>6 DEF Checkout, CheckoutPlain, LockVoucher, CheckPromotion, Discount, Refuse, CreateOrder,
                  RequestPayment, CreateIntent, Reply, orderVars
    <2>2. CASE \E o \in Orders : CheckoutPlain(r, o) \/ LockVoucher(r, o) \/ CheckPromotion(r, o)
      BY <1>3, <2>1, <2>2 DEF CheckoutPlain, LockVoucher, CheckPromotion, Steps, InOrderTx
    <2>3. CASE Discount(r) \/ Refuse(r) \/ RequestPayment(r) \/ CreateIntent(r) \/ Reply(r)
      BY <1>2, <2>1, <2>3
         DEF Discount, Refuse, RequestPayment, CreateIntent, Reply, Steps, InOrderTx
    <2>4. CASE CreateOrder(r)
      <3>1. ASSUME NEW s \in {"promote", "finalize"}, NEW c,
                   req' = [req EXCEPT ![r].step = s, ![r].caller = c]
            PROVE  WalletInv'
        <4>1. /\ \A q \in Requests : q # r => req'[q] = req[q]
              /\ req'[r].step \notin InOrderTx
          BY <1>1, <3>1 DEF InOrderTx, LocalState
        <4>2. QED BY <2>1, <4>1, WalletOutside
      <3>2. QED BY <1>2, <2>1, <2>4, <3>1 DEF CreateOrder, Steps, InOrderTx
    <2>5. QED BY <1>6, <2>2, <2>3, <2>4 DEF Checkout
  <1>7. ASSUME NEW r \in Requests, Apply(r) PROVE WalletInv'
    <2>1. CASE Place(r)
      <3>1. /\ \A q \in Requests : q # r => req'[q] = req[q]
            /\ req'[r].step = "referral" /\ holder' = {r} /\ referrals' = referrals
        BY <1>1, <2>1 DEF Place, Go, LocalState, orderVars
      <3>2. \A q \in Requests : req[q].step \notin InOrderTx
        BY <2>1 DEF Place, WalletInv
      <3>3. QED BY <3>1, <3>2 DEF WalletInv, InOrderTx
    <2>2. CASE Referral(r)
      <3>1. PICK s \in {"reward", "award"} : Go(r, s) /\ (s = "reward" => referrals = 0)
        BY <2>2 DEF Referral
      <3>2. /\ \A q \in Requests : q # r => req'[q] = req[q]
            /\ req'[r].step = s /\ holder' = holder /\ referrals' = referrals
        BY <1>1, <2>2, <3>1 DEF Referral, Go, LocalState, orderVars
      <3>3. holder = {r}
        BY <2>2 DEF Referral, At, WalletInv, InOrderTx
      <3>4. QED BY <3>1, <3>2, <3>3 DEF WalletInv, InOrderTx
    <2>3. CASE Award(r)
      <3>1. PICK s \in {"idle", "promote"} : Go(r, s)
        BY <2>3 DEF Award, AfterOrder
      <3>2. /\ \A q \in Requests : q # r => req'[q] = req[q]
            /\ req'[r].step = s
        BY <1>1, <3>1 DEF Go, Idle, LocalState
      <3>3. holder = {r} /\ \A q \in Requests : q # r => req[q].step \notin InOrderTx
        BY <2>3 DEF Award, At, WalletInv, InOrderTx
      <3>4. referrals' = IF req[r].step = "reward" THEN 1 ELSE referrals
        BY <2>3 DEF Award, At, WalletInv
      <3>5. QED BY <3>2, <3>3, <3>4 DEF WalletInv, InOrderTx
    <2>4. CASE \/ Claim(r) \/ ReadOrder(r) \/ Promote(r) \/ Use(r) \/ Succeed(r) \/ Rollback(r)
      <3>1. UNCHANGED <<referrals, holder>>
        BY <2>4 DEF Claim, ReadOrder, Promote, Use, Succeed, Rollback, orderVars
      <3>2. \/ Throw(r) \/ Return(r)
            \/ \E s \in Steps \ InOrderTx : Go(r, s)
        BY <2>4 DEF Claim, ReadOrder, Promote, Use, Succeed, Rollback, AfterOrder, AfterPromotions,
                    Steps, ApplySteps, InOrderTx
      <3>3. QED BY <1>2, <1>4, <3>1, <3>2
    <2>5. QED BY <1>7, <2>1, <2>2, <2>3, <2>4 DEF Apply
  <1>8. ASSUME NEW r \in Requests, Notice(r) PROVE WalletInv'
    BY <1>2, <1>3, <1>8
       DEF Notice, Settle, FailureNotice, CompleteDemo, MarkFailed, orderVars, Steps, ApplySteps,
           InOrderTx
  <1>9. ASSUME NEW r \in Requests, Counter(r) PROVE WalletInv'
    BY <1>2, <1>3, <1>5, <1>9
       DEF Counter, RedeemInStore, StoreUse, Revoke, Withdraw, orderVars, Steps, InOrderTx
  <1>10. ASSUME NEW r \in Requests, Fault(r) \/ Crash(r) PROVE WalletInv'
    BY <1>2, <1>4, <1>10 DEF Fault, Crash, orderVars, Steps, InOrderTx
  <1>11. CASE Lapse \/ \E o \in Orders : CompleteOrder(o) \/ Pay(o) \/ PaymentFails(o)
    BY <1>5, <1>11 DEF Lapse, CompleteOrder, Pay, PaymentFails, orderVars
  <1>12. QED BY <1>6, <1>7, <1>8, <1>9, <1>10, <1>11 DEF Next

\* Two first orders finalized at the same time reward the referrer once: the second waits at
\* the row of the stored wallet until the first has committed its reward.
THEOREM ReferrerOnce == Spec => []ReferrerRewardedOnce
  <1>1. Init => WalletInv
    BY DEF Init, WalletInv, Idle, InOrderTx
  <1>2. TypeOK /\ Busy /\ WalletInv /\ [Next]_vars => WalletInv'
    <2>1. ASSUME WalletInv, UNCHANGED vars PROVE WalletInv'
      BY <2>1 DEF WalletInv, vars, orderVars
    <2>2. QED BY <2>1, WalletNext
  <1>3. WalletInv => ReferrerRewardedOnce
    BY DEF WalletInv, ReferrerRewardedOnce
  <1>4. QED BY <1>1, <1>2, <1>3, TypeCorrect, PTL DEF Spec

---------------------------------------------------------------------------
(* The payment of an order, and what is done for it *)

\* A checkout that has no payment yet, and a request that has taken the payment.
Making(r) == req[r].step \in {"discount", "create", "request", "intent"}
Finalizing(r) == req[r].step \in ApplySteps \cup {"rollback"} /\ req[r].caller # "button"
Owns(r) == Making(r) \/ Finalizing(r)

\* Nobody else makes or finalizes the order of a request that does.
OneOwner == \A r, q \in Requests : Owns(r) /\ Owns(q) /\ It(r) = It(q) => r = q

\* Callers get only so far.
CallersFit(r) ==
  LET s == req[r].step  c == req[r].caller IN
    /\ Making(r) => c = "checkout"
    /\ s \in ApplySteps => c # "none"
    /\ s \in {"claim", "succeed", "rollback"} => c \in {"checkout", "notice"}
    /\ s \in {"promote", "use"} => c # "button"
    /\ c \in {"demo", "button"} => demoMode

\* The order and the payment are where the request needs them.
RowsFit(r) ==
  LET s == req[r].step  c == req[r].caller  o == It(r) IN
    /\ Making(r) => intent[o] = "none"
    /\ s \in {"discount", "create"} => order[o] = "none"
    /\ s \in {"request", "intent"} \cup ApplySteps => order[o] # "none"
    /\ s \in {"claim", "fail", "reply"} => intent[o] # "none"
    /\ Finalizing(r) => IF c \in {"checkout", "notice"} THEN intent[o] \in {"PROCESSING", "FAILED"}
                                                        ELSE intent[o] = "none"
    /\ ~demoMode /\ s \in {"place"} \cup InOrderTx => order[o] = "pending_payment"

\* The reward is not paid for before the finalization comes to it.
Unspent(r) == Owns(r) /\ req[r].step # "succeed" /\ It(r) \notin retried => spent[It(r)] = 0

Books(o) ==
  /\ intent[o] # "none" => order[o] # "none"
  /\ ~demoMode => awarded[o] = IF order[o] \in {"placed", "completed"} THEN 1 ELSE 0
  /\ o \notin retried => spent[o] <= 1
  /\ o \notin retried /\ spent[o] > 0 => order[o] # "none" /\ intent[o] # "PENDING"

OwnersInv ==
  /\ OneOwner
  /\ \A r \in Requests : CallersFit(r) /\ RowsFit(r) /\ Unspent(r)
  /\ \A o \in Orders : Books(o)

\* A step that changes nothing the invariant speaks of but the request's own state.
LEMMA CalmStep ==
  ASSUME Busy, OwnersInv, NEW r \in Requests, \A q \in Requests : q # r => req'[q] = req[q],
         UNCHANGED <<demoMode, order, intent, spent, awarded>>, retried \subseteq retried',
         CallersFit(r)', RowsFit(r)', Unspent(r)', Owns(r)' => Owns(r) /\ It(r)' = It(r)
  PROVE  OwnersInv'
  <1>1. ASSUME NEW q \in Requests, q # r
        PROVE  /\ CallersFit(q)' /\ RowsFit(q)' /\ Unspent(q)'
               /\ Owns(q)' <=> Owns(q) /\ It(q)' = It(q)
    BY <1>1 DEF OwnersInv, CallersFit, RowsFit, Unspent, Owns, Making, Finalizing, It
  <1>2. OneOwner'
    BY <1>1 DEF OwnersInv, OneOwner
  <1>3. ASSUME NEW o \in Orders PROVE Books(o)'
    BY <1>3 DEF OwnersInv, Books
  <1>4. QED BY <1>1, <1>2, <1>3 DEF OwnersInv

\* A step that changes only what is about an order nobody else makes or finalizes.
LEMMA OwnerStep ==
  ASSUME Busy, OwnersInv, NEW r \in Requests, \A q \in Requests : q # r => req'[q] = req[q],
         NEW o \in Orders, \A q \in Requests : q # r /\ Owns(q) => It(q) # o,
         UNCHANGED <<demoMode, retried>>,
         \A p \in Orders : p # o => /\ order'[p] = order[p] /\ intent'[p] = intent[p]
                                    /\ spent'[p] = spent[p] /\ awarded'[p] = awarded[p],
         order[o] # "none" => order'[o] # "none", intent[o] # "none" => intent'[o] # "none",
         CallersFit(r)', RowsFit(r)', Unspent(r)', Books(o)', Owns(r)' => It(r)' = o
  PROVE  OwnersInv'
  <1>1. ASSUME NEW q \in Requests, q # r
        PROVE  /\ CallersFit(q)' /\ (Owns(q)' <=> Owns(q)) /\ It(q)' = It(q)
    BY <1>1 DEF OwnersInv, CallersFit, Owns, Making, Finalizing, It
  <1>2. ASSUME NEW q \in Requests, q # r PROVE RowsFit(q)' /\ Unspent(q)'
    <2>1. CASE It(q) \in Orders /\ It(q) # o
      BY <1>2, <2>1 DEF OwnersInv, RowsFit, Unspent, Owns, Making, Finalizing, It
    <2>2. CASE It(q) = o
      <3>1. ~Owns(q) /\ CallersFit(q) /\ RowsFit(q)
        BY <1>2, <2>2 DEF OwnersInv
      <3>2. QED BY <1>2, <2>2, <3>1
                   DEF CallersFit, RowsFit, Unspent, Owns, Making, Finalizing, It, ApplySteps, InOrderTx
    <2>3. CASE It(q) \notin Orders
      BY <1>2, <2>3 DEF Busy, RowsFit, Unspent, Owns, Making, Finalizing, It, ApplySteps, InOrderTx
    <2>4. QED BY <2>1, <2>2, <2>3
  <1>3. OneOwner'
    BY <1>1 DEF OwnersInv, OneOwner
  <1>4. ASSUME NEW p \in Orders PROVE Books(p)'
    BY <1>4 DEF OwnersInv, Books
  <1>5. QED BY <1>1, <1>2, <1>3, <1>4 DEF OwnersInv

\* A step of the order at the counter, or of the button of the demo.
LEMMA OrderStep ==
  ASSUME Busy, OwnersInv,
         \A q \in Requests : \/ req'[q] = req[q]
                            \/ /\ CallersFit(q)' /\ RowsFit(q)' /\ Unspent(q)'
                               /\ Owns(q)' => Owns(q) /\ It(q)' = It(q),
         NEW o \in Orders, order[o] # "none", order'[o] # "none",
         \A p \in Orders : p # o => order'[p] = order[p] /\ awarded'[p] = awarded[p],
         UNCHANGED <<demoMode, intent, spent, retried>>,
         \/ demoMode
         \/ order[o] = "placed" /\ order'[o] = "completed" /\ awarded'[o] = awarded[o]
  PROVE  OwnersInv'
  <1>1. ASSUME NEW q \in Requests, req'[q] = req[q]
        PROVE  CallersFit(q)' /\ (Owns(q)' <=> Owns(q)) /\ It(q)' = It(q) /\ Unspent(q)'
    BY <1>1 DEF OwnersInv, CallersFit, Unspent, Owns, Making, Finalizing, It
  <1>2. ASSUME NEW q \in Requests, req'[q] = req[q] PROVE RowsFit(q)'
    <2>1. CASE It(q) = o
      BY <1>2, <2>1 DEF OwnersInv, RowsFit, Making, Finalizing, It
    <2>2. CASE It(q) \in Orders /\ It(q) # o
      BY <1>2, <2>2 DEF OwnersInv, RowsFit, Making, Finalizing, It
    <2>3. CASE It(q) \notin Orders
      BY <1>2, <2>3 DEF Busy, RowsFit, Making, Finalizing, It, ApplySteps, InOrderTx
    <2>4. QED BY <2>1, <2>2, <2>3
  <1>3. OneOwner'
    BY <1>1 DEF OwnersInv, OneOwner
  <1>4. ASSUME NEW p \in Orders PROVE Books(p)'
    BY <1>4 DEF OwnersInv, Books
  <1>5. QED BY <1>1, <1>2, <1>3, <1>4 DEF OwnersInv

\* The payment is marked as failed.
LEMMA FailStep ==
  ASSUME TypeOK, Busy, OwnersInv, NEW r \in Requests, MarkFailed(r)
  PROVE  OwnersInv'
  <1>1. It(r) \in Orders /\ intent[It(r)] # "none"
    BY DEF MarkFailed, At, Busy, OwnersInv, RowsFit
  <1>2. /\ \A q \in Requests : q # r => req'[q] = req[q]
        /\ req'[r] = Idle
    BY GoTyped DEF MarkFailed, TypeOK, Steps
  <1>3. /\ \A p \in Orders : p # It(r) => intent'[p] = intent[p]
        /\ intent'[It(r)] = IF intent[It(r)] = "SUCCEEDED" THEN "SUCCEEDED" ELSE "FAILED"
        /\ UNCHANGED <<demoMode, order, spent, awarded, retried>>
    BY <1>1 DEF MarkFailed, TypeOK, settings, orderVars, pointVars
  <1>4. CallersFit(r)' /\ RowsFit(r)' /\ Unspent(r)' /\ ~Owns(r)'
    BY <1>2 DEF CallersFit, RowsFit, Unspent, Owns, Making, Finalizing, Idle, ApplySteps, InOrderTx
  <1>5. ASSUME NEW q \in Requests, q # r
        PROVE  CallersFit(q)' /\ (Owns(q)' <=> Owns(q)) /\ It(q)' = It(q) /\ Unspent(q)'
    BY <1>2, <1>3, <1>5 DEF OwnersInv, CallersFit, Unspent, Owns, Making, Finalizing, It
  <1>6. ASSUME NEW q \in Requests, q # r PROVE RowsFit(q)'
    <2>1. CASE It(q) = It(r)
      BY <1>1, <1>2, <1>3, <1>6, <2>1 DEF OwnersInv, RowsFit, CallersFit, Making, Finalizing, It
    <2>2. CASE It(q) \in Orders /\ It(q) # It(r)
      BY <1>2, <1>3, <1>6, <2>2 DEF OwnersInv, RowsFit, Making, Finalizing, It
    <2>3. CASE It(q) \notin Orders
      BY <1>2, <1>6, <2>3 DEF Busy, RowsFit, Making, Finalizing, It, ApplySteps, InOrderTx
    <2>4. QED BY <2>1, <2>2, <2>3
  <1>7. OneOwner'
    BY <1>4, <1>5 DEF OwnersInv, OneOwner
  <1>8. ASSUME NEW o \in Orders PROVE Books(o)'
    BY <1>1, <1>3, <1>8 DEF OwnersInv, Books
  <1>9. QED BY <1>4, <1>5, <1>6, <1>7, <1>8 DEF OwnersInv

\* The request ends.
LEMMA StopStep ==
  ASSUME TypeOK, Busy, OwnersInv, NEW r \in Requests, Go(r, "idle"),
         UNCHANGED <<demoMode, order, intent, spent, awarded>>, retried \subseteq retried'
  PROVE  OwnersInv'
  <1>1. /\ \A q \in Requests : q # r => req'[q] = req[q]
        /\ req'[r] = Idle
    BY GoTyped DEF TypeOK, Steps
  <1>2. CallersFit(r)' /\ RowsFit(r)' /\ Unspent(r)' /\ ~Owns(r)'
    BY <1>1 DEF CallersFit, RowsFit, Unspent, Owns, Making, Finalizing, Idle, ApplySteps, InOrderTx
  <1>3. QED BY <1>1, <1>2, CalmStep

\* The request goes on without a change of the data.
LEMMA GoOnStep ==
  ASSUME TypeOK, Busy, OwnersInv, NEW r \in Requests, NEW s \in Steps, Go(r, s), It(r) \in Orders,
         UNCHANGED <<demoMode, order, intent, spent, awarded>>, retried \subseteq retried',
         \/ s = "idle"
         \/ s = "create" /\ At(r, "discount")
         \/ s = "intent" /\ At(r, "request")
         \/ s = "reply" /\ At(r, "claim")
         \/ s = "place" /\ At(r, "finalize") /\ order[It(r)] = "pending_payment"
         \/ s = "promote" /\ At(r, "finalize") /\ req[r].caller # "button"
         \/ s = "referral" /\ At(r, "place")
         \/ s \in {"award", "reward"} /\ At(r, "referral")
         \/ s = "use" /\ At(r, "promote")
         \/ s = "succeed" /\ (At(r, "promote") \/ At(r, "use")) /\ req[r].caller \notin {"free", "demo"}
         \/ s = "rollback" /\ Applying(r) /\ (At(r, "succeed") => It(r) \in retried')
  PROVE  OwnersInv'
  <1>1. CASE s = "idle"
    BY <1>1, StopStep
  <1>2. CASE s # "idle"
    <2>1. /\ \A q \in Requests : q # r => req'[q] = req[q]
          /\ req'[r].step = s /\ req'[r].at = req[r].at /\ req'[r].caller = req[r].caller
      BY <1>2, GoTyped DEF TypeOK
    <2>2. CallersFit(r) /\ RowsFit(r) /\ Unspent(r) /\ req[r].caller \in Callers
      BY DEF OwnersInv, TypeOK, LocalState
    <2>3. CallersFit(r)'
      BY <1>2, <2>1, <2>2 DEF CallersFit, Making, At, Callers, Applying, ApplySteps, InOrderTx
    <2>4. Owns(r)' => Owns(r) /\ It(r)' = It(r)
      BY <1>2, <2>1, <2>2 DEF Owns, CallersFit, Making, Finalizing, At, It, Applying, ApplySteps, InOrderTx
    <2>5. RowsFit(r)'
      BY <1>2, <2>1, <2>2
         DEF RowsFit, CallersFit, Making, Finalizing, At, It, Applying, ApplySteps, InOrderTx
    <2>6. Unspent(r)'
      BY <1>2, <2>1, <2>2, <2>4 DEF Unspent, At, It
    <2>7. QED BY <2>1, <2>3, <2>4, <2>5, <2>6, CalmStep
  <1>3. QED BY <1>1, <1>2

\* A request comes in.
LEMMA BeginStep ==
  ASSUME TypeOK, Busy, OwnersInv, NEW r \in Requests, NEW s \in Steps,
         NEW o \in Orders \cup {NoOrder}, NEW c \in Callers, Begin(r, s, o, c),
         UNCHANGED <<demoMode, order, intent, spent, awarded, retried>>,
         \/ s \in {"claim", "fail"} /\ c = "notice" /\ o \in Orders /\ intent[o] # "none"
         \/ s = "finalize" /\ c = "button" /\ demoMode /\ o \in Orders /\ order[o] # "none"
         \/ s \in {"storeUse", "revoke"} /\ c = "none"
  PROVE  OwnersInv'
  <1>1. /\ \A q \in Requests : q # r => req'[q] = req[q]
        /\ req'[r].step = s /\ req'[r].at = o /\ req'[r].caller = c
    BY BeginTyped DEF TypeOK
  <1>2. CallersFit(r)' /\ ~Owns(r)'
    BY <1>1 DEF CallersFit, Owns, Making, Finalizing, ApplySteps, InOrderTx
  <1>3. RowsFit(r)' /\ Unspent(r)'
    BY <1>1, <1>2 DEF RowsFit, Unspent, Owns, Making, Finalizing, It, ApplySteps, InOrderTx
  <1>4. QED BY <1>1, <1>2, <1>3, CalmStep

\* A checkout begins.
LEMMA NewStep ==
  ASSUME TypeOK, Busy, OwnersInv, NEW r \in Requests, NEW o \in Orders, New(o),
         NEW s \in {"discount", "create"}, Begin(r, s, o, "checkout"),
         UNCHANGED <<demoMode, order, intent, spent, awarded, retried>>
  PROVE  OwnersInv'
  <1>1. /\ \A q \in Requests : q # r => req'[q] = req[q]
        /\ req'[r].step = s /\ req'[r].at = o /\ req'[r].caller = "checkout"
    BY BeginTyped DEF TypeOK, Steps, Callers
  <1>2. order[o] = "none" /\ Books(o)
    BY DEF New, OwnersInv
  <1>3. intent[o] = "none" /\ (o \notin retried => spent[o] = 0)
    BY <1>2 DEF Books, TypeOK
  <1>4. CallersFit(r)' /\ It(r)' = o
    BY <1>1 DEF CallersFit, It, ApplySteps, InOrderTx
  <1>5. RowsFit(r)' /\ Unspent(r)' /\ Books(o)'
    BY <1>1, <1>2, <1>3
       DEF RowsFit, Unspent, Books, Owns, Making, Finalizing, It, ApplySteps, InOrderTx
  <1>6. \A q \in Requests : It(q) # o
    BY DEF New
  <1>7. QED BY <1>1, <1>4, <1>5, <1>6, OwnerStep

\* A checkout keeps OwnersInv.
LEMMA OwnersCheckout ==
  ASSUME TypeOK, Busy, OwnersInv, NEW r \in Requests, Checkout(r)
  PROVE  OwnersInv'
  <1> USE DEF settings, orderVars, pointVars, payVars
  <1>1. CASE \E o \in Orders : CheckoutPlain(r, o) \/ LockVoucher(r, o) \/ CheckPromotion(r, o)
    BY <1>1, NewStep DEF CheckoutPlain, LockVoucher, CheckPromotion
  <1>2. ASSUME NEW s \in {"discount", "create", "request", "intent", "reply"}, At(r, s)
        PROVE  It(r) \in Orders
    BY <1>2 DEF Busy, At
  <1>3. CASE Discount(r) \/ Refuse(r) \/ RequestPayment(r) \/ Reply(r)
    BY <1>2, <1>3, GoOnStep DEF Discount, Refuse, RequestPayment, Reply, Steps
  <1>4. ASSUME Making(r) PROVE \A q \in Requests : q # r /\ Owns(q) => It(q) # It(r)
    BY <1>4 DEF OwnersInv, OneOwner, Owns
  <1>5. CASE CreateOrder(r)
    <2>1. It(r) \in Orders /\ Making(r) /\ At(r, "create")
      BY <1>2, <1>5 DEF CreateOrder, Making, At
    <2>2. CallersFit(r) /\ RowsFit(r) /\ Unspent(r) /\ Books(It(r)) /\ req[r] \in LocalState
      BY <2>1 DEF OwnersInv, TypeOK
    <2>3. PICK s \in {"promote", "finalize", "request"}, c \in {"demo", "free", "checkout"} :
            /\ req' = [req EXCEPT ![r] = [req[r] EXCEPT !.step = s, !.caller = c]]
            /\ \/ s = "promote" /\ c = "demo" /\ demoMode
               \/ s = "finalize" /\ c = "free" /\ ~demoMode
               \/ s = "request" /\ c = "checkout"
      <3>1. req[r].caller = "checkout"
        BY <2>1, <2>2 DEF CallersFit
      <3>2. [req[r] EXCEPT !.step = "request"]
              = [req[r] EXCEPT !.step = "request", !.caller = "checkout"]
        BY <2>2, <3>1 DEF LocalState
      <3>3. QED BY <1>5, <3>2 DEF CreateOrder, Go, TypeOK
    <2>4. /\ \A q \in Requests : q # r => req'[q] = req[q]
          /\ req'[r].step = s /\ req'[r].at = req[r].at /\ req'[r].caller = c
      BY <2>2, <2>3 DEF TypeOK, LocalState
    <2>5. /\ \A p \in Orders : p # It(r) => order'[p] = order[p]
          /\ order'[It(r)] = "pending_payment"
          /\ UNCHANGED <<demoMode, intent, spent, awarded, retried>>
      BY <1>5, <2>1 DEF CreateOrder, TypeOK
    <2>6. order[It(r)] = "none" /\ intent[It(r)] = "none"
      BY <2>1, <2>2 DEF RowsFit, At
    <2>7. CallersFit(r)' /\ It(r)' = It(r)
      BY <2>3, <2>4, <2>5 DEF CallersFit, Making, It, ApplySteps, InOrderTx
    <2>8. RowsFit(r)'
      BY <2>3, <2>4, <2>5, <2>6 DEF RowsFit, Making, Finalizing, It, ApplySteps, InOrderTx
    <2>9. Unspent(r)' /\ Books(It(r))'
      BY <2>1, <2>2, <2>4, <2>5, <2>6, <2>7 DEF Unspent, Books, Owns, At
    <2>10. QED BY <1>4, <2>1, <2>4, <2>5, <2>7, <2>8, <2>9, OwnerStep
  <1>6. CASE CreateIntent(r)
    <2>1. It(r) \in Orders /\ Making(r) /\ At(r, "intent")
      BY <1>2, <1>6 DEF CreateIntent, Making, At
    <2>2. CallersFit(r) /\ RowsFit(r) /\ Unspent(r) /\ Books(It(r))
      BY <2>1 DEF OwnersInv
    <2>3. PICK s \in {"claim", "reply"} : Go(r, s)
      BY <1>6 DEF CreateIntent
    <2>4. /\ \A q \in Requests : q # r => req'[q] = req[q]
          /\ req'[r].step = s /\ req'[r].at = req[r].at /\ req'[r].caller = req[r].caller
      BY <2>1, <2>3, GoTyped DEF TypeOK, Steps
    <2>5. /\ \A p \in Orders : p # It(r) => intent'[p] = intent[p]
          /\ intent'[It(r)] = "PENDING"
          /\ UNCHANGED <<demoMode, order, spent, awarded, retried>>
      BY <1>6, <2>1 DEF CreateIntent, TypeOK
    <2>6. CallersFit(r)' /\ ~Owns(r)' /\ It(r)' = It(r)
      BY <2>1, <2>2, <2>4, <2>5
         DEF CallersFit, Owns, Making, Finalizing, It, ApplySteps, InOrderTx
    <2>7. RowsFit(r)' /\ Unspent(r)'
      BY <2>4, <2>5, <2>6 DEF RowsFit, Unspent, Owns, Making, Finalizing, It, ApplySteps, InOrderTx
    <2>8. Books(It(r))'
      BY <2>1, <2>2, <2>5, <2>6 DEF RowsFit, Unspent, Books, Owns, At, TypeOK
    <2>9. QED BY <1>4, <2>1, <2>4, <2>5, <2>6, <2>7, <2>8, OwnerStep
  <1>7. QED BY <1>1, <1>3, <1>5, <1>6 DEF Checkout

\* A request that finalizes an order writes what is the order's, and nobody else can.
LEMMA FinalizerStep ==
  ASSUME TypeOK, Busy, OwnersInv, NEW r \in Requests, NEW o \in Orders, It(r) = o,
         NEW s \in Steps, Go(r, s),
         Finalizing(r) \/ (At(r, "claim") /\ intent[o] = "PENDING"),
         UNCHANGED <<demoMode, retried>>,
         \A p \in Orders : p # o => /\ order'[p] = order[p] /\ intent'[p] = intent[p]
                                        /\ spent'[p] = spent[p] /\ awarded'[p] = awarded[p],
         order[o] # "none" => order'[o] # "none",
         intent[o] # "none" => intent'[o] # "none",
         CallersFit(r)', RowsFit(r)', Unspent(r)', Books(o)'
  PROVE  OwnersInv'
  <1>1. /\ \A q \in Requests : q # r => req'[q] = req[q]
        /\ s # "idle" => req'[r].at = req[r].at
        /\ s = "idle" => req'[r] = Idle
    BY GoTyped DEF TypeOK
  <1>2. Owns(r)' => It(r)' = o
    BY <1>1 DEF Owns, Making, Finalizing, Idle, It, ApplySteps, InOrderTx
  <1>3. ASSUME NEW q \in Requests, q # r, Owns(q) PROVE It(q) # o
    <2>1. CASE Finalizing(r)
      BY <1>3, <2>1 DEF OwnersInv, OneOwner, Owns
    <2>2. CASE intent[o] = "PENDING"
      BY <1>3, <2>2 DEF OwnersInv, RowsFit, Owns
    <2>3. QED BY <2>1, <2>2
  <1>4. QED BY <1>1, <1>2, <1>3, OwnerStep

\* The claim of a payment and its end keep OwnersInv.
LEMMA OwnersPay ==
  ASSUME TypeOK, Busy, OwnersInv, NEW r \in Requests, NEW o \in Orders, It(r) = o,
         Claim(r) \/ Succeed(r) \/ Rollback(r)
  PROVE  OwnersInv'
  <1>1. /\ UNCHANGED <<demoMode, order, spent, awarded, retried>>
        /\ \A p \in Orders : p # o => intent'[p] = intent[p]
    BY DEF Claim, Succeed, Rollback, TypeOK, settings, orderVars, pointVars
  <1>2. /\ CallersFit(r) /\ RowsFit(r) /\ Unspent(r) /\ Books(o) /\ req[r].caller \in Callers
        /\ req[r].step \in Steps
    BY DEF OwnersInv, TypeOK, LocalState
  <1>3. CASE Claim(r) /\ intent[o] # "PENDING"
    <2>1. PICK s \in {"reply", "idle"} : Go(r, s)
      BY <1>3 DEF Claim, Return
    <2>2. UNCHANGED intent /\ At(r, "claim")
      BY <1>3 DEF Claim
    <2>3. QED BY <1>1, <2>1, <2>2, GoOnStep DEF Steps
  <1>4. CASE Claim(r) /\ intent[o] = "PENDING"
    <2>1. At(r, "claim") /\ Go(r, "finalize") /\ intent'[o] = "PROCESSING"
      BY <1>4 DEF Claim, TypeOK
    <2>2. /\ req'[r].step = "finalize" /\ req'[r].at = req[r].at /\ req'[r].caller = req[r].caller
      BY <2>1, GoTyped DEF TypeOK, Steps, ApplySteps
    <2>3. order[o] # "none" /\ (o \notin retried => spent[o] = 0)
      BY <1>2, <1>4 DEF Books, TypeOK
    <2>4. req[r].caller \in {"checkout", "notice"}
      BY <1>2, <2>1 DEF CallersFit, At
    <2>5. CallersFit(r)' /\ RowsFit(r)' /\ Unspent(r)'
      BY <1>1, <2>1, <2>2, <2>3, <2>4
         DEF CallersFit, RowsFit, Unspent, Making, Finalizing, It, ApplySteps, InOrderTx
    <2>6. Books(o)'
      BY <1>1, <1>2, <2>1, <2>3 DEF Books
    <2>7. QED BY <1>1, <1>4, <2>1, <2>3, <2>5, <2>6, FinalizerStep DEF Steps, ApplySteps
  <1>5. CASE Succeed(r)
    <2>1. PICK s \in {"reply", "idle"} : Go(r, s)
      BY <1>5 DEF Succeed, Return
    <2>2. At(r, "succeed") /\ intent'[o] = "SUCCEEDED"
      BY <1>5 DEF Succeed, TypeOK
    <2>3. /\ req'[r].step = s
          /\ s # "idle" => req'[r].at = req[r].at /\ req'[r].caller = req[r].caller
          /\ s = "idle" => req'[r] = Idle
      BY <2>1, GoTyped DEF TypeOK, Steps
    <2>4. Finalizing(r) /\ order[o] # "none" /\ req[r].caller \in {"checkout", "notice"}
      BY <1>2, <2>2 DEF CallersFit, RowsFit, Finalizing, At, ApplySteps
    <2>5. CallersFit(r)' /\ RowsFit(r)' /\ Unspent(r)'
      BY <1>1, <2>1, <2>2, <2>3, <2>4
         DEF CallersFit, RowsFit, Unspent, Owns, Making, Finalizing, It, Idle, ApplySteps, InOrderTx
    <2>6. Books(o)'
      BY <1>1, <1>2, <2>2, <2>4 DEF Books
    <2>7. QED BY <1>1, <2>1, <2>2, <2>4, <2>5, <2>6, FinalizerStep DEF Steps
  <1>6. CASE Rollback(r)
    <2>1. At(r, "rollback") /\ Go(r, "idle") /\ intent'[o] = "PENDING"
      BY <1>6 DEF Rollback, TypeOK
    <2>2. req'[r] = Idle
      BY <2>1, GoTyped DEF TypeOK, Steps
    <2>3. Finalizing(r) /\ intent[o] # "none"
      BY <1>2, <2>1 DEF CallersFit, RowsFit, Finalizing, At
    <2>4. order[o] # "none" /\ (o \notin retried => spent[o] = 0)
      BY <1>2, <2>1, <2>3 DEF Books, Unspent, Owns, At
    <2>5. CallersFit(r)' /\ RowsFit(r)' /\ Unspent(r)'
      BY <1>1, <2>2
         DEF CallersFit, RowsFit, Unspent, Owns, Making, Finalizing, It, Idle, ApplySteps, InOrderTx
    <2>6. Books(o)'
      BY <1>1, <1>2, <2>1, <2>4 DEF Books
    <2>7. QED BY <1>1, <2>1, <2>3, <2>4, <2>5, <2>6, FinalizerStep DEF Steps
  <1>7. QED BY <1>3, <1>4, <1>5, <1>6

\* The award of points keeps OwnersInv.
LEMMA OwnersAward ==
  ASSUME TypeOK, Busy, OwnersInv, NEW r \in Requests, NEW o \in Orders, It(r) = o, Award(r)
  PROVE  OwnersInv'
  <1>1. /\ CallersFit(r) /\ RowsFit(r) /\ Unspent(r) /\ Books(o) /\ req[r].caller \in Callers
        /\ req[r].step \in {"award", "reward"}
    BY DEF Award, At, OwnersInv, TypeOK, LocalState
  <1>2. /\ UNCHANGED <<demoMode, intent, spent, retried>> /\ order'[o] = "placed"
        /\ awarded'[o] = awarded[o] + 1
        /\ \A p \in Orders : p # o => order'[p] = order[p] /\ awarded'[p] = awarded[p]
    BY DEF Award, TypeOK, settings, payVars
  <1>3. order[o] # "none"
    BY <1>1 DEF RowsFit, ApplySteps, InOrderTx
  <1>4. CASE req[r].caller = "button"
    <2>1. demoMode /\ Go(r, "idle")
      BY <1>1, <1>4 DEF Award, AfterOrder, CallersFit
    <2>2. /\ \A q \in Requests : q # r => req'[q] = req[q]
          /\ req'[r] = Idle
      BY <2>1, GoTyped DEF TypeOK, Steps
    <2>3. CallersFit(r)' /\ RowsFit(r)' /\ Unspent(r)' /\ ~Owns(r)'
      BY <2>2 DEF CallersFit, RowsFit, Unspent, Owns, Making, Finalizing, Idle, ApplySteps, InOrderTx
    <2>4. QED BY <1>2, <1>3, <2>1, <2>2, <2>3, OrderStep
  <1>5. CASE req[r].caller # "button"
    <2>1. Go(r, "promote") /\ Finalizing(r)
      BY <1>1, <1>5 DEF Award, AfterOrder, Finalizing, ApplySteps, InOrderTx
    <2>2. /\ req'[r].step = "promote" /\ req'[r].at = req[r].at /\ req'[r].caller = req[r].caller
      BY <2>1, GoTyped DEF TypeOK, Steps, ApplySteps
    <2>3. CallersFit(r)'
      BY <1>1, <1>2, <1>5, <2>2 DEF CallersFit, Making, ApplySteps, InOrderTx
    <2>4. RowsFit(r)' /\ Unspent(r)'
      BY <1>1, <1>2, <2>1, <2>2
         DEF RowsFit, Unspent, Owns, Making, Finalizing, It, ApplySteps, InOrderTx
    <2>5. Books(o)'
      <3>1. ~demoMode => order[o] = "pending_payment"
        BY <1>1 DEF RowsFit, InOrderTx
      <3>2. ~demoMode => awarded'[o] = 1
        BY <1>1, <1>2, <3>1 DEF Books
      <3>3. QED BY <1>1, <1>2, <3>2 DEF Books
    <2>6. QED BY <1>2, <2>1, <2>3, <2>4, <2>5, FinalizerStep DEF Steps, ApplySteps
  <1>6. QED BY <1>4, <1>5

\* The look at the promotion keeps OwnersInv.
LEMMA OwnersPromote ==
  ASSUME TypeOK, Busy, OwnersInv, NEW r \in Requests, NEW o \in Orders, It(r) = o, Promote(r)
  PROVE  OwnersInv'
  <1>1. /\ CallersFit(r) /\ RowsFit(r) /\ Unspent(r) /\ Books(o) /\ req[r].caller \in Callers
        /\ At(r, "promote") /\ req[r].caller # "button" /\ order[o] # "none"
    BY DEF Promote, At, OwnersInv, TypeOK, LocalState, CallersFit, RowsFit, ApplySteps
  <1>2. /\ UNCHANGED <<demoMode, order, intent, awarded, retried>>
    BY DEF Promote, settings, orderVars, payVars
  <1>3. CASE UNCHANGED spent /\ Go(r, "use")
    BY <1>1, <1>2, <1>3, GoOnStep DEF Steps, ApplySteps
  <1>4. CASE UNCHANGED spent /\ Go(r, AfterPromotions(r))
    <2>1. CASE req[r].caller \in {"free", "demo"}
      BY <1>2, <1>4, <2>1, StopStep DEF AfterPromotions
    <2>2. CASE req[r].caller \notin {"free", "demo"}
      <3>1. Go(r, "succeed")
        BY <1>4, <2>2 DEF AfterPromotions
      <3>2. QED BY <1>1, <1>2, <1>4, <2>2, <3>1, GoOnStep DEF Steps, ApplySteps
    <2>3. QED BY <2>1, <2>2
  <1>5. CASE UNCHANGED spent /\ Throw(r)
    <2>1. CASE Applying(r)
      BY <1>1, <1>2, <1>5, <2>1, GoOnStep DEF Throw, Steps, At
    <2>2. CASE ~Applying(r)
      BY <1>2, <1>5, <2>2, StopStep DEF Throw
    <2>3. QED BY <2>1, <2>2
  <1>6. CASE spent' = [spent EXCEPT ![o] = @ + 1] /\ Go(r, AfterPromotions(r))
    <2>1. /\ spent'[o] = spent[o] + 1
          /\ \A p \in Orders : p # o => spent'[p] = spent[p]
      BY <1>6 DEF TypeOK
    <2>2. PICK s \in {"idle", "succeed"} :
            Go(r, s) /\ (s = "succeed" => req[r].caller \notin {"free", "demo"})
      BY <1>6 DEF AfterPromotions
    <2>3. /\ req'[r].step = s
          /\ s # "idle" => req'[r].at = req[r].at /\ req'[r].caller = req[r].caller
          /\ s = "idle" => req'[r] = Idle
      BY <2>2, GoTyped DEF TypeOK, Steps, ApplySteps
    <2>4. Finalizing(r)
      BY <1>1 DEF Finalizing, At, ApplySteps
    <2>5. req[r].caller \in {"checkout", "notice", "free", "demo"}
      BY <1>1 DEF CallersFit, At, Callers, ApplySteps
    <2>6. CallersFit(r)'
      BY <1>1, <1>2, <2>2, <2>3, <2>5 DEF CallersFit, Making, Idle, ApplySteps, InOrderTx
    <2>7. RowsFit(r)' /\ Unspent(r)'
      BY <1>1, <1>2, <2>2, <2>3, <2>4, <2>5
         DEF RowsFit, Unspent, Owns, Making, Finalizing, It, Idle, ApplySteps, InOrderTx
    <2>8. Books(o)'
      <3>1. o \notin retried => spent[o] = 0
        BY <1>1, <2>4 DEF Unspent, Owns, At
      <3>2. intent[o] # "PENDING"
        BY <1>1, <2>4 DEF RowsFit
      <3>3. QED BY <1>1, <1>2, <2>1, <3>1, <3>2 DEF Books
    <2>9. QED BY <1>2, <2>1, <2>2, <2>4, <2>6, <2>7, <2>8, FinalizerStep DEF Steps, ApplySteps
  <1>7. QED BY <1>3, <1>4, <1>5, <1>6 DEF Promote, pointVars

\* A finalization keeps OwnersInv.
LEMMA OwnersApply ==
  ASSUME TypeOK, Busy, OwnersInv, NEW r \in Requests, Apply(r)
  PROVE  OwnersInv'
  <1>1. It(r) \in Orders
    BY DEF Apply, Claim, ReadOrder, Place, Referral, Award, Promote, Use, Succeed, Rollback, At, Busy,
           ApplySteps, InOrderTx
  <1>2. CASE Claim(r) \/ Succeed(r) \/ Rollback(r)
    BY <1>1, <1>2, OwnersPay
  <1>3. CASE Award(r)
    BY <1>1, <1>3, OwnersAward
  <1>4. CASE Promote(r)
    BY <1>1, <1>4, OwnersPromote
  <1>5. CASE ReadOrder(r) \/ Place(r) \/ Referral(r) \/ Use(r)
    <2>1. UNCHANGED <<demoMode, order, intent, spent, awarded, retried>>
      BY <1>5 DEF ReadOrder, Place, Referral, Use, settings, orderVars, pointVars, payVars
    <2>2. CASE ReadOrder(r)
      <3>1. \/ Go(r, "place") /\ order[It(r)] = "pending_payment"
            \/ Go(r, "promote") /\ req[r].caller # "button"
            \/ Go(r, "idle")
        BY <2>2 DEF ReadOrder, Awaiting, AfterOrder
      <3>2. QED BY <1>1, <2>1, <2>2, <3>1, GoOnStep DEF ReadOrder, Steps, ApplySteps
    <2>3. CASE Place(r) \/ Referral(r)
      <3>1. \/ Go(r, "referral") /\ At(r, "place")
            \/ \E s \in {"award", "reward"} : Go(r, s) /\ At(r, "referral")
        BY <2>3 DEF Place, Referral
      <3>2. QED BY <1>1, <2>1, <3>1, GoOnStep DEF Steps, ApplySteps, InOrderTx
    <2>4. CASE Use(r)
      <3>1. At(r, "use") /\ (Go(r, "idle") \/ (Go(r, "succeed") /\ req[r].caller \notin {"free", "demo"}))
        BY <2>4 DEF Use, AfterPromotions
      <3>2. QED BY <1>1, <2>1, <3>1, GoOnStep DEF Steps, ApplySteps
    <2>5. QED BY <1>5, <2>2, <2>3, <2>4
  <1>6. QED BY <1>2, <1>3, <1>4, <1>5 DEF Apply

\* Every step keeps OwnersInv.
LEMMA OwnersNext ==
  ASSUME TypeOK, Busy, OwnersInv, [Next]_vars
  PROVE  OwnersInv'
  <1> USE DEF settings, orderVars, pointVars, payVars
  <1>1. ASSUME NEW r \in Requests, Notice(r) PROVE OwnersInv'
    <2>1. CASE \E o \in Orders : Settle(r, o) \/ FailureNotice(r, o)
      BY <2>1, BeginStep DEF Settle, FailureNotice, Steps, Callers
    <2>2. CASE \E o \in Orders : CompleteDemo(r, o)
      BY <2>2, BeginStep DEF CompleteDemo, Awaiting, Steps, ApplySteps, Callers
    <2>3. CASE MarkFailed(r)
      BY <2>3, FailStep
    <2>4. QED BY <1>1, <2>1, <2>2, <2>3 DEF Notice
  <1>2. ASSUME UNCHANGED <<demoMode, order, intent, spent, awarded, retried, req>> PROVE OwnersInv'
    BY <1>2 DEF OwnersInv, OneOwner, CallersFit, RowsFit, Unspent, Books, Owns, Making, Finalizing, It
  <1>3. ASSUME NEW r \in Requests, Counter(r) PROVE OwnersInv'
    <2>1. UNCHANGED <<demoMode, order, intent, spent, awarded, retried>>
      BY <1>3 DEF Counter, RedeemInStore, StoreUse, Revoke, Withdraw
    <2>2. \/ UNCHANGED req
          \/ \E s \in {"storeUse", "revoke"} : Begin(r, s, NoOrder, "none")
          \/ Go(r, "idle")
      BY <1>3 DEF Counter, RedeemInStore, StoreUse, Revoke, Withdraw
    <2>3. QED BY <1>2, <2>1, <2>2, BeginStep, StopStep DEF Steps, Callers
  <1>4. ASSUME NEW r \in Requests, Fault(r) \/ Crash(r) PROVE OwnersInv'
    <2>1. UNCHANGED <<demoMode, order, intent, spent, awarded>> /\ retried \subseteq retried'
      BY <1>4 DEF Fault, Crash
    <2>2. CASE Go(r, "idle")
      BY <2>1, <2>2, StopStep
    <2>3. CASE Fault(r) /\ Applying(r)
      <3>1. Go(r, "rollback") /\ (At(r, "succeed") => It(r) \in retried')
        BY <2>3 DEF Fault, Throw
      <3>2. It(r) \in Orders
        BY <2>3 DEF Applying, Busy, ApplySteps, InOrderTx
      <3>3. QED BY <2>1, <2>3, <3>1, <3>2, GoOnStep DEF Steps
    <2>4. QED BY <1>4, <2>2, <2>3 DEF Fault, Crash, Throw
  <1>5. ASSUME NEW o \in Orders, CompleteOrder(o) PROVE OwnersInv'
    BY <1>5, OrderStep DEF CompleteOrder, TypeOK
  <1>6. CASE Lapse \/ \E o \in Orders : Pay(o) \/ PaymentFails(o)
    BY <1>2, <1>6 DEF Lapse, Pay, PaymentFails
  <1>7. CASE UNCHANGED vars
    BY <1>2, <1>7 DEF vars
  <1>8. QED BY <1>1, <1>3, <1>4, <1>5, <1>6, <1>7, OwnersCheckout, OwnersApply DEF Next

\* What is true of every state that can be reached.
THEOREM Owners == Spec => [](TypeOK /\ Busy /\ OwnersInv)
  <1>1. Init => OwnersInv
    BY DEF Init, OwnersInv, OneOwner, CallersFit, RowsFit, Unspent, Books, Owns, Making, Finalizing,
           Idle, ApplySteps, InOrderTx
  <1>2. QED BY <1>1, OwnersNext, TypeCorrect, PTL DEF Spec

\* Whatever webhook, poll, checkout and retry do, the points of an order are awarded once.
THEOREM AwardsOnce == Spec => []AwardedOnce
  <1>1. OwnersInv => AwardedOnce
    BY DEF OwnersInv, Books, AwardedOnce
  <1>2. QED BY <1>1, Owners, PTL

\* The points of a reward are taken once, unless the payment could not be settled after it.
THEOREM RewardPaidOnce == Spec => []PointsSpentOnce
  <1>1. OwnersInv => PointsSpentOnce
    BY DEF OwnersInv, Books, PointsSpentOnce
  <1>2. QED BY <1>1, Owners, PTL

\* A completed order is never put back in the queue.
THEOREM NeverReopened == Spec => OrderNeverReopens
  <1>1. ASSUME TypeOK, Busy, OwnersInv, Next, ~demoMode, NEW o \in Orders, order[o] = "completed"
        PROVE  order'[o] = "completed"
    <2>1. ASSUME NEW r \in Requests, CreateOrder(r) PROVE order'[o] = "completed"
      <3>1. order[It(r)] = "none"
        BY <1>1, <2>1 DEF CreateOrder, At, OwnersInv, RowsFit
      <3>2. QED BY <1>1, <2>1, <3>1 DEF CreateOrder, TypeOK
    <2>2. ASSUME NEW r \in Requests, Award(r) PROVE order'[o] = "completed"
      <3>1. order[It(r)] = "pending_payment"
        BY <1>1, <2>2 DEF Award, At, OwnersInv, RowsFit, InOrderTx
      <3>2. QED BY <1>1, <2>2, <3>1 DEF Award, TypeOK
    <2>3. ASSUME NEW p \in Orders, CompleteOrder(p) PROVE order'[o] = "completed"
      BY <1>1, <2>3 DEF CompleteOrder, TypeOK
    <2>4. CASE UNCHANGED order
      BY <1>1, <2>4
    <2>5. QED
      BY <1>1, <2>1, <2>2, <2>3, <2>4
         DEF Next, Checkout, CheckoutPlain, LockVoucher, CheckPromotion, Discount, Refuse,
             RequestPayment, CreateIntent, Reply, Apply, Claim, ReadOrder, Place, Referral, Promote,
             Use, Succeed, Rollback, Notice, Settle, FailureNotice, CompleteDemo, MarkFailed, Counter,
             RedeemInStore, StoreUse, Revoke, Withdraw, Fault, Crash, Pay, PaymentFails, Lapse, orderVars
  <1>2. TypeOK /\ Busy /\ OwnersInv /\ [Next]_vars
          => [\A o \in Orders : ~demoMode /\ order[o] = "completed" => order'[o] = "completed"]_vars
    BY <1>1
  <1>3. QED BY <1>2, Owners, PTL DEF Spec, OrderNeverReopens

\* However many requests finalize an order, and however they fail, its member and whoever brought
\* the member are rewarded once.
THEOREM RewardsOnce == Spec => []RewardedOnce
  <1>1. AwardedOnce /\ ReferrerRewardedOnce => RewardedOnce
    BY DEF RewardedOnce
  <1>2. QED BY <1>1, AwardsOnce, ReferrerOnce, PTL

---------------------------------------------------------------------------
(* What a captured payment has done *)

Gone == voucher \in {"USED", "VOID"}

\* Whoever finalizes an order has a captured payment or nothing to be paid, and comes to the end
\* only when the order is placed and its promotion is paid for.
Backed(r) ==
  LET s == req[r].step  c == req[r].caller  o == It(r) IN
    /\ s \in {"discount", "create", "request"} => xendit[o] = "none" /\ o \notin free
    /\ s \in {"request", "intent"} => ~demoMode
    /\ s = "claim" \/ (Finalizing(r) /\ c \in {"checkout", "notice"}) => xendit[o] = "SUCCEEDED"
    /\ Finalizing(r) /\ c = "free" => o \in free
    /\ s \in {"promote", "use", "succeed"} /\ c # "demo" => o \in PaidOrders
    /\ s = "use" => promotion = "voucher"
    /\ s = "succeed" /\ o \in uses => /\ promotion = "points" => spent[o] > 0
                                      /\ promotion = "catalogue" => Gone

\* What the rows of an order and of its payment say of each other.
Settled(o) ==
  /\ order[o] = "none" \/ o \in free \/ demoMode => xendit[o] = "none"
  /\ order[o] = "none" => o \notin free
  /\ o \in PaidOrders => demoMode \/ xendit[o] = "SUCCEEDED" \/ o \in free
  /\ intent[o] = "SUCCEEDED" =>
       /\ o \in PaidOrders
       /\ promotion = "points" /\ o \in uses => spent[o] > 0
       /\ promotion = "catalogue" /\ o \in uses => Gone

SettledInv ==
  /\ promotion = "catalogue" => voucher # "LOCKED"
  /\ \A r \in Requests : Backed(r)
  /\ \A o \in Orders : Settled(o)

\* Once it is used or withdrawn the voucher stays so, and only a campaign voucher is locked.
LEMMA GoneStays ==
  ASSUME TypeOK, Busy, [Next]_vars
  PROVE  /\ UNCHANGED settings
         /\ Gone => Gone'
         /\ promotion = "catalogue" /\ voucher # "LOCKED" => voucher' # "LOCKED"
  <1> USE DEF settings, voucherVars
  <1>1. \A o \in Orders : Release(o) =>
          voucher' = voucher \/ (voucher = "LOCKED" /\ voucher' = "ACTIVE")
    BY DEF Release
  <1>2. ASSUME NEW r \in Requests, Checkout(r)
        PROVE  /\ UNCHANGED settings
               /\ \/ voucher' = voucher
                  \/ voucher = "LOCKED" /\ voucher' = "ACTIVE"
                  \/ promotion = "voucher" /\ ~Gone
    <2>1. CASE Reply(r)
      <3>1. It(r) \in Orders
        BY <2>1 DEF Reply, At, Busy
      <3>2. QED BY <1>1, <2>1, <3>1 DEF Reply
    <2>2. CASE \E o \in Orders : LockVoucher(r, o)
      BY <2>2 DEF LockVoucher, Lockable, Gone
    <2>3. QED
      BY <1>2, <2>1, <2>2 DEF Checkout, CheckoutPlain, CheckPromotion, Discount, Refuse, CreateOrder,
                              RequestPayment, CreateIntent
  <1>3. ASSUME NEW r \in Requests, Apply(r)
        PROVE  UNCHANGED settings /\ (voucher' = voucher \/ voucher' = "USED")
    BY <1>3 DEF Apply, Claim, ReadOrder, Place, Referral, Award, Promote, Use, Succeed, Rollback
  <1>4. ASSUME NEW r \in Requests, Notice(r)
        PROVE  UNCHANGED settings /\ (voucher' = voucher \/ (voucher = "LOCKED" /\ voucher' = "ACTIVE"))
    BY <1>1, <1>4 DEF Notice, Settle, FailureNotice, CompleteDemo, MarkFailed
  <1>5. ASSUME NEW r \in Requests, Counter(r) \/ Fault(r) \/ Crash(r)
        PROVE  UNCHANGED settings /\ (voucher' = voucher \/ voucher' \in {"USED", "VOID"})
    BY <1>5 DEF Counter, RedeemInStore, StoreUse, Revoke, Withdraw, Fault, Crash
  <1>6. ASSUME \/ Lapse \/ UNCHANGED vars
               \/ \E o \in Orders : CompleteOrder(o) \/ Pay(o) \/ PaymentFails(o)
        PROVE  UNCHANGED settings /\ voucher' = voucher
    BY <1>6 DEF Lapse, CompleteOrder, Pay, PaymentFails, vars
  <1>7. CASE \E r \in Requests : Checkout(r)
    BY <1>2, <1>7 DEF Gone
  <1>8. CASE \E r \in Requests : Apply(r)
    BY <1>3, <1>8 DEF Gone
  <1>9. CASE \E r \in Requests : Notice(r)
    BY <1>4, <1>9 DEF Gone
  <1>10. CASE \E r \in Requests : Counter(r) \/ Fault(r) \/ Crash(r)
    BY <1>5, <1>10 DEF Gone
  <1>11. CASE Lapse \/ UNCHANGED vars \/ \E o \in Orders : CompleteOrder(o) \/ Pay(o) \/ PaymentFails(o)
    BY <1>6, <1>11 DEF Gone
  <1>12. QED BY <1>7, <1>8, <1>9, <1>10, <1>11 DEF Next

Early(r) == req[r].step \in {"discount", "create", "request"}

\* What happens to one order, and what the requests that have a part in it make of it.
LEMMA SettledStep ==
  ASSUME TypeOK, Busy, SettledInv, [Next]_vars, NEW o \in Orders,
         \A p \in Orders : p # o =>
           /\ order'[p] = order[p] /\ xendit'[p] = xendit[p] /\ intent'[p] = intent[p]
           /\ spent'[p] = spent[p] /\ (p \in free' <=> p \in free) /\ (p \in uses' <=> p \in uses),
         o \in PaidOrders => o \in PaidOrders',
         xendit[o] = "SUCCEEDED" => xendit'[o] = "SUCCEEDED",
         o \in free => o \in free', spent[o] > 0 => spent'[o] > 0,
         \A q \in Requests :
           \/ Backed(q)'
           \/ /\ req'[q] = req[q]
              /\ It(q) = o =>
                   /\ o \in uses' => o \in uses
                   /\ Early(q) => xendit'[o] = xendit[o] /\ (o \in free' => o \in free),
         Settled(o)'
  PROVE  SettledInv'
  <1>1. /\ UNCHANGED <<promotion, demoMode>> /\ (Gone => Gone')
        /\ promotion = "catalogue" => voucher' # "LOCKED"
    BY GoneStays DEF SettledInv, settings
  <1>2. ASSUME NEW q \in Requests, ~Backed(q)' PROVE FALSE
    <2>1. Backed(q) /\ req'[q] = req[q] /\ It(q)' = It(q)
      BY <1>2 DEF SettledInv, It
    <2>2. CASE It(q) \notin Orders
      BY <1>2, <2>1, <2>2 DEF Busy, Backed, Finalizing, ApplySteps, InOrderTx
    <2>3. CASE It(q) = o
      <3>1. Finalizing(q)' <=> Finalizing(q)
        BY <2>1 DEF Finalizing
      <3>2. QED BY <1>1, <1>2, <2>1, <2>3, <3>1 DEF Backed, Early
    <2>4. CASE It(q) \in Orders /\ It(q) # o
      <3>1. Finalizing(q)' <=> Finalizing(q)
        BY <2>1 DEF Finalizing
      <3>2. PICK p \in Orders : p = It(q) /\ p # o
        BY <2>4
      <3>3. p \in PaidOrders' <=> p \in PaidOrders
        BY <3>2 DEF PaidOrders
      <3>4. /\ It(q) \in PaidOrders' <=> It(q) \in PaidOrders
            /\ xendit'[It(q)] = xendit[It(q)] /\ spent'[It(q)] = spent[It(q)]
            /\ (It(q) \in free' <=> It(q) \in free) /\ (It(q) \in uses' <=> It(q) \in uses)
        BY <3>2, <3>3
      <3>5. Backed(q)'
        BY <1>1, <2>1, <3>1, <3>4 DEF Backed
      <3>6. QED BY <1>2, <3>5
    <2>5. QED BY <2>2, <2>3, <2>4
  <1>3. ASSUME NEW p \in Orders, p # o PROVE Settled(p)'
    <2>1. p \in PaidOrders' <=> p \in PaidOrders
      BY <1>3 DEF PaidOrders
    <2>2. QED BY <1>1, <1>3, <2>1 DEF SettledInv, Settled
  <1>4. QED BY <1>1, <1>2, <1>3 DEF SettledInv

\* Nothing happens to any order.
LEMMA SettledCalm ==
  ASSUME TypeOK, Busy, SettledInv, [Next]_vars,
         \A q \in Requests : req'[q] = req[q] \/ Backed(q)',
         UNCHANGED <<order, xendit, intent, spent, free, uses>>
  PROVE  SettledInv'
  <1>1. /\ UNCHANGED <<promotion, demoMode>> /\ (Gone => Gone')
        /\ promotion = "catalogue" => voucher' # "LOCKED"
    BY GoneStays DEF SettledInv, settings
  <1>2. PaidOrders' = PaidOrders
    BY DEF PaidOrders
  <1>3. ASSUME NEW q \in Requests, req'[q] = req[q] PROVE Backed(q)'
    BY <1>1, <1>2, <1>3 DEF SettledInv, Backed, Finalizing, It
  <1>4. ASSUME NEW p \in Orders PROVE Settled(p)'
    BY <1>1, <1>2, <1>4 DEF SettledInv, Settled
  <1>5. QED BY <1>1, <1>3, <1>4 DEF SettledInv

\* A request goes on, and nothing happens to its order.
LEMMA SettledGo ==
  ASSUME TypeOK, Busy, OwnersInv, SettledInv, [Next]_vars, NEW r \in Requests, NEW s \in Steps,
         Go(r, s), s = "idle" \/ It(r) \in Orders,
         UNCHANGED <<order, xendit, intent, spent, free, uses>>,
         \/ s \in {"idle", "reply"}
         \/ s = "create" /\ At(r, "discount")
         \/ s = "finalize" /\ At(r, "claim")
         \/ s = "place" /\ At(r, "finalize")
         \/ s = "promote" /\ At(r, "finalize") /\ It(r) \in PaidOrders
         \/ s = "referral" /\ At(r, "place")
         \/ s \in {"award", "reward"} /\ At(r, "referral")
         \/ s = "use" /\ At(r, "promote") /\ promotion = "voucher"
         \/ /\ s = "succeed" /\ (At(r, "promote") \/ At(r, "use"))
            /\ It(r) \in uses => /\ promotion = "points" => spent[It(r)] > 0
                                 /\ promotion = "catalogue" => Gone'
         \/ s = "rollback" /\ Applying(r)
  PROVE  SettledInv'
  <1>1. /\ \A q \in Requests : q # r => req'[q] = req[q]
        /\ req'[r].step = s
        /\ s # "idle" => req'[r].at = req[r].at /\ req'[r].caller = req[r].caller
    BY GoTyped DEF TypeOK
  <1>2. /\ UNCHANGED <<promotion, demoMode>> /\ (Gone => Gone')
        /\ PaidOrders' = PaidOrders
    BY GoneStays DEF settings, PaidOrders
  <1>3. Backed(r) /\ CallersFit(r)
    BY DEF SettledInv, OwnersInv
  <1>4. Backed(r)'
    <2>1. CASE s \in {"idle", "reply"}
      BY <1>1, <2>1 DEF Backed, Finalizing, ApplySteps, InOrderTx
    <2>2. CASE s \notin {"idle", "reply"}
      <3>1. It(r)' = It(r) /\ req'[r].caller = req[r].caller
        BY <1>1, <2>2 DEF It
      <3>2. CASE s = "create" /\ At(r, "discount")
        BY <1>1, <1>2, <1>3, <3>1, <3>2 DEF Backed, Finalizing, At, ApplySteps, InOrderTx
      <3>3. CASE s # "create"
        <4>1. s = "use" => promotion = "voucher"
          BY <3>3
        <4>2. s \in {"promote", "use", "succeed"} /\ req[r].caller # "demo" => It(r) \in PaidOrders
          BY <1>3, <3>3 DEF Backed, At
        <4>3. s = "succeed" /\ It(r) \in uses => /\ promotion = "points" => spent[It(r)] > 0
                                                 /\ promotion = "catalogue" => Gone'
          BY <2>2, <3>3
        <4>4. Finalizing(r)' => Finalizing(r) \/ At(r, "claim")
          BY <1>1, <2>2, <3>1, <3>3 DEF Finalizing, Applying, At, ApplySteps, InOrderTx
        <4>5. At(r, "claim") => req[r].caller # "free"
          BY <1>3 DEF CallersFit, At
        <4>6. s \in ApplySteps \cup {"rollback"}
          BY <2>2, <3>3 DEF ApplySteps, InOrderTx
        <4>7. Finalizing(r)' /\ req[r].caller \in {"checkout", "notice"} => xendit[It(r)] = "SUCCEEDED"
          BY <1>3, <4>4 DEF Backed, At
        <4>8. Finalizing(r)' /\ req[r].caller = "free" => It(r) \in free
          BY <1>3, <4>4, <4>5 DEF Backed
        <4>9. s \notin {"discount", "create", "request", "intent", "claim"}
          BY <4>6 DEF ApplySteps, InOrderTx
        <4>10. UNCHANGED <<xendit, spent, free, uses>>
          OBVIOUS
        <4>11. QED BY <1>1, <1>2, <3>1, <4>1, <4>2, <4>3, <4>7, <4>8, <4>9, <4>10 DEF Backed
      <3>4. QED BY <2>2, <3>2, <3>3
    <2>3. QED BY <2>1, <2>2
  <1>5. QED BY <1>1, <1>4, SettledCalm

\* Nobody finalizes an order that is being made.
LEMMA EarlyAlone ==
  ASSUME OwnersInv, NEW r \in Requests, Making(r), NEW q \in Requests, q # r, It(q) = It(r)
  PROVE  ~Early(q)
  BY DEF OwnersInv, OneOwner, Owns, Making, Early

\* A checkout keeps SettledInv.
LEMMA SettledCheckout ==
  ASSUME TypeOK, Busy, OwnersInv, SettledInv, NEW r \in Requests, Checkout(r)
  PROVE  SettledInv'
  <1> USE DEF settings, orderVars, pointVars, payVars
  <1>1. [Next]_vars
    BY DEF Next
  <1>2. ASSUME NEW o \in Orders, New(o)
        PROVE  /\ xendit[o] = "none" /\ o \notin free /\ intent[o] = "none" /\ order[o] = "none"
               /\ \A q \in Requests : It(q) # o
    BY <1>2 DEF New, SettledInv, Settled, OwnersInv, Books
  <1>3. ASSUME NEW s \in {"discount", "create", "request", "intent", "reply"}, At(r, s)
        PROVE  It(r) \in Orders
    BY <1>3 DEF Busy, At
  <1>4. ASSUME NEW o \in Orders, CheckoutPlain(r, o) PROVE SettledInv'
    <2>1. /\ \A q \in Requests : q # r => req'[q] = req[q]
          /\ req'[r].step = "create" /\ req'[r].at = o
      BY <1>4, BeginTyped DEF CheckoutPlain, TypeOK, Steps, Callers
    <2>2. UNCHANGED <<order, xendit, intent, spent, free, uses>>
      BY <1>4 DEF CheckoutPlain
    <2>3. Backed(r)'
      BY <1>2, <1>4, <2>1, <2>2 DEF CheckoutPlain, Backed, Finalizing, It, ApplySteps, InOrderTx
    <2>4. QED BY <1>1, <2>1, <2>2, <2>3, SettledCalm
  <1>5. ASSUME NEW o \in Orders, LockVoucher(r, o) \/ CheckPromotion(r, o) PROVE SettledInv'
    <2>1. PICK s \in {"discount", "create"} : Begin(r, s, o, "checkout")
      BY <1>5 DEF LockVoucher, CheckPromotion
    <2>2. /\ \A q \in Requests : q # r => req'[q] = req[q]
          /\ req'[r].step = s /\ req'[r].at = o
      BY <2>1, BeginTyped DEF TypeOK, Steps, Callers
    <2>3. UNCHANGED <<order, xendit, intent, spent, free, demoMode>> /\ uses' = uses \cup {o}
      BY <1>5 DEF LockVoucher, CheckPromotion
    <2>4. New(o)
      BY <1>5 DEF LockVoucher, CheckPromotion
    <2>5. Backed(r)'
      BY <1>2, <2>2, <2>3, <2>4 DEF Backed, Finalizing, It, ApplySteps, InOrderTx
    <2>6. PaidOrders' = PaidOrders /\ o \notin PaidOrders
      BY <1>2, <2>3, <2>4 DEF PaidOrders
    <2>7. Settled(o)'
      BY <1>2, <2>3, <2>4, <2>6 DEF Settled
    <2>8. QED BY <1>1, <1>2, <2>2, <2>3, <2>4, <2>5, <2>6, <2>7, SettledStep
  <1>6. CASE Discount(r) \/ Refuse(r)
    <2>1. \E s \in {"create", "idle"} : Go(r, s) /\ (s = "create" => At(r, "discount"))
      BY <1>6 DEF Discount, Refuse
    <2>2. It(r) \in Orders /\ UNCHANGED <<order, xendit, intent, spent, free, uses>>
      BY <1>3, <1>6 DEF Discount, Refuse
    <2>3. QED BY <1>1, <2>1, <2>2, SettledGo DEF Steps
  <1>7. CASE CreateOrder(r)
    <2>1. PICK o \in Orders : o = It(r)
      BY <1>3, <1>7 DEF CreateOrder
    <2>2. /\ Making(r) /\ At(r, "create") /\ order[o] = "none" /\ intent[o] = "none"
          /\ req[r] \in LocalState /\ xendit[o] = "none" /\ o \notin free
      BY <1>7, <2>1 DEF CreateOrder, Making, At, OwnersInv, RowsFit, TypeOK, SettledInv, Backed
    <2>3. /\ \A p \in Orders : p # o => order'[p] = order[p] /\ (p \in free' <=> p \in free)
          /\ order'[o] = "pending_payment" /\ free \subseteq free'
          /\ UNCHANGED <<xendit, intent, spent, uses, demoMode>>
      BY <1>7, <2>1 DEF CreateOrder, TypeOK
    <2>4. /\ \A q \in Requests : q # r => req'[q] = req[q]
          /\ req'[r].at = o
          /\ \/ req'[r].step = "promote" /\ req'[r].caller = "demo"
             \/ req'[r].step = "finalize" /\ req'[r].caller = "free" /\ o \in free'
             \/ req'[r].step = "request" /\ ~demoMode /\ o \notin free'
      BY <1>7, <2>1, <2>2 DEF CreateOrder, Go, It, TypeOK, LocalState
    <2>5. It(r)' = o
      BY <2>4 DEF It
    <2>6. Backed(r)'
      BY <2>2, <2>3, <2>4, <2>5 DEF Backed, Finalizing, ApplySteps, InOrderTx
    <2>7. o \notin PaidOrders' /\ o \notin PaidOrders
      BY <2>2, <2>3 DEF PaidOrders
    <2>8. Settled(o)'
      BY <2>2, <2>3, <2>7 DEF Settled
    <2>9. \A q \in Requests : q # r /\ It(q) = o => ~Early(q)
      BY <2>1, <2>2, EarlyAlone
    <2>10. QED BY <1>1, <2>3, <2>4, <2>6, <2>7, <2>8, <2>9, SettledStep
  <1>8. CASE RequestPayment(r)
    <2>1. PICK o \in Orders : o = It(r)
      BY <1>3, <1>8 DEF RequestPayment
    <2>2. /\ Making(r) /\ order[o] # "none" /\ intent[o] = "none"
          /\ xendit[o] = "none" /\ o \notin free /\ ~demoMode
      BY <1>8, <2>1 DEF RequestPayment, Making, At, OwnersInv, RowsFit, SettledInv, Backed
    <2>3. /\ \A q \in Requests : q # r => req'[q] = req[q]
          /\ req'[r].step = "intent"
      BY <1>8, <2>1, GoTyped DEF RequestPayment, TypeOK, Steps
    <2>4. /\ \A p \in Orders : p # o => xendit'[p] = xendit[p]
          /\ UNCHANGED <<order, intent, spent, uses, free, demoMode>>
      BY <1>8, <2>1 DEF RequestPayment, TypeOK
    <2>5. Backed(r)'
      BY <2>2, <2>3, <2>4 DEF Backed, Finalizing, ApplySteps, InOrderTx
    <2>6. PaidOrders' = PaidOrders /\ o \notin PaidOrders
      BY <2>2, <2>4 DEF PaidOrders, SettledInv, Settled
    <2>7. Settled(o)'
      BY <2>2, <2>4, <2>6 DEF Settled
    <2>8. \A q \in Requests : q # r /\ It(q) = o => ~Early(q)
      BY <2>1, <2>2, EarlyAlone
    <2>9. QED BY <1>1, <2>2, <2>3, <2>4, <2>5, <2>6, <2>7, <2>8, SettledStep
  <1>9. CASE CreateIntent(r)
    <2>1. PICK o \in Orders : o = It(r)
      BY <1>3, <1>9 DEF CreateIntent
    <2>2. PICK s \in {"claim", "reply"} : Go(r, s) /\ (s = "claim" => xendit[o] = "SUCCEEDED")
      BY <1>9, <2>1 DEF CreateIntent
    <2>3. /\ \A q \in Requests : q # r => req'[q] = req[q]
          /\ req'[r].step = s /\ req'[r].at = o
      BY <2>1, <2>2, GoTyped DEF TypeOK, Steps, It
    <2>4. /\ \A p \in Orders : p # o => intent'[p] = intent[p]
          /\ intent'[o] = "PENDING"
          /\ UNCHANGED <<order, xendit, spent, uses, free, demoMode>>
      BY <1>9, <2>1 DEF CreateIntent, TypeOK
    <2>5. Backed(r)'
      BY <2>2, <2>3, <2>4 DEF Backed, Finalizing, It, ApplySteps, InOrderTx
    <2>6. PaidOrders' = PaidOrders
      BY <2>4 DEF PaidOrders
    <2>7. Settled(o)'
      BY <2>4, <2>6 DEF SettledInv, Settled
    <2>8. QED BY <1>1, <2>3, <2>4, <2>5, <2>6, <2>7, SettledStep
  <1>10. CASE Reply(r)
    <2>1. PICK o \in Orders : o = It(r)
      BY <1>3, <1>10 DEF Reply
    <2>2. /\ \A q \in Requests : q # r => req'[q] = req[q]
          /\ req'[r].step = "idle"
      BY <1>10, GoTyped DEF Reply, TypeOK, Steps
    <2>3. /\ \A p \in Orders : p # o => xendit'[p] = xendit[p]
          /\ xendit'[o] = xendit[o] \/ (xendit[o] = "CREATED" /\ xendit'[o] = "REQUIRES_ACTION")
          /\ UNCHANGED <<order, intent, spent, uses, free, demoMode>>
      BY <1>10, <2>1 DEF Reply, TypeOK
    <2>4. Backed(r)'
      BY <2>2 DEF Backed, Finalizing, ApplySteps, InOrderTx
    <2>5. PaidOrders' = PaidOrders
      BY <2>3 DEF PaidOrders
    <2>6. Settled(o)'
      <3>1. Settled(o) /\ (promotion' = promotion) /\ (Gone => Gone')
        BY <1>1, GoneStays DEF SettledInv
      <3>2. QED BY <2>3, <2>5, <3>1 DEF Settled
    <2>7. \A q \in Requests : Early(q) /\ It(q) = o => intent[o] = "none"
      BY DEF OwnersInv, RowsFit, Early, Making
    <2>8. intent[o] # "none"
      BY <1>10, <2>1 DEF Reply, At, OwnersInv, RowsFit
    <2>9. QED BY <1>1, <2>2, <2>3, <2>4, <2>5, <2>6, <2>7, <2>8, SettledStep
  <1>11. QED BY <1>4, <1>5, <1>6, <1>7, <1>8, <1>9, <1>10 DEF Checkout

\* The award of points keeps SettledInv.
LEMMA SettledAward ==
  ASSUME TypeOK, Busy, OwnersInv, SettledInv, NEW r \in Requests, Award(r)
  PROVE  SettledInv'
  <1>1. [Next]_vars
    BY DEF Next, Apply
  <1>2. PICK o \in Orders : o = It(r)
    BY DEF Award, At, Busy
  <1>3. /\ req[r].step \in {"award", "reward"} /\ Backed(r) /\ CallersFit(r) /\ Settled(o)
        /\ req[r].caller \in Callers
    BY DEF Award, At, SettledInv, OwnersInv, TypeOK, LocalState
  <1>4. /\ UNCHANGED <<demoMode, xendit, intent, spent, free, uses, promotion>>
        /\ order'[o] = "placed" /\ \A p \in Orders : p # o => order'[p] = order[p]
    BY <1>2 DEF Award, TypeOK, settings, payVars
  <1>5. (Gone => Gone') /\ o \in PaidOrders'
    BY <1>1, <1>4, GoneStays DEF PaidOrders
  <1>6. Finalizing(r) \/ req[r].caller = "button"
    BY <1>3 DEF Finalizing, ApplySteps, InOrderTx
  <1>7. demoMode \/ xendit[o] = "SUCCEEDED" \/ o \in free
    BY <1>2, <1>3, <1>6 DEF Backed, CallersFit, Callers, ApplySteps, InOrderTx
  <1>8. Settled(o)'
    BY <1>3, <1>4, <1>5, <1>7 DEF Settled
  <1>9. PICK s \in {"idle", "promote"} : Go(r, s) /\ (s = "promote" => req[r].caller # "button")
    BY DEF Award, AfterOrder
  <1>10. /\ \A q \in Requests : q # r => req'[q] = req[q]
         /\ req'[r].step = s
         /\ s # "idle" => req'[r].at = req[r].at /\ req'[r].caller = req[r].caller
    BY <1>2, <1>9, GoTyped DEF TypeOK, Steps, ApplySteps
  <1>11. Backed(r)'
    <2>1. CASE s = "idle"
      BY <1>10, <2>1 DEF Backed, Finalizing, ApplySteps, InOrderTx
    <2>2. CASE s = "promote"
      <3>1. It(r)' = o /\ req'[r].caller = req[r].caller /\ Finalizing(r)
        BY <1>2, <1>6, <1>9, <1>10, <2>2 DEF It
      <3>2. QED BY <1>2, <1>3, <1>4, <1>5, <1>10, <2>2, <3>1
                   DEF Backed, Finalizing, ApplySteps, InOrderTx
    <2>3. QED BY <2>1, <2>2
  <1>12. QED BY <1>1, <1>4, <1>5, <1>8, <1>10, <1>11, SettledStep

\* The look at the promotion keeps SettledInv.
LEMMA SettledPromote ==
  ASSUME TypeOK, Busy, OwnersInv, SettledInv, NEW r \in Requests, Promote(r)
  PROVE  SettledInv'
  <1>1. [Next]_vars
    BY DEF Next, Apply
  <1>2. PICK o \in Orders : o = It(r)
    BY DEF Promote, At, Busy, ApplySteps
  <1>3. At(r, "promote") /\ Backed(r) /\ CallersFit(r) /\ Settled(o)
    BY DEF Promote, SettledInv, OwnersInv
  <1>4. UNCHANGED <<demoMode, promotion, order, xendit, intent, free, uses>>
    BY DEF Promote, settings, orderVars, payVars
  <1>5. ASSUME AfterPromotions(r) = "idle", Go(r, AfterPromotions(r)), UNCHANGED spent
        PROVE  SettledInv'
    BY <1>1, <1>4, <1>5, SettledGo DEF Steps
  <1>6. ASSUME Go(r, AfterPromotions(r)), UNCHANGED spent,
               o \in uses => promotion # "points" /\ (promotion = "catalogue" => Gone')
        PROVE  SettledInv'
    <2>1. AfterPromotions(r) \in {"idle", "succeed"}
      BY DEF AfterPromotions
    <2>2. QED BY <1>1, <1>2, <1>3, <1>4, <1>5, <1>6, <2>1, SettledGo DEF Steps, ApplySteps
  <1>7. CASE o \in uses /\ promotion = "voucher" /\ lockToken = o
    BY <1>1, <1>2, <1>3, <1>4, <1>7, SettledGo DEF Promote, pointVars, Steps, ApplySteps
  <1>8. CASE o \notin uses \/ (promotion = "voucher" /\ lockToken # o)
    <2>1. Go(r, AfterPromotions(r)) /\ UNCHANGED spent
      BY <1>2, <1>8 DEF Promote, pointVars
    <2>2. QED BY <1>6, <1>8, <2>1
  <1>9. CASE o \in uses /\ promotion = "catalogue"
    <2>1. Go(r, AfterPromotions(r)) /\ UNCHANGED spent /\ (voucher' = "USED" \/ voucher' = voucher)
          /\ voucher' # "ACTIVE"
      BY <1>2, <1>9 DEF Promote, pointVars
    <2>2. Gone'
      BY <1>9, <2>1 DEF Gone, SettledInv, TypeOK, VoucherStatus
    <2>3. QED BY <1>6, <1>9, <2>1, <2>2
  <1>10. CASE o \in uses /\ promotion = "points" /\ points < PointsCost
    <2>1. Throw(r) /\ UNCHANGED spent
      BY <1>2, <1>10, PointAssumption DEF Promote, pointVars, TypeOK
    <2>2. QED BY <1>1, <1>2, <1>4, <2>1, SettledGo DEF Throw, Steps, ApplySteps
  <1>11. CASE o \in uses /\ promotion = "points" /\ ~(points < PointsCost)
    <2>1. spent' = [spent EXCEPT ![o] = @ + 1] /\ Go(r, AfterPromotions(r))
      BY <1>2, <1>11 DEF Promote
    <2>2. /\ \A p \in Orders : p # o => spent'[p] = spent[p]
          /\ spent'[o] > 0
      BY <2>1 DEF TypeOK
    <2>3. PICK s \in {"idle", "succeed"} : Go(r, s)
      BY <2>1 DEF AfterPromotions
    <2>4. /\ \A q \in Requests : q # r => req'[q] = req[q]
          /\ req'[r].step = s
          /\ s # "idle" => req'[r].at = req[r].at /\ req'[r].caller = req[r].caller
      BY <1>2, <2>3, GoTyped DEF TypeOK, Steps, ApplySteps
    <2>5. PaidOrders' = PaidOrders /\ (Gone => Gone')
      BY <1>1, <1>4, GoneStays DEF PaidOrders
    <2>6. Settled(o)'
      BY <1>3, <1>4, <2>2, <2>5 DEF Settled
    <2>7. Backed(r)'
      <3>1. CASE s = "idle"
        BY <2>4, <3>1 DEF Backed, Finalizing, ApplySteps, InOrderTx
      <3>2. CASE s = "succeed"
        <4>1. It(r)' = o /\ req'[r].caller = req[r].caller /\ (Finalizing(r)' <=> Finalizing(r))
          BY <1>2, <1>3, <2>4, <3>2 DEF It, Finalizing, At, ApplySteps
        <4>2. QED BY <1>2, <1>3, <1>4, <1>11, <2>2, <2>4, <2>5, <3>2, <4>1 DEF Backed, At
      <3>3. QED BY <3>1, <3>2
    <2>8. QED BY <1>1, <1>4, <2>2, <2>4, <2>5, <2>6, <2>7, SettledStep
  <1>12. QED BY <1>2, <1>7, <1>8, <1>9, <1>10, <1>11 DEF TypeOK

\* The payment is written.
LEMMA SettledPay ==
  ASSUME TypeOK, Busy, OwnersInv, SettledInv, NEW r \in Requests,
         Claim(r) \/ Succeed(r) \/ Rollback(r) \/ MarkFailed(r)
  PROVE  SettledInv'
  <1>1. [Next]_vars
    BY DEF Next, Apply, Notice
  <1>2. PICK o \in Orders : o = It(r)
    BY DEF Claim, Succeed, Rollback, MarkFailed, At, Busy, ApplySteps
  <1>3. Backed(r) /\ CallersFit(r) /\ Settled(o)
    BY DEF SettledInv, OwnersInv
  <1>4. /\ UNCHANGED <<demoMode, promotion, order, xendit, spent, free, uses>>
        /\ \A p \in Orders : p # o => intent'[p] = intent[p]
    BY <1>2 DEF Claim, Succeed, Rollback, MarkFailed, TypeOK, settings, orderVars, pointVars
  <1>5. PaidOrders' = PaidOrders /\ (Gone => Gone')
    BY <1>1, <1>4, GoneStays DEF PaidOrders
  <1>6. PICK s \in {"idle", "reply", "finalize"} :
          Go(r, s) /\ (s = "finalize" => At(r, "claim"))
    BY DEF Claim, Succeed, Rollback, MarkFailed, Return
  <1>7. /\ \A q \in Requests : q # r => req'[q] = req[q]
        /\ req'[r].step = s
        /\ s # "idle" => req'[r].at = req[r].at /\ req'[r].caller = req[r].caller
    BY <1>2, <1>6, GoTyped DEF TypeOK, Steps, ApplySteps
  <1>8. Backed(r)'
    <2>1. CASE s \in {"idle", "reply"}
      BY <1>7, <2>1 DEF Backed, Finalizing, ApplySteps, InOrderTx
    <2>2. CASE s = "finalize"
      <3>1. /\ It(r)' = o /\ req'[r].caller = req[r].caller /\ At(r, "claim")
            /\ xendit[o] = "SUCCEEDED" /\ req[r].caller # "free"
        BY <1>2, <1>3, <1>6, <1>7, <2>2 DEF It, At, Backed, CallersFit
      <3>2. QED BY <1>4, <1>7, <2>2, <3>1 DEF Backed
    <2>3. QED BY <2>1, <2>2
  <1>9. Settled(o)'
    <2>1. CASE intent'[o] = "SUCCEEDED" /\ intent[o] # "SUCCEEDED"
      <3>1. At(r, "succeed")
        BY <1>2, <2>1 DEF Claim, Succeed, Rollback, MarkFailed, TypeOK
      <3>2. req[r].caller # "demo"
        BY <1>3, <3>1 DEF CallersFit, At
      <3>3. QED BY <1>2, <1>3, <1>4, <1>5, <3>1, <3>2 DEF Backed, Settled, At
    <2>2. CASE intent'[o] # "SUCCEEDED" \/ intent[o] = "SUCCEEDED"
      BY <1>3, <1>4, <1>5, <2>2 DEF Settled
    <2>3. QED BY <2>1, <2>2
  <1>10. QED BY <1>1, <1>4, <1>5, <1>7, <1>8, <1>9, SettledStep

\* Every step keeps SettledInv.
LEMMA SettledNext ==
  ASSUME TypeOK, Busy, OwnersInv, SettledInv, [Next]_vars
  PROVE  SettledInv'
  <1> USE DEF settings, orderVars, pointVars, payVars
  <1>1. ASSUME NEW r \in Requests, ReadOrder(r) \/ Place(r) \/ Referral(r) \/ Use(r)
        PROVE  SettledInv'
    <2>1. UNCHANGED <<order, xendit, intent, spent, free, uses>>
      BY <1>1 DEF ReadOrder, Place, Referral, Use
    <2>2. It(r) \in Orders
      BY <1>1 DEF ReadOrder, Place, Referral, Use, At, Busy
    <2>3. CASE ReadOrder(r)
      <3>1. order[It(r)] # "none"
        BY <2>3 DEF ReadOrder, At, OwnersInv, RowsFit, ApplySteps
      <3>2. At(r, "finalize") /\ \/ Go(r, "place")
                                 \/ Go(r, "promote") /\ It(r) \in PaidOrders
                                 \/ Go(r, "idle")
        BY <2>2, <2>3, <3>1 DEF ReadOrder, AfterOrder, Awaiting, PaidOrders, TypeOK, OrderStatus
      <3>3. QED BY <2>1, <2>2, <3>2, SettledGo DEF Steps, ApplySteps
    <2>4. CASE Place(r) \/ Referral(r)
      <3>1. \/ Go(r, "referral") /\ At(r, "place")
            \/ \E s \in {"award", "reward"} : Go(r, s) /\ At(r, "referral")
        BY <2>4 DEF Place, Referral
      <3>2. QED BY <2>1, <2>2, <3>1, SettledGo DEF Steps, ApplySteps, InOrderTx
    <2>5. CASE Use(r)
      <3>1. promotion = "voucher" /\ At(r, "use")
        BY <2>5 DEF Use, At, SettledInv, Backed
      <3>2. \E s \in {"idle", "succeed"} : Go(r, s)
        BY <2>5 DEF Use, AfterPromotions
      <3>3. QED BY <2>1, <2>2, <3>1, <3>2, SettledGo DEF Steps, ApplySteps
    <2>6. QED BY <1>1, <2>3, <2>4, <2>5
  <1>2. ASSUME NEW r \in Requests, Notice(r), ~MarkFailed(r) PROVE SettledInv'
    <2>1. UNCHANGED <<order, xendit, intent, spent, free, uses>>
      BY <1>2 DEF Notice, Settle, FailureNotice, CompleteDemo
    <2>2. PICK o \in Orders, s \in {"claim", "fail", "finalize"}, c \in {"notice", "button"} :
            /\ Begin(r, s, o, c)
            /\ s = "claim" => xendit[o] = "SUCCEEDED"
            /\ s = "finalize" => c = "button"
      BY <1>2 DEF Notice, Settle, FailureNotice, CompleteDemo
    <2>3. /\ \A q \in Requests : q # r => req'[q] = req[q]
          /\ req'[r].step = s /\ req'[r].at = o /\ req'[r].caller = c
      BY <2>2, BeginTyped DEF TypeOK, Steps, ApplySteps, Callers
    <2>4. Backed(r)'
      BY <2>1, <2>2, <2>3 DEF Backed, Finalizing, It, ApplySteps, InOrderTx
    <2>5. QED BY <2>1, <2>3, <2>4, SettledCalm
  <1>3. ASSUME NEW r \in Requests, Counter(r) PROVE SettledInv'
    <2>1. UNCHANGED <<order, xendit, intent, spent, free, uses>>
      BY <1>3 DEF Counter, RedeemInStore, StoreUse, Revoke, Withdraw
    <2>2. \/ UNCHANGED req
          \/ \E s \in {"storeUse", "revoke"} : Begin(r, s, NoOrder, "none")
          \/ Go(r, "idle")
      BY <1>3 DEF Counter, RedeemInStore, StoreUse, Revoke, Withdraw
    <2>3. CASE UNCHANGED req
      BY <2>1, <2>3, SettledCalm
    <2>4. CASE Go(r, "idle")
      BY <2>1, <2>4, SettledGo DEF Steps
    <2>5. ASSUME NEW s \in {"storeUse", "revoke"}, Begin(r, s, NoOrder, "none") PROVE SettledInv'
      <3>1. /\ \A q \in Requests : q # r => req'[q] = req[q]
            /\ req'[r].step = s
        BY <2>5, BeginTyped DEF TypeOK, Steps, Callers
      <3>2. Backed(r)'
        BY <3>1 DEF Backed, Finalizing, ApplySteps, InOrderTx
      <3>3. QED BY <2>1, <3>1, <3>2, SettledCalm
    <2>6. QED BY <2>2, <2>3, <2>4, <2>5
  <1>4. ASSUME NEW r \in Requests, Fault(r) \/ Crash(r) PROVE SettledInv'
    <2>1. UNCHANGED <<order, xendit, intent, spent, free, uses>>
      BY <1>4 DEF Fault, Crash
    <2>2. Go(r, "idle") \/ (Go(r, "rollback") /\ Applying(r))
      BY <1>4 DEF Fault, Crash, Throw
    <2>3. Applying(r) => It(r) \in Orders
      BY DEF Applying, Busy, ApplySteps, InOrderTx
    <2>4. QED BY <2>1, <2>2, <2>3, SettledGo DEF Steps
  <1>5. ASSUME NEW o \in Orders, CompleteOrder(o) \/ Pay(o) \/ PaymentFails(o) PROVE SettledInv'
    <2>1. /\ UNCHANGED <<req, intent, spent, free, uses, demoMode, promotion>>
          /\ \A p \in Orders : p # o => order'[p] = order[p] /\ xendit'[p] = xendit[p]
      BY <1>5 DEF CompleteOrder, Pay, PaymentFails, TypeOK
    <2>2. \/ order'[o] = order[o] /\ xendit[o] \notin {"none", "SUCCEEDED"}
                                  /\ xendit'[o] # "none"
          \/ order[o] = "placed" /\ order'[o] = "completed" /\ xendit'[o] = xendit[o]
      BY <1>5 DEF CompleteOrder, Pay, PaymentFails, TypeOK
    <2>3. o \in PaidOrders <=> o \in PaidOrders'
      BY <2>2 DEF PaidOrders
    <2>4. Settled(o)' 
      <3>1. Settled(o) /\ (Gone => Gone')
        BY GoneStays DEF SettledInv
      <3>2. order[o] = "none" \/ o \in free \/ demoMode => xendit[o] = "none"
        BY <3>1 DEF Settled
      <3>3. order'[o] = "none" => order[o] = "none"
        BY <2>2
      <3>4. QED BY <2>1, <2>2, <2>3, <3>1, <3>2, <3>3 DEF Settled
    <2>5. \A q \in Requests : Early(q) /\ It(q) = o => xendit'[o] = xendit[o]
      BY <2>2 DEF SettledInv, Backed, Early
    <2>6. QED BY <2>5, <2>4, <2>3, <2>2, <2>1, SettledStep
  <1>6. CASE Lapse \/ UNCHANGED vars
    BY <1>6, SettledCalm DEF Lapse, vars
  <1>7. QED BY <1>1, <1>2, <1>3, <1>4, <1>5, <1>6, SettledCheckout, SettledAward, SettledPromote,
               SettledPay DEF Next, Apply, Notice

---------------------------------------------------------------------------
(* The voucher when nothing surprising happens *)

Plain == promotion = "voucher" /\ allowed = {}

\* The orders that count on the voucher: their payment has not failed.
Stakes == {o \in discounted : xendit[o] # "FAILED"}

\* An order has one checkout.
OneCheckout ==
  \A r, q \in Requests :
    req[r].caller = "checkout" /\ req[q].caller = "checkout" /\ It(r) = It(q) => r = q

\* A checkout that waits for its answer has no capture yet.
Waits(r) ==
  LET s == req[r].step  c == req[r].caller  o == It(r) IN
    /\ s # "storeUse"
    /\ s = "reply" => c = "checkout"
    /\ c = "checkout" => /\ s \in {"discount", "create", "request", "intent", "reply"}
                         /\ s \in {"intent", "reply"} => xendit[o] = "CREATED"
    /\ s = "succeed" /\ o \in discounted => Gone

VoucherRow ==
  /\ ~lapsed
  /\ voucher = "LOCKED" <=> lockToken # NoOrder
  /\ ~Gone => storeUses = 0
  /\ storeUses = 0 \/ (storeUses = 1 /\ Stakes = {})
  /\ \A o, p \in Stakes : o = p
  /\ \A o \in Stakes : lockToken = o \/ Gone
  /\ \A o \in failures : xendit[o] = "FAILED"
  /\ \A o \in discounted : intent[o] = "SUCCEEDED" => Gone

VoucherNow == VoucherRow /\ OneCheckout /\ \A r \in Requests : Waits(r)
VoucherInv == Plain => VoucherNow

\* The row of the voucher is left alone, and nobody new counts on it.
LEMMA RowKept ==
  ASSUME VoucherRow, UNCHANGED <<voucher, lockToken, lapsed, storeUses>>,
         \A o \in discounted' : xendit'[o] # "FAILED" => o \in discounted /\ xendit[o] # "FAILED",
         \A o \in failures' : xendit'[o] = "FAILED",
         \A o \in discounted' : intent'[o] = "SUCCEEDED" => Gone
  PROVE  VoucherRow'
  BY DEF VoucherRow, Stakes, Gone

\* The row is that of a voucher that nobody can use any more.
LEMMA RowGone ==
  ASSUME TypeOK, VoucherRow, Gone', lockToken' = NoOrder, lapsed' = FALSE,
         storeUses' = storeUses, UNCHANGED <<xendit, discounted, failures>>
  PROVE  VoucherRow'
  BY DEF VoucherRow, Stakes, Gone

\* A free voucher pays for nothing.
LEMMA ActiveFree ==
  ASSUME TypeOK, VoucherRow, Lockable
  PROVE  /\ voucher = "ACTIVE" /\ lockToken = NoOrder /\ storeUses = 0 /\ Stakes = {}
         /\ \A o \in discounted : intent[o] # "SUCCEEDED"
  BY OrderAssumption DEF VoucherRow, Lockable, Gone, Stakes, TypeOK

\* What one request does to what the requests wait for.
LEMMA WaitsKept ==
  ASSUME OneCheckout, \A q \in Requests : Waits(q), VoucherRow', Gone => Gone', NEW r \in Requests,
         \A q \in Requests : q # r => req'[q] = req[q],
         \/ req'[r].caller # "checkout"
         \/ req[r].caller = "checkout" /\ req'[r].at = req[r].at
         \/ \A q \in Requests : It(q) # req'[r].at,
         \A q \in Requests : q # r =>
           /\ req[q].caller = "checkout" /\ req[q].step \in {"intent", "reply"}
                => xendit'[It(q)] = xendit[It(q)]
           /\ req[q].step = "succeed" /\ It(q) \in discounted' => It(q) \in discounted,
         Waits(r)'
  PROVE  VoucherNow'
  <1>1. ASSUME NEW q \in Requests, q # r PROVE Waits(q)'
    BY <1>1 DEF Waits, It
  <1>2. OneCheckout'
    BY DEF OneCheckout, It
  <1>3. QED BY <1>1, <1>2 DEF VoucherNow

\* A request goes on, and the rows stay.
LEMMA VoucherGo ==
  ASSUME TypeOK, Busy, VoucherNow, NEW r \in Requests, NEW s \in Steps,
         Go(r, s), s = "idle" \/ It(r) \in Orders,
         UNCHANGED <<voucher, lockToken, lapsed, storeUses, xendit, failures, discounted>>,
         \A o \in discounted : intent'[o] = "SUCCEEDED" => Gone,
         \/ s = "idle"
         \/ req[r].caller # "checkout" /\ s \notin {"storeUse", "reply", "succeed"}
         \/ req[r].caller # "checkout" /\ s = "succeed" /\ (It(r) \in discounted => Gone)
         \/ req[r].caller = "checkout" /\ s = "create"
         \/ req[r].caller = "checkout" /\ s \in {"request", "reply"}
            /\ (s = "reply" => xendit[It(r)] = "CREATED")
  PROVE  VoucherNow'
  <1>1. /\ \A q \in Requests : q # r => req'[q] = req[q]
        /\ req'[r].step = s
        /\ s # "idle" => req'[r].at = req[r].at /\ req'[r].caller = req[r].caller
        /\ s = "idle" => req'[r] = Idle
    BY GoTyped DEF TypeOK
  <1>2. VoucherRow'
    BY RowKept DEF VoucherNow, VoucherRow
  <1>3. Gone <=> Gone'
    BY DEF Gone
  <1>4. Waits(r)'
    <2>1. CASE s = "idle"
      BY <1>1, <2>1 DEF Waits, Idle
    <2>2. CASE s # "idle"
      <3>1. It(r)' = It(r) /\ req'[r].caller = req[r].caller
        BY <1>1, <2>2 DEF It
      <3>2. QED BY <1>1, <1>3, <2>2, <3>1 DEF Waits
    <2>3. QED BY <2>1, <2>2
  <1>5. \/ req'[r].caller # "checkout"
        \/ req[r].caller = "checkout" /\ req'[r].at = req[r].at
    BY <1>1 DEF Idle
  <1>6. QED BY <1>1, <1>2, <1>3, <1>4, <1>5, WaitsKept DEF VoucherNow

\* A checkout takes the voucher only while nobody has a stake in it.
LEMMA VoucherCheckout ==
  ASSUME TypeOK, Busy, DiscountInv, OwnersInv, SettledInv, Plain, VoucherNow,
         NEW r \in Requests, Checkout(r)
  PROVE  VoucherNow'
  <1> USE DEF orderVars, payVars, voucherVars
  <1>1. VoucherRow /\ OneCheckout /\ \A q \in Requests : Waits(q)
    BY DEF VoucherNow
  <1>2. Making(r) => req[r].caller = "checkout" /\ intent[It(r)] = "none"
    BY DEF OwnersInv, CallersFit, RowsFit
  <1>3. ASSUME NEW s \in {"discount", "create", "request", "intent", "reply"}, At(r, s)
        PROVE  It(r) \in Orders
    BY <1>3 DEF Busy, At
  <1>4. ASSUME NEW o \in Orders, CheckoutPlain(r, o) \/ LockVoucher(r, o) PROVE VoucherNow'
    <2>1. PICK s \in {"discount", "create"} : Begin(r, s, o, "checkout")
      BY <1>4 DEF CheckoutPlain, LockVoucher
    <2>2. /\ \A q \in Requests : q # r => req'[q] = req[q]
          /\ req'[r].step = s /\ req'[r].at = o /\ req'[r].caller = "checkout"
      BY <2>1, BeginTyped DEF TypeOK, Steps, Callers
    <2>3. /\ UNCHANGED <<xendit, intent, failures, discounted, storeUses>>
          /\ \A q \in Requests : It(q) # o
      BY <1>4 DEF CheckoutPlain, LockVoucher, New
    <2>4. VoucherRow' /\ (Gone => Gone')
      <3>1. CASE CheckoutPlain(r, o)
        BY <1>1, <2>3, <3>1, RowKept DEF CheckoutPlain, VoucherRow, Gone
      <3>2. CASE LockVoucher(r, o)
        <4>1. voucher' = "LOCKED" /\ lockToken' = o /\ lapsed' = FALSE /\ Lockable
          BY <3>2 DEF LockVoucher
        <4>2. Stakes' = {} /\ \A p \in discounted' : intent'[p] # "SUCCEEDED"
          BY <1>1, <2>3, <4>1, ActiveFree DEF Stakes
        <4>3. voucher = "ACTIVE" /\ storeUses' = 0
          BY <1>1, <2>3, <4>1, ActiveFree
        <4>4. \A p \in failures' : xendit'[p] = "FAILED"
          BY <1>1, <2>3 DEF VoucherRow
        <4>5. QED BY <4>1, <4>2, <4>3, <4>4, OrderAssumption DEF VoucherRow, Gone
      <3>3. QED BY <1>4, <3>1, <3>2
    <2>5. Waits(r)'
      BY <2>2 DEF Waits
    <2>6. QED BY <1>1, <2>2, <2>3, <2>4, <2>5, WaitsKept
  <1>5. CASE Refuse(r)
    BY <1>1, <1>5, VoucherGo DEF Refuse, VoucherRow, Steps
  <1>6. CASE Discount(r)
    <2>1. PICK o \in Orders : o = It(r) /\ At(r, "discount")
      BY <1>3, <1>6 DEF Discount
    <2>2. Making(r) /\ req[r].caller = "checkout" /\ intent[o] = "none"
      BY <1>2, <2>1 DEF Making, At
    <2>3. CASE ~(lockToken = o /\ voucher = "LOCKED")
      <3>1. discounted' = discounted
        BY <1>6, <2>1, <2>3 DEF Discount
      <3>2. QED BY <1>1, <1>6, <2>1, <2>2, <3>1, VoucherGo DEF Discount, VoucherRow, Steps
    <2>4. CASE lockToken = o /\ voucher = "LOCKED"
      <3>1. discounted' = discounted \cup {o} /\ Go(r, "create")
            /\ UNCHANGED <<xendit, intent, failures, voucher, lockToken, lapsed, storeUses>>
        BY <1>6, <2>1, <2>4 DEF Discount
      <3>2. /\ \A q \in Requests : q # r => req'[q] = req[q]
            /\ req'[r].step = "create" /\ req'[r].at = req[r].at /\ req'[r].caller = req[r].caller
        BY <2>1, <3>1, GoTyped DEF TypeOK, Steps
      <3>3. ~Gone /\ (Gone <=> Gone')
        BY <2>4, <3>1 DEF Gone
      <3>4. storeUses' = 0 /\ Stakes' \subseteq {o}
        BY <1>1, <2>4, <3>1, <3>3 DEF VoucherRow, Stakes
      <3>5. VoucherRow'
        BY <1>1, <2>2, <2>4, <3>1, <3>3, <3>4 DEF VoucherRow
      <3>6. Waits(r)'
        BY <3>2 DEF Waits
      <3>7. ASSUME NEW q \in Requests, q # r, req[q].step = "succeed" PROVE It(q) # o
        <4>1. Owns(q)
          BY <3>7 DEF OwnersInv, CallersFit, Owns, Finalizing, ApplySteps
        <4>2. QED BY <2>1, <2>2, <3>7, <4>1 DEF OwnersInv, OneOwner, Owns
      <3>8. QED BY <1>1, <3>1, <3>2, <3>3, <3>5, <3>6, <3>7, WaitsKept
    <2>5. QED BY <2>3, <2>4
  <1>7. CASE CreateOrder(r)
    <2>1. /\ It(r) \in Orders /\ At(r, "create") /\ req[r].caller = "checkout"
          /\ req[r] \in LocalState
      BY <1>2, <1>3, <1>7 DEF CreateOrder, Making, At, TypeOK
    <2>2. UNCHANGED <<voucher, lockToken, lapsed, storeUses, xendit, failures, discounted, intent>>
      BY <1>7 DEF CreateOrder
    <2>3. CASE Go(r, "request")
      BY <1>1, <2>1, <2>2, <2>3, VoucherGo DEF VoucherRow, Steps
    <2>4. CASE ~Go(r, "request")
      <3>1. PICK s \in {"promote", "finalize"}, c \in {"demo", "free"} :
              req' = [req EXCEPT ![r].step = s, ![r].caller = c]
        BY <1>7, <2>4 DEF CreateOrder
      <3>2. /\ \A q \in Requests : q # r => req'[q] = req[q]
            /\ req'[r].step = s /\ req'[r].caller = c
        BY <2>1, <3>1 DEF TypeOK, LocalState
      <3>3. Waits(r)'
        BY <3>2 DEF Waits
      <3>4. VoucherRow' /\ (Gone <=> Gone')
        BY <1>1, <2>2, RowKept DEF VoucherRow, Gone
      <3>5. QED BY <1>1, <2>2, <3>2, <3>3, <3>4, WaitsKept
    <2>5. QED BY <2>3, <2>4
  <1>8. ASSUME RequestPayment(r) \/ Reply(r) PROVE VoucherNow'
    <2>1. PICK o \in Orders : o = It(r)
      BY <1>3, <1>8 DEF RequestPayment, Reply
    <2>2. /\ req[r].caller = "checkout"
          /\ \/ At(r, "request") /\ xendit[o] = "none"
             \/ At(r, "reply") /\ xendit[o] = "CREATED"
      <3>1. CASE RequestPayment(r)
        BY <1>2, <2>1, <3>1 DEF RequestPayment, Making, At, SettledInv, Backed
      <3>2. CASE Reply(r)
        BY <1>1, <2>1, <3>2 DEF Reply, At, Waits
      <3>3. QED BY <1>8, <3>1, <3>2
    <2>3. /\ UNCHANGED <<voucher, lockToken, lapsed, storeUses, intent, failures, discounted>>
          /\ \A p \in Orders : p # o => xendit'[p] = xendit[p]
          /\ xendit'[o] # "FAILED"
          /\ At(r, "request") => xendit'[o] = "CREATED"
      BY <1>8, <2>1, <2>2 DEF RequestPayment, Reply, TypeOK, Plain, At
    <2>4. PICK s \in {"intent", "idle"} : Go(r, s) /\ (s = "intent" => At(r, "request"))
      BY <1>8 DEF RequestPayment, Reply
    <2>5. /\ \A q \in Requests : q # r => req'[q] = req[q]
          /\ req'[r].step = s
          /\ s # "idle" => req'[r].at = req[r].at /\ req'[r].caller = req[r].caller
          /\ s = "idle" => req'[r] = Idle
      BY <2>1, <2>4, GoTyped DEF TypeOK, Steps
    <2>6. VoucherRow' /\ (Gone <=> Gone')
      <3>1. o \notin failures /\ xendit[o] # "FAILED"
        BY <1>1, <2>2 DEF VoucherRow
      <3>2. discounted \subseteq Orders /\ failures \subseteq Orders
        BY DEF TypeOK
      <3>3. \A p \in discounted' : xendit'[p] # "FAILED" => p \in discounted /\ xendit[p] # "FAILED"
        BY <2>3, <3>1, <3>2
      <3>4. \A p \in failures' : xendit'[p] = "FAILED"
        BY <1>1, <2>3, <3>1, <3>2 DEF VoucherRow
      <3>5. \A p \in discounted' : intent'[p] = "SUCCEEDED" => Gone
        BY <1>1, <2>3 DEF VoucherRow
      <3>6. QED BY <1>1, <2>3, <3>3, <3>4, <3>5, RowKept DEF Gone
    <2>7. Waits(r)'
      <3>1. s = "intent" => req'[r].at = o
        BY <2>1, <2>5 DEF It
      <3>2. QED BY <2>3, <2>4, <2>5, <3>1 DEF Waits, Idle, It
    <2>8. ASSUME NEW q \in Requests, q # r, req[q].caller = "checkout",
                 req[q].step \in {"intent", "reply"}
          PROVE  xendit'[It(q)] = xendit[It(q)]
      <3>1. It(q) \in Orders /\ It(q) # o
        BY <1>1, <2>1, <2>2, <2>8 DEF OneCheckout, Busy
      <3>2. QED BY <2>3, <3>1
    <2>9. \/ req'[r].caller # "checkout"
          \/ req[r].caller = "checkout" /\ req'[r].at = req[r].at
      BY <2>5 DEF Idle
    <2>10. QED BY <1>1, <2>3, <2>5, <2>6, <2>7, <2>8, <2>9, WaitsKept
  <1>9. CASE CreateIntent(r)
    <2>1. PICK o \in Orders : o = It(r) /\ At(r, "intent")
      BY <1>3, <1>9 DEF CreateIntent
    <2>2. xendit[o] = "CREATED" /\ req[r].caller = "checkout"
      BY <1>1, <1>2, <2>1 DEF Waits, Making, At
    <2>3. Go(r, "reply") /\ intent' = [intent EXCEPT ![o] = "PENDING"]
          /\ UNCHANGED <<voucher, lockToken, lapsed, storeUses, xendit, failures, discounted>>
      BY <1>9, <2>1, <2>2 DEF CreateIntent
    <2>4. \A p \in discounted : intent'[p] = "SUCCEEDED" => Gone
      BY <1>1, <2>3 DEF VoucherRow, TypeOK
    <2>5. QED BY <2>1, <2>2, <2>3, <2>4, VoucherGo DEF Steps
  <1>10. ASSUME NEW o \in Orders PROVE ~CheckPromotion(r, o)
    BY DEF CheckPromotion, Plain
  <1>11. QED BY <1>4, <1>5, <1>6, <1>7, <1>8, <1>9, <1>10 DEF Checkout

\* A finalization uses the voucher that its order has locked.
LEMMA VoucherApply ==
  ASSUME TypeOK, Busy, OwnersInv, SettledInv, Plain, VoucherNow, NEW r \in Requests, Apply(r)
  PROVE  VoucherNow'
  <1> USE DEF orderVars, payVars, voucherVars, pointVars
  <1>1. VoucherRow /\ OneCheckout /\ Waits(r) /\ CallersFit(r) /\ Backed(r)
    BY DEF VoucherNow, OwnersInv, SettledInv
  <1>2. /\ req[r].step \in ApplySteps \cup {"claim", "rollback"}
        /\ It(r) \in Orders /\ req[r].caller # "checkout"
    <2>1. req[r].step \in ApplySteps \cup {"claim", "rollback"}
      BY DEF Apply, Claim, ReadOrder, Place, Referral, Award, Promote, Use, Succeed, Rollback, At,
             ApplySteps, InOrderTx
    <2>2. QED BY <1>1, <2>1 DEF Busy, Waits, ApplySteps, InOrderTx
  <1>3. discounted \subseteq Orders /\ \A o \in discounted : intent[o] = "SUCCEEDED" => Gone
    BY <1>1 DEF VoucherRow, TypeOK
  <1>4. CASE Claim(r) \/ Rollback(r)
    <2>1. Go(r, "finalize") \/ Go(r, "idle")
      BY <1>2, <1>4 DEF Claim, Rollback, Return
    <2>2. \A o \in discounted : intent'[o] = "SUCCEEDED" => Gone
      BY <1>3, <1>4 DEF Claim, Rollback, TypeOK
    <2>3. QED BY <1>2, <1>4, <2>1, <2>2, VoucherGo DEF Claim, Rollback, Steps, ApplySteps
  <1>5. CASE ReadOrder(r) \/ Place(r) \/ Referral(r) \/ Award(r)
    <2>1. PICK s \in {"place", "idle", "promote", "referral", "reward", "award"} : Go(r, s)
      BY <1>5 DEF ReadOrder, Place, Referral, Award, AfterOrder
    <2>2. /\ UNCHANGED <<voucher, lockToken, lapsed, storeUses, xendit, failures, discounted, intent>>
      BY <1>5 DEF ReadOrder, Place, Referral, Award
    <2>3. QED BY <1>2, <1>3, <2>1, <2>2, VoucherGo DEF Steps, ApplySteps, InOrderTx
  <1>6. CASE Promote(r)
    <2>1. PICK o \in Orders : o = It(r) /\ At(r, "promote")
      BY <1>2, <1>6 DEF Promote
    <2>2. UNCHANGED <<voucher, lockToken, lapsed, storeUses, xendit, failures, discounted, intent>>
      BY <1>6 DEF Promote, Plain
    <2>3. CASE Go(r, "use")
      BY <1>2, <1>3, <2>2, <2>3, VoucherGo DEF Steps, ApplySteps
    <2>4. CASE ~Go(r, "use")
      <3>1. Go(r, AfterPromotions(r)) /\ (o \notin uses \/ lockToken # o)
        BY <1>6, <2>1, <2>4 DEF Promote, Plain
      <3>2. CASE req[r].caller \in {"free", "demo"}
        BY <1>2, <1>3, <2>2, <3>1, <3>2, VoucherGo DEF AfterPromotions, Steps
      <3>3. CASE req[r].caller \notin {"free", "demo"}
        <4>1. Go(r, "succeed") /\ xendit[o] = "SUCCEEDED"
          <5>1. req[r].caller = "notice"
            BY <1>1, <1>2, <2>1, <3>3 DEF CallersFit, At, TypeOK, LocalState, Callers, ApplySteps
          <5>2. QED BY <1>1, <2>1, <3>1, <3>3, <5>1
                       DEF AfterPromotions, Backed, Finalizing, At, ApplySteps
        <4>2. o \in discounted => Gone
          BY <1>1, <3>1, <4>1 DEF VoucherRow, Stakes, TypeOK
        <4>3. QED BY <1>2, <1>3, <2>1, <2>2, <4>1, <4>2, VoucherGo DEF Steps, ApplySteps
      <3>4. QED BY <3>2, <3>3
    <2>5. QED BY <2>3, <2>4
  <1>7. CASE Use(r)
    <2>1. PICK s \in {"idle", "succeed"} : Go(r, s)
      BY <1>7 DEF Use, AfterPromotions
    <2>2. /\ \A q \in Requests : q # r => req'[q] = req[q]
          /\ req'[r].step = s
          /\ s # "idle" => req'[r].at = req[r].at /\ req'[r].caller = req[r].caller
          /\ s = "idle" => req'[r] = Idle
      BY <1>2, <2>1, GoTyped DEF TypeOK, Steps, ApplySteps
    <2>3. /\ Gone' /\ lockToken' = NoOrder /\ lapsed' = FALSE
          /\ UNCHANGED <<storeUses, xendit, discounted, failures>>
      BY <1>7 DEF Use, Gone
    <2>4. VoucherRow'
      BY <1>1, <2>3, RowGone
    <2>5. Waits(r)'
      BY <1>2, <2>2, <2>3 DEF Waits, Idle
    <2>6. req'[r].caller # "checkout"
      BY <1>2, <2>2 DEF Idle
    <2>7. QED BY <1>1, <2>2, <2>3, <2>4, <2>5, <2>6, WaitsKept DEF VoucherNow
  <1>8. CASE Succeed(r)
    <2>1. Go(r, "idle") /\ (It(r) \in discounted => Gone)
      BY <1>1, <1>2, <1>8 DEF Succeed, Return, Waits, At
    <2>2. \A o \in discounted : intent'[o] = "SUCCEEDED" => Gone
      BY <1>3, <1>8, <2>1 DEF Succeed, TypeOK
    <2>3. QED BY <1>2, <1>8, <2>1, <2>2, VoucherGo DEF Succeed, Steps
  <1>9. QED BY <1>4, <1>5, <1>6, <1>7, <1>8 DEF Apply

\* A notice of failure frees only the voucher of its own order.
LEMMA VoucherNotice ==
  ASSUME TypeOK, Busy, OwnersInv, SettledInv, Plain, VoucherNow, NEW r \in Requests, Notice(r)
  PROVE  VoucherNow'
  <1> USE DEF orderVars, payVars, voucherVars, pointVars
  <1>1. VoucherRow /\ OneCheckout
    BY DEF VoucherNow
  <1>2. discounted \subseteq Orders /\ \A o \in discounted : intent[o] = "SUCCEEDED" => Gone
    BY <1>1 DEF VoucherRow, TypeOK
  <1>3. CASE MarkFailed(r)
    <2>1. \A o \in discounted : intent'[o] = "SUCCEEDED" => Gone
      BY <1>2, <1>3 DEF MarkFailed, TypeOK
    <2>2. QED BY <1>2, <1>3, <2>1, VoucherGo DEF MarkFailed, Steps
  <1>4. CASE ~MarkFailed(r)
    <2>1. PICK o \in Orders, s \in {"claim", "fail", "finalize"}, c \in {"notice", "button"} :
            /\ Begin(r, s, o, c)
            /\ UNCHANGED <<storeUses, xendit, intent, discounted, failures>>
            /\ \/ UNCHANGED <<voucher, lockToken, lapsed>>
               \/ o \in failures /\ lockToken = o /\ voucher = "LOCKED"
                    /\ voucher' = "ACTIVE" /\ lockToken' = NoOrder /\ lapsed' = FALSE
      BY <1>4 DEF Notice, Settle, FailureNotice, CompleteDemo, Release
    <2>2. /\ \A q \in Requests : q # r => req'[q] = req[q]
          /\ req'[r].step = s /\ req'[r].caller = c
      BY <2>1, BeginTyped DEF TypeOK, Steps, ApplySteps, Callers
    <2>3. VoucherRow' /\ (Gone => Gone')
      <3>1. CASE UNCHANGED <<voucher, lockToken, lapsed>>
        BY <1>1, <2>1, <3>1, RowKept DEF VoucherRow, Gone
      <3>2. CASE /\ o \in failures /\ lockToken = o /\ voucher = "LOCKED"
                 /\ voucher' = "ACTIVE" /\ lockToken' = NoOrder /\ lapsed' = FALSE
        <4>1. ~Gone /\ xendit[o] = "FAILED"
          BY <1>1, <3>2 DEF Gone, VoucherRow
        <4>2. Stakes = {} /\ storeUses = 0
          BY <1>1, <3>2, <4>1 DEF VoucherRow, Stakes
        <4>3. Stakes' = {} /\ \A p \in discounted' : intent'[p] # "SUCCEEDED"
          BY <1>2, <2>1, <4>1, <4>2 DEF Stakes
        <4>4. QED BY <1>1, <2>1, <3>2, <4>1, <4>2, <4>3 DEF VoucherRow, Gone
      <3>3. QED BY <2>1, <3>1, <3>2
    <2>4. Waits(r)'
      BY <2>2 DEF Waits
    <2>5. QED BY <1>1, <2>1, <2>2, <2>3, <2>4, WaitsKept DEF VoucherNow
  <1>5. QED BY <1>3, <1>4

\* The till, faults and crashes keep the voucher with one use.
LEMMA VoucherCounter ==
  ASSUME TypeOK, Busy, Plain, VoucherNow, NEW r \in Requests,
         Counter(r) \/ Fault(r) \/ Crash(r)
  PROVE  VoucherNow'
  <1> USE DEF orderVars, payVars, voucherVars, pointVars
  <1>1. VoucherRow /\ OneCheckout /\ Waits(r)
    BY DEF VoucherNow
  <1>2. \A o \in discounted : intent[o] = "SUCCEEDED" => Gone
    BY <1>1 DEF VoucherRow
  <1>3. CASE RedeemInStore(r)
    <2>1. /\ Lockable /\ voucher' = "USED" /\ lockToken' = NoOrder /\ lapsed' = FALSE
          /\ storeUses' = storeUses + 1
          /\ UNCHANGED <<req, xendit, intent, discounted, failures>>
      BY <1>3 DEF RedeemInStore, Plain
    <2>2. storeUses' = 1 /\ Stakes' = {}
      BY <1>1, <2>1, ActiveFree DEF Stakes
    <2>3. VoucherRow' /\ Gone'
      BY <1>1, <2>1, <2>2 DEF VoucherRow, Gone
    <2>4. Waits(r)'
      BY <1>1, <2>1, <2>3 DEF Waits, It
    <2>5. QED BY <1>1, <2>1, <2>3, <2>4, WaitsKept DEF VoucherNow, It
  <1>4. CASE StoreUse(r)
    BY <1>1, <1>4 DEF StoreUse, At, Waits
  <1>5. CASE Revoke(r)
    <2>1. /\ \A q \in Requests : q # r => req'[q] = req[q]
          /\ req'[r].step = "revoke" /\ req'[r].caller = "none"
      BY <1>5, BeginTyped DEF Revoke, TypeOK, Steps, Callers
    <2>2. UNCHANGED <<voucher, lockToken, lapsed, storeUses, xendit, intent, discounted, failures>>
      BY <1>5 DEF Revoke
    <2>3. VoucherRow' /\ (Gone => Gone')
      BY <1>1, <2>2, RowKept DEF VoucherRow, Gone
    <2>4. Waits(r)'
      BY <2>1 DEF Waits
    <2>5. QED BY <1>1, <2>1, <2>2, <2>3, <2>4, WaitsKept DEF VoucherNow
  <1>6. CASE Withdraw(r)
    <2>1. /\ \A q \in Requests : q # r => req'[q] = req[q]
          /\ req'[r] = Idle
      BY <1>6, GoTyped DEF Withdraw, TypeOK, Steps
    <2>2. /\ Gone' /\ lockToken' = NoOrder /\ lapsed' = FALSE
          /\ UNCHANGED <<storeUses, xendit, discounted, failures>>
      BY <1>6 DEF Withdraw, Gone
    <2>3. VoucherRow'
      BY <1>1, <2>2, RowGone
    <2>4. Waits(r)' /\ req'[r].caller # "checkout"
      BY <2>1 DEF Waits, Idle
    <2>5. QED BY <1>1, <2>1, <2>2, <2>3, <2>4, WaitsKept DEF VoucherNow
  <1>7. CASE Fault(r) \/ Crash(r)
    <2>1. UNCHANGED <<voucher, lockToken, lapsed, storeUses, xendit, intent, discounted, failures>>
      BY <1>7 DEF Fault, Crash
    <2>2. Go(r, "idle") \/ (Go(r, "rollback") /\ Applying(r))
      BY <1>7 DEF Fault, Crash, Throw
    <2>3. Applying(r) => It(r) \in Orders /\ req[r].caller # "checkout"
      BY <1>1 DEF Applying, Busy, Waits, ApplySteps, InOrderTx
    <2>4. QED BY <1>2, <2>1, <2>2, <2>3, VoucherGo DEF Steps
  <1>8. QED BY <1>3, <1>4, <1>5, <1>6, <1>7 DEF Counter

\* Every step keeps VoucherInv.
LEMMA VoucherNext ==
  ASSUME TypeOK, Busy, DiscountInv, OwnersInv, SettledInv, VoucherInv, [Next]_vars
  PROVE  VoucherInv'
  <1> USE DEF orderVars, payVars, voucherVars, pointVars
  <1>1. Plain' <=> Plain
    BY GoneStays DEF Plain, settings
  <1>2. SUFFICES ASSUME Plain, VoucherNow PROVE VoucherNow'
    BY <1>1 DEF VoucherInv
  <1>3. VoucherRow /\ OneCheckout /\ \A q \in Requests : Waits(q)
    BY <1>2 DEF VoucherNow
  <1>4. ASSUME NEW o \in Orders, Pay(o) \/ PaymentFails(o) PROVE VoucherNow'
    <2>1. /\ UNCHANGED <<req, voucher, lockToken, lapsed, storeUses, intent, discounted>>
          /\ \A p \in Orders : p # o => xendit'[p] = xendit[p]
          /\ xendit[o] = "REQUIRES_ACTION"
          /\ \/ xendit'[o] = "SUCCEEDED" /\ failures' = failures
             \/ xendit'[o] = "FAILED" /\ failures' = failures \cup {o}
      BY <1>2, <1>4 DEF Pay, PaymentFails, TypeOK, Plain
    <2>2. VoucherRow' /\ (Gone <=> Gone')
      <3>1. discounted \subseteq Orders /\ failures \subseteq Orders
        BY DEF TypeOK
      <3>2. \A p \in discounted' : xendit'[p] # "FAILED" => p \in discounted /\ xendit[p] # "FAILED"
        BY <2>1, <3>1
      <3>3. \A p \in failures' : xendit'[p] = "FAILED"
        BY <1>3, <2>1, <3>1 DEF VoucherRow
      <3>4. \A p \in discounted' : intent'[p] = "SUCCEEDED" => Gone
        BY <1>3, <2>1 DEF VoucherRow
      <3>5. QED BY <1>3, <2>1, <3>2, <3>3, <3>4, RowKept DEF Gone
    <2>3. ASSUME NEW q \in Requests PROVE Waits(q)'
      <3>1. req[q].caller = "checkout" /\ req[q].step \in {"intent", "reply"}
              => xendit'[It(q)] = xendit[It(q)]
        BY <1>3, <2>1 DEF Waits, Busy
      <3>2. QED BY <1>3, <2>1, <2>2, <3>1 DEF Waits, It
    <2>4. OneCheckout'
      BY <1>3, <2>1 DEF OneCheckout, It
    <2>5. QED BY <2>2, <2>3, <2>4 DEF VoucherNow
  <1>5. CASE UNCHANGED vars \/ \E o \in Orders : CompleteOrder(o)
    <2>1. UNCHANGED <<req, voucher, lockToken, lapsed, storeUses, intent, discounted, xendit, failures>>
      BY <1>5 DEF vars, CompleteOrder
    <2>2. VoucherRow' /\ (Gone <=> Gone')
      BY <1>3, <2>1, RowKept DEF VoucherRow, Gone
    <2>3. ASSUME NEW q \in Requests PROVE Waits(q)'
      BY <1>3, <2>1, <2>2 DEF Waits, It
    <2>4. OneCheckout'
      BY <1>3, <2>1 DEF OneCheckout, It
    <2>5. QED BY <2>2, <2>3, <2>4 DEF VoucherNow
  <1>6. ~Lapse
    BY <1>2 DEF Lapse, Plain
  <1>7. QED BY <1>2, <1>4, <1>5, <1>6, VoucherCheckout, VoucherApply, VoucherNotice, VoucherCounter
            DEF Next

\* What is true of every state that can be reached: what a settled payment has done, and, in a world
\* without surprises, whose payment the voucher waits for.
THEOREM Settlements == Spec => [](TypeOK /\ Busy /\ OwnersInv /\ SettledInv /\ VoucherInv)
  <1>1. Init => SettledInv /\ VoucherInv
    <2>1. SUFFICES ASSUME Init PROVE SettledInv /\ VoucherInv
      OBVIOUS
    <2>2. SettledInv
      BY <2>1 DEF Init, SettledInv, Backed, Settled, Finalizing, PaidOrders, Idle, ApplySteps, InOrderTx
    <2>3. VoucherRow /\ Stakes = {}
      BY <2>1 DEF Init, VoucherRow, Stakes, Gone
    <2>4. OneCheckout /\ \A r \in Requests : Waits(r)
      BY <2>1 DEF Init, OneCheckout, Waits, Idle
    <2>5. QED BY <2>2, <2>3, <2>4 DEF VoucherInv, VoucherNow
  <1>2. QED BY <1>1, SettledNext, VoucherNext, Owners, TypeCorrect, PTL DEF Spec

\* An order is placed only when it is paid or free, and a payment is settled only when everything it
\* pays for is done: the order is placed, the reward is paid for and the voucher is used
\* (applyShopOrderFromXendit writes SUCCEEDED last, whatever failed and was tried again before).
THEOREM SettlementsAreDone == Spec => []SettledIsDone
  <1>1. TypeOK /\ SettledInv /\ VoucherInv => SettledIsDone
    <2>1. SUFFICES ASSUME TypeOK, SettledInv, VoucherInv PROVE SettledIsDone
      OBVIOUS
    <2>2. \A o \in Orders : Settled(o)
      BY <2>1 DEF SettledInv
    <2>3. ~demoMode => \A o \in PaidOrders : xendit[o] = "SUCCEEDED" \/ o \in free
      BY <2>2 DEF Settled, PaidOrders
    <2>4. ASSUME NEW o \in Orders, intent[o] = "SUCCEEDED"
          PROVE  o \in PaidOrders /\ (promotion = "points" /\ o \in uses => spent[o] > 0)
      BY <2>2, <2>4 DEF Settled
    <2>5. ASSUME allowed = {} PROVE UsedOnSuccess
      <3>1. SUFFICES ASSUME NEW o \in discounted, intent[o] = "SUCCEEDED", promotion # "points"
                     PROVE  Gone
        BY DEF UsedOnSuccess, Gone
      <3>2. o \in Orders /\ o \in uses
        BY <2>1 DEF TypeOK
      <3>3. CASE promotion = "catalogue"
        BY <2>2, <3>1, <3>2, <3>3 DEF Settled
      <3>4. CASE promotion = "voucher"
        BY <2>1, <2>5, <3>1, <3>4 DEF VoucherInv, VoucherNow, VoucherRow, Plain
      <3>5. QED BY <2>1, <3>1, <3>3, <3>4 DEF TypeOK
    <2>6. QED BY <2>3, <2>4, <2>5 DEF SettledIsDone
  <1>2. QED BY <1>1, Settlements, PTL

\* A campaign voucher pays for one order or one purchase in the store, although the checkout, the
\* failure webhook, the till and the finalization write its row from different requests.
THEOREM VoucherUsedOnce == Spec => []OneUse
  <1>1. TypeOK /\ SettledInv /\ VoucherInv => OneUse
    <2>1. SUFFICES ASSUME TypeOK, SettledInv, VoucherInv, Plain
                   PROVE  Cardinality(discounted \cap PaidOrders) + storeUses <= 1
      BY DEF OneUse, Plain
    <2>2. VoucherRow
      BY <2>1 DEF VoucherInv, VoucherNow
    <2>3. discounted \cap PaidOrders \subseteq Stakes
      <3>1. ASSUME NEW o \in discounted \cap PaidOrders PROVE xendit[o] # "FAILED"
        <4>1. o \in Orders
          BY DEF PaidOrders
        <4>2. QED BY <2>1, <4>1 DEF SettledInv, Settled
      <3>2. QED BY <3>1 DEF Stakes
    <2>4. CASE discounted \cap PaidOrders = {}
      <3>1. storeUses \in {0, 1}
        BY <2>2 DEF VoucherRow
      <3>2. Cardinality(discounted \cap PaidOrders) = 0
        BY <2>4, FS_EmptySet
      <3>3. QED BY <3>1, <3>2
    <2>5. CASE discounted \cap PaidOrders # {}
      <3>1. PICK o : o \in discounted \cap PaidOrders
        BY <2>5
      <3>2. discounted \cap PaidOrders = {o}
        BY <2>2, <2>3, <3>1 DEF VoucherRow
      <3>3. Cardinality(discounted \cap PaidOrders) = 1
        BY <3>2, FS_Singleton
      <3>4. storeUses = 0
        BY <2>2, <2>3, <3>1 DEF VoucherRow
      <3>5. QED BY <3>3, <3>4
    <2>6. QED BY <2>4, <2>5
  <1>2. QED BY <1>1, Settlements, PTL

=============================================================================
