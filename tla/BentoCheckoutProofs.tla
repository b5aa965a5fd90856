------------------------- MODULE BentoCheckoutProofs -------------------------
(***************************************************************************)
(* Proofs about BentoCheckout, for any number of attempts and requests, any *)
(* cap, any number of failures, and whatever Xendit's notices do, except    *)
(* where a theorem says otherwise.                                          *)
(*                                                                         *)
(*   1. Types.                                                             *)
(*   2. The claim that applyBentoSubscriptionFromXendit takes on an intent  *)
(*      keeps ClaimInv: requests finalize a payment one at a time, on a     *)
(*      captured payment, and what is settled stays settled.               *)
(*   3. What has been settled is settled in all books.                     *)
(*   4. The slots of the promo code are never oversold, and implement      *)
(*      PromoSlots.                                                        *)
(***************************************************************************)
EXTENDS BentoCheckout, FiniteSetTheorems, TLAPS

---------------------------------------------------------------------------
(* 1. Types *)

\* Where a call returns to, or its exception leads, is a step the request can take.
LEMMA ReturnIsStep ==
  ASSUME NEW r \in Requests
  PROVE  /\ OnReturn(r) \in {"priors", "recheck", "idle"}
         /\ OnReturn(r) = "priors" => req[r].caller = "priors"
         /\ OnThrow(r) \in {"priors", "recheck", "idle", "releaseRead"}
         /\ OnThrow(r) = "priors" => req[r].caller = "priors"
         /\ OnThrow(r) = "releaseRead" => req[r].caller = "checkout"
  BY DEF OnReturn, OnThrow

\* An exception leads to a step the request can take.
LEMMA ErrorIsStep ==
  ASSUME NEW r \in Requests
  PROVE  /\ OnError(r) \in {"priors", "recheck", "idle", "releaseRead", "rollback"}
         /\ OnError(r) = "rollback" => req[r].step \in {"activate", "succeed"}
         /\ OnError(r) = "releaseRead" =>
              \/ req[r].step \in {"createSub", "request", "createIntent", "link", "attach",
                                 "reply"}
              \/ req[r].step = "rollback" /\ req[r].caller = "checkout"
         /\ OnError(r) = "priors" => req[r].step = "rollback" /\ req[r].caller = "priors"
         /\ OnError(r) = "recheck" => req[r].step = "rollback"
  <1>1. CASE req[r].step \in {"createSub", "request", "createIntent", "link", "attach",
                                 "reply"}
    BY <1>1 DEF OnError
  <1>2. CASE req[r].step \in {"activate", "succeed"}
    BY <1>2 DEF OnError
  <1>3. CASE req[r].step = "rollback"
    BY <1>3, ReturnIsStep DEF OnError, OnThrow, OnReturn
  <1>4. CASE req[r].step \notin {"createSub", "request", "createIntent", "link", "attach",
                                 "activate", "succeed", "rollback"}
    BY <1>4 DEF OnError
  <1>5. QED BY <1>1, <1>2, <1>3, <1>4

\* The steps of a request, listed.
LEMMA StepsListed ==
  Steps = {"idle", "claimSlot", "createRow", "findPriors", "priors", "cancelPriors",
           "createSub", "request", "createIntent", "link", "attach", "reply",
           "releaseRead", "releaseWrite", "returnRead", "returnWrite", "activate",
           "succeed", "rollback", "cancelWrite", "recheck", "forceWrite"}
  BY DEF Steps, CheckoutSteps, ReleaseSteps, ReturnSteps, Finalizing, AdminSteps

\* Going on with a step, starting a request and claiming an intent keep the
\* local state of every request well formed.
LEMMA LocalType ==
  ASSUME NEW s \in Steps, NEW c \in Callers, NEW o \in Attempts \cup {NoAttempt},
         NEW a \in Attempts \cup {NoAttempt}, NEW t \in SUBSET Attempts,
         \/ s \in CheckoutSteps \cup ReleaseSteps
         \/ s \in Finalizing /\ c \in {"priors", "checkout"}
         => o \in Attempts,
         s \in Finalizing \cup ReturnSteps \cup AdminSteps => a \in Attempts
  PROVE  Local(s, c, o, a, t) \in LocalState
  BY DEF Local, LocalState

\* What a well-formed local state gives: its fields are typed, and a step that needs
\* an attempt has it.
LEMMA LocalFields ==
  ASSUME NEW l \in LocalState
  PROVE  /\ l.step \in Steps
         /\ l.caller \in Callers
         /\ l.own \in Attempts \cup {NoAttempt}
         /\ l.at \in Attempts \cup {NoAttempt}
         /\ l.todo \in SUBSET Attempts
         /\ l.step \in CheckoutSteps \cup ReleaseSteps => l.own \in Attempts
         /\ l.step \in Finalizing /\ l.caller \in {"priors", "checkout"} => l.own \in Attempts
         /\ l.step \in Finalizing \cup ReturnSteps \cup AdminSteps => l.at \in Attempts
  BY DEF LocalState

\* Going on with a step keeps the local states well formed, if the step asks for no
\* attempt the request does not have.
LEMMA GoType ==
  ASSUME req \in [Requests -> LocalState], NEW r \in Requests, NEW s \in Steps, Go(r, s),
         \/ s \in CheckoutSteps \cup ReleaseSteps
         \/ s \in Finalizing /\ req[r].caller \in {"priors", "checkout"}
         => req[r].own \in Attempts,
         s \in Finalizing \cup ReturnSteps \cup AdminSteps => req[r].at \in Attempts
  PROVE  req' \in [Requests -> LocalState]
  <1>1. Idle \in LocalState
    BY LocalType, StepsListed
    DEF Idle, Callers, CheckoutSteps, ReleaseSteps, ReturnSteps, Finalizing, AdminSteps
  <1>2. Local(s, req[r].caller, req[r].own, req[r].at, req[r].todo) \in LocalState
    <2>1. req[r] \in LocalState
      OBVIOUS
    <2>2. QED BY <2>1, LocalFields, LocalType
  <1>3. QED BY <1>1, <1>2 DEF Go

\* Starting a request keeps the local states well formed.
LEMMA BeginType ==
  ASSUME req \in [Requests -> LocalState], NEW r \in Requests, NEW s \in Steps,
         NEW c \in Callers, NEW o \in Attempts \cup {NoAttempt},
         NEW a \in Attempts \cup {NoAttempt}, Begin(r, s, c, o, a),
         s \in CheckoutSteps \cup ReleaseSteps => o \in Attempts,
         s \notin Finalizing,
         s \in ReturnSteps \cup AdminSteps => a \in Attempts
  PROVE  req' \in [Requests -> LocalState]
  BY LocalType DEF Begin

\* Claiming an intent keeps the local states well formed, whoever claims.
LEMMA ClaimType ==
  ASSUME req \in [Requests -> LocalState], NEW r \in Requests, NEW a \in Attempts,
         NEW c \in Callers, ClaimIntent(r, a, c),
         c \in {"priors", "checkout"} => req[r].own \in Attempts
  PROVE  req' \in [Requests -> LocalState]
  <1> DEFINE t == req[r].todo \ {a}
             o == req[r].own
  <1>1. o \in Attempts \cup {NoAttempt} /\ t \in SUBSET Attempts
    BY LocalFields
  <1>2. req' = [req EXCEPT ![r] = Local("activate", c, o, a, t)]
    BY DEF ClaimIntent
  <1>3. c \in {"priors", "checkout"} => o \in Attempts
    OBVIOUS
  <1> HIDE DEF t, o
  <1>4. /\ "activate" \in Steps
        /\ "activate" \notin CheckoutSteps \cup ReleaseSteps
    BY StepsListed DEF CheckoutSteps, ReleaseSteps
  <1>5. Local("activate", c, o, a, t) \in LocalState
    BY <1>1, <1>3, <1>4, LocalType
  <1>6. QED BY <1>2, <1>5

\* Type correctness of the local states: every request works on an attempt when
\* its step needs one.
LEMMA StepKeepsLocal ==
  ASSUME TypeOK, [Next]_vars
  PROVE  req' \in [Requests -> LocalState]
  <1> req \in [Requests -> LocalState]
    BY DEF TypeOK
  <1> USE GoType, StepsListed, LocalFields
      DEF At, CheckoutSteps, ReleaseSteps, ReturnSteps, Finalizing, AdminSteps
  <1>1. ASSUME NEW r \in Requests, Checkout(r) PROVE req' \in [Requests -> LocalState]
    <2>1. CASE ClaimSlot(r)
      BY <2>1 DEF ClaimSlot
    <2>2. CASE CreateRedemption(r)
      BY <2>2 DEF CreateRedemption
    <2>3. CASE FindPriors(r)
      <3> DEFINE priors == UnpaidOf(req[r].own)
                 s == IF priors = {} THEN "createSub" ELSE "priors"
      <3>1. req' = [req EXCEPT ![r] = Local(s, "checkout", req[r].own, NoAttempt, priors)]
        BY <2>3 DEF FindPriors
      <3>2. s \in CheckoutSteps /\ s \in Steps /\ s \notin Finalizing \cup ReturnSteps \cup AdminSteps
        OBVIOUS
      <3>3. priors \in SUBSET Attempts /\ req[r].own \in Attempts
        BY <2>3 DEF FindPriors, UnpaidOf
      <3> HIDE DEF priors, s
      <3>4. Local(s, "checkout", req[r].own, NoAttempt, priors) \in LocalState
        BY <3>2, <3>3, LocalType DEF Callers
      <3>5. QED BY <3>1, <3>4
    <2>4. CASE NextPrior(r)
      <3>1. req[r].own \in Attempts
        BY <2>4 DEF NextPrior
      <3>2. ASSUME NEW b \in Attempts, ClaimIntent(r, b, "priors")
            PROVE  req' \in [Requests -> LocalState]
        BY <3>1, <3>2, ClaimType DEF Callers
      <3>3. ASSUME NEW b \in Attempts,
                   req' = [req EXCEPT ![r] = Local("priors", "checkout", req[r].own, NoAttempt,
                                                   req[r].todo \ {b})]
            PROVE  req' \in [Requests -> LocalState]
        <4> DEFINE t == req[r].todo \ {b}
        <4>1. t \in SUBSET Attempts
          OBVIOUS
        <4>2. req' = [req EXCEPT ![r] = Local("priors", "checkout", req[r].own, NoAttempt, t)]
          BY <3>3
        <4> HIDE DEF t
        <4>3. Local("priors", "checkout", req[r].own, NoAttempt, t) \in LocalState
          BY <3>1, <4>1, LocalType DEF Callers
        <4>4. QED BY <4>2, <4>3
      <3>4. CASE Go(r, "cancelPriors")
        BY <3>1, <3>4
      <3>5. req[r].todo \subseteq Attempts
        OBVIOUS
      <3>6. QED BY <2>4, <3>2, <3>3, <3>4, <3>5 DEF NextPrior
    <2>5. CASE CancelPriors(r)
      BY <2>5 DEF CancelPriors
    <2>6. CASE CreateSubscription(r)
      BY <2>6 DEF CreateSubscription
    <2>7. CASE DemoCheckout(r)
      BY <2>7 DEF DemoCheckout
    <2>8. CASE RequestPayment(r)
      BY <2>8 DEF RequestPayment
    <2>9. CASE RefuseCheckout(r)
      BY <2>9 DEF RefuseCheckout
    <2>10. CASE CreateIntent(r)
      BY <2>10 DEF CreateIntent
    <2>11. CASE LinkSubscription(r)
      BY <2>11 DEF LinkSubscription
    <2>12. CASE AttachPaymentIntent(r)
      BY <2>12 DEF AttachPaymentIntent
    <2>13. CASE Reply(r)
      <3>1. req[r].own \in Attempts
        BY <2>13 DEF Reply
      <3>2. CASE ClaimIntent(r, req[r].own, "checkout")
        BY <3>1, <3>2, ClaimType DEF Callers
      <3>3. CASE Go(r, "idle")
        BY <3>3
      <3>4. QED BY <2>13, <3>2, <3>3 DEF Reply
    <2>14. CASE ReleaseRead(r)
      BY <2>14 DEF ReleaseRead
    <2>15. CASE ReleaseWrite(r)
      BY <2>15 DEF ReleaseWrite
    <2>16. QED BY <1>1, <2>15, <2>14, <2>13, <2>12, <2>11, <2>10, <2>9, <2>8, <2>7, <2>6, <2>5, <2>4, <2>3, <2>2, <2>1 DEF Checkout
  <1>2. ASSUME NEW r \in Requests, Settle(r) PROVE req' \in [Requests -> LocalState]
    <2>1. CASE Activate(r)
      BY <2>1 DEF Activate
    <2>2. CASE Succeed(r)
      <3>1. Go(r, OnReturn(r)) /\ req[r].step \in Finalizing
        BY <2>2 DEF Succeed
      <3>2. QED BY <3>1, ReturnIsStep
    <2>3. CASE Rollback(r)
      <3>1. Go(r, OnThrow(r)) /\ req[r].step \in Finalizing
        BY <2>3 DEF Rollback
      <3>2. QED BY <3>1, ReturnIsStep
    <2>4. CASE ReturnRead(r)
      BY <2>4 DEF ReturnRead
    <2>5. CASE ReturnWrite(r)
      BY <2>5 DEF ReturnWrite
    <2>6. CASE CancelWrite(r)
      BY <2>6 DEF CancelWrite
    <2>7. CASE Recheck(r)
      BY <2>7 DEF Recheck
    <2>8. CASE ForceWrite(r)
      BY <2>8 DEF ForceWrite
    <2>9. QED BY <1>2, <2>8, <2>7, <2>6, <2>5, <2>4, <2>3, <2>2, <2>1 DEF Settle
  <1>3. ASSUME NEW r \in Requests, Fault(r) PROVE req' \in [Requests -> LocalState]
    <2>1. Go(r, OnError(r))
      BY <1>3 DEF Fault
    <2>2. QED BY <2>1, ErrorIsStep
  <1>4. ASSUME NEW r \in Requests, Crash(r) PROVE req' \in [Requests -> LocalState]
    BY <1>4 DEF Crash
  <1>5. ASSUME NEW r \in Requests, NEW a \in Attempts, Arrive(r, a)
        PROVE  req' \in [Requests -> LocalState]
    <2>1. ASSUME NEW usesCode \in BOOLEAN, StartCheckout(r, a, usesCode)
          PROVE  req' \in [Requests -> LocalState]
      BY <2>1, BeginType DEF StartCheckout, Callers
    <2>2. CASE Reconcile(r, a)
      BY <2>2, BeginType, ClaimType DEF Reconcile, Callers
    <2>3. CASE PollStatus(r, a)
      BY <2>3, BeginType, ClaimType DEF PollStatus, Callers
    <2>4. CASE CaptureWebhook(r, a)
      BY <2>4, BeginType, ClaimType DEF CaptureWebhook, Callers
    <2>5. CASE FailureWebhook(r, a)
      BY <2>5, BeginType, ClaimType DEF FailureWebhook, Callers
    <2>6. CASE AdminCancel(r, a)
      BY <2>6, BeginType, ClaimType DEF AdminCancel, Callers
    <2>7. CASE AdminActivate(r, a)
      BY <2>7, BeginType, ClaimType DEF AdminActivate, Callers
    <2>8. CASE CompleteDemo(r, a)
      BY <2>8, BeginType, ClaimType DEF CompleteDemo, Callers
    <2>9. QED BY <1>5, <2>8, <2>7, <2>6, <2>5, <2>4, <2>3, <2>2, <2>1 DEF Arrive
  <1>6. ASSUME NEW a \in Attempts,
               ConfirmByPaymentIntent(a) \/ LoseConfirm(a) \/ AdminRefund(a) \/ Pay(a) \/ PaymentFails(a)
        PROVE  req' \in [Requests -> LocalState]
    BY <1>6 DEF ConfirmByPaymentIntent, LoseConfirm, AdminRefund, Pay, PaymentFails
  <1>7. CASE UNCHANGED vars
    BY <1>7 DEF vars
  <1>8. QED BY <1>1, <1>2, <1>3, <1>4, <1>5, <1>6, <1>7 DEF Next

\* Before any request, every variable has its type.
LEMMA TypeInit == Init => TypeOK
  <1>1. Idle \in LocalState
    BY LocalType, StepsListed
    DEF Idle, Callers, CheckoutSteps, ReleaseSteps, ReturnSteps, Finalizing, AdminSteps
  <1>2. QED BY <1>1, BoundAssumption DEF Init, TypeOK, RedemptionStatus, SubStatus, IntentStatus, XenditStatus

\* A step of a checkout keeps the types of what it writes.
LEMMA CheckoutTypes ==
  ASSUME TypeOK, req' \in [Requests -> LocalState], NEW r \in Requests, Checkout(r)
  PROVE  TypeOK'
  <1> USE BoundAssumption DEF TypeOK, RedemptionStatus, SubStatus, IntentStatus, XenditStatus, promoVars, planVars, payVars, envVars
  <1> req[r] \in LocalState
    OBVIOUS
  <1>1. CASE ClaimSlot(r)
    BY <1>1, LocalFields DEF ClaimSlot, ClaimIntent, At
  <1>2. CASE CreateRedemption(r)
    BY <1>2, LocalFields DEF CreateRedemption, ClaimIntent, At
  <1>3. CASE FindPriors(r)
    BY <1>3, LocalFields DEF FindPriors, ClaimIntent, At
  <1>4. CASE NextPrior(r)
    <2>1. intent' \in [Attempts -> IntentStatus]
      BY <1>4 DEF NextPrior, ClaimIntent
    <2>2. mishaps' = mishaps \/ (mishaps < MaxMishaps /\ mishaps' = mishaps + 1)
      BY <1>4 DEF NextPrior
    <2>3. mishaps' \in 0..MaxMishaps
      BY <2>2
    <2>4. QED BY <1>4, <2>1, <2>3 DEF NextPrior
  <1>5. CASE CancelPriors(r)
    BY <1>5, LocalFields DEF CancelPriors, ClaimIntent, At
  <1>6. CASE CreateSubscription(r)
    BY <1>6, LocalFields DEF CreateSubscription, ClaimIntent, At
  <1>7. CASE DemoCheckout(r)
    BY <1>7, LocalFields DEF DemoCheckout, ClaimIntent, At
  <1>8. CASE RequestPayment(r)
    <2>1. req[r].own \in Attempts
      BY <1>8, LocalFields DEF RequestPayment, At, CheckoutSteps
    <2>2. webhooks' \subseteq {"capture", "failure"} \X Attempts
      BY <1>8, <2>1 DEF RequestPayment
    <2>3. xendit' \in [Attempts -> XenditStatus]
      BY <1>8 DEF RequestPayment
    <2>4. QED BY <1>8, <2>2, <2>3 DEF RequestPayment
  <1>9. CASE RefuseCheckout(r)
    BY <1>9, LocalFields DEF RefuseCheckout, ClaimIntent, At
  <1>10. CASE CreateIntent(r)
    BY <1>10, LocalFields DEF CreateIntent, ClaimIntent, At
  <1>11. CASE LinkSubscription(r)
    BY <1>11, LocalFields DEF LinkSubscription, ClaimIntent, At
  <1>12. CASE AttachPaymentIntent(r)
    BY <1>12, LocalFields DEF AttachPaymentIntent, ClaimIntent, At
  <1>13. CASE Reply(r)
    BY <1>13, LocalFields DEF Reply, ClaimIntent, At
  <1>14. CASE ReleaseRead(r)
    BY <1>14, LocalFields DEF ReleaseRead, ClaimIntent, At
  <1>15. CASE ReleaseWrite(r)
    <2>1. redemption' \in [Attempts -> RedemptionStatus]
      BY <1>15 DEF ReleaseWrite
    <2>2. redeemedCount' = redeemedCount - 1
      BY <1>15 DEF ReleaseWrite
    <2>3. redeemedCount' \in Int
      BY <2>2
    <2>4. QED BY <1>15, <2>1, <2>3 DEF ReleaseWrite
  <1>16. QED BY <1>1, <1>2, <1>3, <1>4, <1>5, <1>6, <1>7, <1>8, <1>9, <1>10, <1>11, <1>12, <1>13, <1>14, <1>15 DEF Checkout

\* So does a step that settles a claimed intent, cancels or forces a plan.
LEMMA SettleTypes ==
  ASSUME TypeOK, req' \in [Requests -> LocalState], NEW r \in Requests, Settle(r)
  PROVE  TypeOK'
  <1> USE BoundAssumption DEF TypeOK, RedemptionStatus, SubStatus, IntentStatus, XenditStatus, promoVars, planVars, payVars, envVars
  <1> req[r] \in LocalState
    OBVIOUS
  <1>1. CASE Activate(r)
    BY <1>1, LocalFields DEF Activate, ClaimIntent, At
  <1>2. CASE Succeed(r)
    <2>1. req[r].at \in Attempts
      BY <1>2, LocalFields DEF Succeed, At, Finalizing
    <2>2. intent' \in [Attempts -> IntentStatus] /\ confirms' \subseteq Attempts
      BY <1>2, <2>1 DEF Succeed
    <2>3. QED BY <1>2, <2>2 DEF Succeed
  <1>3. CASE Rollback(r)
    BY <1>3, LocalFields DEF Rollback, ClaimIntent, At
  <1>4. CASE ReturnRead(r)
    BY <1>4, LocalFields DEF ReturnRead, ClaimIntent, At
  <1>5. CASE ReturnWrite(r)
    <2>1. redemption' \in [Attempts -> RedemptionStatus]
      BY <1>5 DEF ReturnWrite
    <2>2. redeemedCount' = redeemedCount - 1
      BY <1>5 DEF ReturnWrite
    <2>3. redeemedCount' \in Int
      BY <2>2
    <2>4. QED BY <1>5, <2>1, <2>3 DEF ReturnWrite
  <1>6. CASE CancelWrite(r)
    BY <1>6, LocalFields DEF CancelWrite, ClaimIntent, At
  <1>7. CASE Recheck(r)
    BY <1>7, LocalFields DEF Recheck, ClaimIntent, At
  <1>8. CASE ForceWrite(r)
    <2>1. req[r].at \in Attempts
      BY <1>8, LocalFields DEF ForceWrite, At, AdminSteps
    <2>2. sub' \in [Attempts -> SubStatus] /\ forced' \subseteq Attempts
      BY <1>8, <2>1 DEF ForceWrite
    <2>3. QED BY <1>8, <2>2 DEF ForceWrite
  <1>9. QED BY <1>1, <1>2, <1>3, <1>4, <1>5, <1>6, <1>7, <1>8 DEF Settle

\* So does a request that arrives, of any kind.
LEMMA ArriveTypes ==
  ASSUME TypeOK, req' \in [Requests -> LocalState], NEW r \in Requests, NEW a \in Attempts, Arrive(r, a)
  PROVE  TypeOK'
  <1> USE BoundAssumption DEF TypeOK, RedemptionStatus, SubStatus, IntentStatus, XenditStatus, promoVars, planVars, payVars, envVars
  <1>1. ASSUME NEW usesCode \in BOOLEAN, StartCheckout(r, a, usesCode)
        PROVE  TypeOK'
    BY <1>1 DEF StartCheckout
  <1>2. CASE Reconcile(r, a)
    BY <1>2 DEF Reconcile, ClaimIntent
  <1>3. CASE PollStatus(r, a)
    BY <1>3 DEF PollStatus, ClaimIntent
  <1>4. CASE CaptureWebhook(r, a)
    BY <1>4 DEF CaptureWebhook, ClaimIntent
  <1>5. CASE FailureWebhook(r, a)
    BY <1>5 DEF FailureWebhook, ClaimIntent
  <1>6. CASE AdminCancel(r, a)
    BY <1>6 DEF AdminCancel, ClaimIntent
  <1>7. CASE AdminActivate(r, a)
    BY <1>7 DEF AdminActivate, ClaimIntent
  <1>8. CASE CompleteDemo(r, a)
    BY <1>8 DEF CompleteDemo, ClaimIntent
  <1>9. QED BY <1>1, <1>2, <1>3, <1>4, <1>5, <1>6, <1>7, <1>8 DEF Arrive

\* So does what the payer, the promo service and the administrator's refund do in one write.
LEMMA ExternalTypes ==
  ASSUME TypeOK, req' \in [Requests -> LocalState], NEW a \in Attempts,
         ConfirmByPaymentIntent(a) \/ LoseConfirm(a) \/ AdminRefund(a) \/ Pay(a) \/ PaymentFails(a)
  PROVE  TypeOK'
  <1> USE BoundAssumption DEF TypeOK, RedemptionStatus, SubStatus, IntentStatus, XenditStatus, promoVars, planVars, payVars, envVars
  <1>1. CASE ConfirmByPaymentIntent(a)
    BY <1>1 DEF ConfirmByPaymentIntent
  <1>2. CASE LoseConfirm(a)
    BY <1>2 DEF LoseConfirm
  <1>3. CASE AdminRefund(a)
    BY <1>3 DEF AdminRefund
  <1>4. CASE Pay(a)
    BY <1>4 DEF Pay
  <1>5. CASE PaymentFails(a)
    BY <1>5 DEF PaymentFails
  <1>6. QED BY <1>1, <1>2, <1>3, <1>4, <1>5

\* Every kind of step keeps them.
LEMMA TypeNext == TypeOK /\ [Next]_vars => TypeOK'
  <1> SUFFICES ASSUME TypeOK, [Next]_vars PROVE TypeOK'
    OBVIOUS
  <1>local. req' \in [Requests -> LocalState]
    BY StepKeepsLocal DEF TypeOK
  <1>quiet. CASE UNCHANGED vars
    BY <1>quiet DEF vars, promoVars, planVars, payVars, envVars, TypeOK
  <1>fault. ASSUME NEW r \in Requests, Fault(r) PROVE TypeOK'
    BY <1>fault, <1>local, BoundAssumption DEF Fault, promoVars, planVars, payVars, TypeOK
  <1>crash. ASSUME NEW r \in Requests, Crash(r) PROVE TypeOK'
    BY <1>crash, <1>local, BoundAssumption DEF Crash, promoVars, planVars, payVars, TypeOK
  <1> QED BY <1>local, <1>quiet, <1>fault, <1>crash, ArriveTypes, CheckoutTypes, SettleTypes, ExternalTypes DEF Next

\* Every variable keeps its type, and every request that works on an attempt has one,
\* whatever fails between two statements of checkout, webhook or admin requests.
THEOREM TypeCorrect == Spec => []TypeOK
  BY TypeInit, TypeNext, PTL DEF Spec

---------------------------------------------------------------------------
(* 2. The claim.  A step either is calm (it takes no claim and touches no    *)
(* intent and no payment, or gives a claim up) or is one of a few actions    *)
(* named in StepKinds; each part of ClaimInv is preserved kind by kind.      *)
(* Kinds of steps *)

\* Request r moves on or ends, and neither takes a claim nor starts a checkout.
Moves(r) ==
  /\ \A q \in Requests : q # r => req'[q] = req[q]
  /\ req'[r].own \in {req[r].own, NoAttempt}
  /\ req'[r].step = "idle" => req'[r].own = NoAttempt
  /\ PreIntent(r)' => PreIntent(r) /\ req'[r].own = req[r].own
  /\ PreRequest(r)' => PreRequest(r)
  /\ \A a \in Attempts : Finalizer(r, a)' => Finalizer(r, a)

SamePayments == UNCHANGED <<intent, xendit, webhooks, started>>

Calm == /\ SamePayments
        /\ req' = req \/ \E r \in Requests : Moves(r)

\* Request r claims a's intent.
Claims(r, a) ==
  /\ intent[a] = "PENDING"
  /\ intent' = [intent EXCEPT ![a] = "PROCESSING"]
  /\ xendit[a] = "SUCCEEDED"
  /\ \A q \in Requests : q # r => req'[q] = req[q]
  /\ req'[r].own = req[r].own
  /\ req'[r].step = "activate"
  /\ req'[r].at = a
  /\ InLoop(r)' => At(r, "priors")
  /\ UNCHANGED <<xendit, webhooks, started>>

\* Request r settles the intent it has claimed, or gives it back.
Settles(r) ==
  /\ req[r].step \in Finalizing
  /\ \A a \in Attempts : ~Finalizer(r, a)'
  /\ Moves(r)
  /\ \E s \in {"SUCCEEDED", "PENDING"} : intent' = [intent EXCEPT ![req[r].at] = s]
  /\ UNCHANGED <<xendit, webhooks, started>>

---------------------------------------------------------------------------
(* What the local steps do *)

\* A request that goes on keeps its attempt, and is no more of a finalizer and no
\* further from its intent than before.
LEMMA GoMoves ==
  ASSUME req \in [Requests -> LocalState], NEW r \in Requests, NEW s \in Steps, Go(r, s),
         s \in Finalizing => req[r].step \in Finalizing,
         s \in BeforeRequest => PreRequest(r),
         s = "createIntent" => PreIntent(r)
  PROVE  Moves(r) /\ req'[r].step = s
  <1>1. \A q \in Requests : q # r => req'[q] = req[q]
    BY DEF Go
  <1>2. CASE s = "idle"
    <2>1. req'[r] = Idle
      BY <1>2 DEF Go
    <2>2. req'[r].step = "idle" /\ req'[r].own = NoAttempt
      BY <2>1 DEF Idle, Local
    <2>3. QED BY <1>1, <1>2, <2>2 DEF Moves, PreIntent, PreRequest, InLoop, Finalizer,
                                      BeforeRequest, Finalizing
  <1>3. CASE s # "idle"
    <2>1. req'[r] = Local(s, req[r].caller, req[r].own, req[r].at, req[r].todo)
      BY <1>3 DEF Go
    <2>2. /\ req'[r].step = s
          /\ req'[r].caller = req[r].caller
          /\ req'[r].own = req[r].own
          /\ req'[r].at = req[r].at
      BY <2>1 DEF Local
    <2>3. PreIntent(r)' => PreIntent(r)
      BY <2>2 DEF PreIntent, PreRequest, InLoop
    <2>4. PreRequest(r)' => PreRequest(r)
      BY <2>2 DEF PreRequest, InLoop
    <2>5. \A a \in Attempts : Finalizer(r, a)' => Finalizer(r, a)
      BY <2>2 DEF Finalizer
    <2>6. QED BY <1>1, <1>3, <2>2, <2>3, <2>4, <2>5 DEF Moves
  <1>4. QED BY <1>2, <1>3

\* A request that begins without checking out an attempt, and does not finalize.
LEMMA BeginMoves ==
  ASSUME req \in [Requests -> LocalState], NEW r \in Requests,
         NEW s \in {"returnRead", "cancelWrite", "recheck", "forceWrite"}, NEW c, NEW a,
         Begin(r, s, c, NoAttempt, a)
  PROVE  Moves(r)
  <1>1. \A q \in Requests : q # r => req'[q] = req[q]
    BY DEF Begin
  <1>2. req'[r] = Local(s, c, NoAttempt, a, {})
    BY DEF Begin
  <1>3. req'[r].step = s /\ req'[r].own = NoAttempt
    BY <1>2 DEF Local
  <1>4. QED BY <1>1, <1>3 DEF Moves, PreIntent, PreRequest, InLoop, Finalizer,
                              BeforeRequest, Finalizing

\* The loop over earlier attempts stays in the loop, or leaves it.
LEMMA LoopMoves ==
  ASSUME req \in [Requests -> LocalState], NEW r \in Requests, NEW a, NEW t,
         NEW s \in {"priors", "createSub"}, PreRequest(r),
         req' = [req EXCEPT ![r] = Local(s, "checkout", req[r].own, a, t)]
  PROVE  Moves(r)
  <1>1. \A q \in Requests : q # r => req'[q] = req[q]
    OBVIOUS
  <1>2. req'[r] = Local(s, "checkout", req[r].own, a, t)
    OBVIOUS
  <1>3. req'[r].step = s /\ req'[r].own = req[r].own
    BY <1>2 DEF Local
  <1>4. PreIntent(r)
    BY DEF PreIntent, PreRequest
  <1>5. QED BY <1>1, <1>3, <1>4 DEF Moves, PreIntent, InLoop, Finalizer, Finalizing

\* A successful claim of a PENDING intent makes its request the finalizer.
LEMMA ClaimClaims ==
  ASSUME req \in [Requests -> LocalState], NEW r \in Requests, NEW a \in Attempts, NEW c,
         ClaimIntent(r, a, c), xendit[a] = "SUCCEEDED",
         c = "priors" => At(r, "priors"),
         UNCHANGED <<xendit, webhooks, started>>
  PROVE  Claims(r, a)
  <1>1. \A q \in Requests : q # r => req'[q] = req[q]
    BY DEF ClaimIntent
  <1>2. req'[r] = Local("activate", c, req[r].own, a, req[r].todo \ {a})
    BY DEF ClaimIntent
  <1>3. /\ req'[r].own = req[r].own
        /\ req'[r].step = "activate"
        /\ req'[r].caller = c
        /\ req'[r].at = a
    BY <1>2 DEF Local
  <1>4. QED BY <1>1, <1>3 DEF Claims, ClaimIntent, InLoop

---------------------------------------------------------------------------
(* Every step is of one of these kinds *)

StepKind ==
  \/ Calm
  \/ \E r \in Requests, a \in Attempts : Claims(r, a)
  \/ \E r \in Requests : Settles(r)
  \/ \E r \in Requests : CreateIntent(r) \/ RequestPayment(r) \/ Reply(r)
  \/ \E r \in Requests, a \in Attempts :
       (\E usesCode \in BOOLEAN : StartCheckout(r, a, usesCode)) \/ FailureWebhook(r, a)
  \/ \E a \in Attempts : Pay(a) \/ PaymentFails(a)

\* The steps of a checkout.
LEMMA CheckoutKinds ==
  ASSUME TypeOK, ClaimPaid, NEW r \in Requests, Checkout(r)
  PROVE  StepKind
  <1> req \in [Requests -> LocalState]
    BY DEF TypeOK
  <1> USE GoMoves, StepsListed
      DEF At, PreIntent, PreRequest, BeforeRequest, Finalizing, SamePayments,
          promoVars, planVars, payVars, envVars
  <1>1. CASE ClaimSlot(r)
    BY <1>1 DEF ClaimSlot, Calm, StepKind
  <1>2. CASE CreateRedemption(r)
    BY <1>2 DEF CreateRedemption, Calm, StepKind
  <1>3. CASE CancelPriors(r)
    BY <1>3 DEF CancelPriors, Calm, StepKind
  <1>4. CASE CreateSubscription(r)
    BY <1>4 DEF CreateSubscription, Calm, StepKind
  <1>5. CASE DemoCheckout(r)
    BY <1>5 DEF DemoCheckout, Calm, StepKind
  <1>6. CASE RefuseCheckout(r)
    BY <1>6 DEF RefuseCheckout, Calm, StepKind
  <1>7. CASE LinkSubscription(r)
    BY <1>7 DEF LinkSubscription, Calm, StepKind
  <1>8. CASE AttachPaymentIntent(r)
    BY <1>8 DEF AttachPaymentIntent, Calm, StepKind
  <1>9. CASE ReleaseRead(r)
    BY <1>9 DEF ReleaseRead, Calm, StepKind
  <1>10. CASE ReleaseWrite(r)
    BY <1>10 DEF ReleaseWrite, Calm, StepKind
  <1>11. CASE FindPriors(r)
    BY <1>11, LoopMoves DEF FindPriors, Calm, StepKind
  <1>12. CASE NextPrior(r)
    <2>1. At(r, "priors") /\ PreRequest(r) /\ req[r].todo \subseteq Attempts
      BY <1>12, LocalFields DEF NextPrior
    <2>2. ASSUME NEW b \in Attempts, Reconcilable(b), ClaimIntent(r, b, "priors"),
                 UNCHANGED <<xendit, webhooks, started>>
          PROVE  Claims(r, b)
      BY <2>1, <2>2, ClaimClaims DEF Reconcilable
    <2>3. ASSUME NEW b \in Attempts, UNCHANGED <<intent, xendit, webhooks, started>>,
                 req' = [req EXCEPT ![r] = Local("priors", "checkout", req[r].own, NoAttempt,
                                                 req[r].todo \ {b})]
          PROVE  Calm
      <3> DEFINE t == req[r].todo \ {b}
      <3>1. req' = [req EXCEPT ![r] = Local("priors", "checkout", req[r].own, NoAttempt, t)]
        BY <2>3
      <3> HIDE DEF t
      <3>2. Moves(r)
        BY <2>1, <3>1, LoopMoves
      <3>3. QED BY <2>3, <3>2 DEF Calm
    <2>4. CASE Go(r, "cancelPriors") /\ UNCHANGED <<intent, xendit, webhooks, started>>
      BY <2>1, <2>4 DEF Calm, StepKind
    <2>5. UNCHANGED <<xendit, webhooks, started>>
      BY <1>12 DEF NextPrior
    <2>6. CASE \E b \in req[r].todo : Reconcilable(b) /\ ClaimIntent(r, b, "priors")
      BY <2>1, <2>2, <2>5, <2>6 DEF StepKind
    <2>7. CASE /\ UNCHANGED intent
               /\ \E b \in req[r].todo :
                    req' = [req EXCEPT ![r] = Local("priors", "checkout", req[r].own,
                                                    NoAttempt, req[r].todo \ {b})]
      BY <2>1, <2>3, <2>5, <2>7 DEF StepKind
    <2>8. CASE Go(r, "cancelPriors") /\ UNCHANGED intent
      BY <2>4, <2>5, <2>8 DEF StepKind
    <2>9. QED BY <1>12, <2>6, <2>7, <2>8 DEF NextPrior
  <1>13. CASE CreateIntent(r) \/ RequestPayment(r) \/ Reply(r)
    BY <1>13 DEF StepKind
  <1>14. QED BY <1>1, <1>2, <1>3, <1>4, <1>5, <1>6, <1>7, <1>8, <1>9, <1>10, <1>11, <1>12, <1>13 DEF Checkout

\* The steps that settle a payment, and those of an admin.
LEMMA SettleKinds ==
  ASSUME TypeOK, NEW r \in Requests, Settle(r)
  PROVE  StepKind
  <1> req \in [Requests -> LocalState]
    BY DEF TypeOK
  <1> USE GoMoves, StepsListed
      DEF At, PreIntent, PreRequest, BeforeRequest, Finalizing, SamePayments,
          promoVars, planVars, payVars, envVars
  <1>1. CASE Activate(r)
    BY <1>1 DEF Activate, Calm, StepKind
  <1>2. CASE ReturnRead(r)
    BY <1>2 DEF ReturnRead, Calm, StepKind
  <1>3. CASE ReturnWrite(r)
    BY <1>3 DEF ReturnWrite, Calm, StepKind
  <1>4. CASE CancelWrite(r)
    BY <1>4 DEF CancelWrite, Calm, StepKind
  <1>5. CASE Recheck(r)
    BY <1>5 DEF Recheck, Calm, StepKind
  <1>6. CASE ForceWrite(r)
    BY <1>6 DEF ForceWrite, Calm, StepKind
  <1>7. CASE Succeed(r)
    <2>1. /\ req[r].step \in Finalizing
          /\ Go(r, OnReturn(r))
          /\ intent' = [intent EXCEPT ![req[r].at] = "SUCCEEDED"]
          /\ UNCHANGED <<xendit, webhooks, started>>
      BY <1>7 DEF Succeed
    <2>2. OnReturn(r) \in Steps \ Finalizing /\ OnReturn(r) # "createIntent"
      BY ReturnIsStep
    <2>3. OnReturn(r) \in BeforeRequest => PreRequest(r)
      BY <2>1, ReturnIsStep DEF InLoop
    <2>4. Moves(r) /\ req'[r].step = OnReturn(r)
      BY <2>1, <2>2, <2>3
    <2>5. \A a \in Attempts : ~Finalizer(r, a)'
      BY <2>2, <2>4 DEF Finalizer
    <2>6. QED BY <2>1, <2>4, <2>5 DEF Settles, StepKind
  <1>8. CASE Rollback(r)
    <2>1. /\ req[r].step \in Finalizing
          /\ Go(r, OnThrow(r))
          /\ intent' = [intent EXCEPT ![req[r].at] = "PENDING"]
          /\ UNCHANGED <<xendit, webhooks, started>>
      BY <1>8 DEF Rollback
    <2>2. OnThrow(r) \in Steps \ Finalizing /\ OnThrow(r) # "createIntent"
      BY ReturnIsStep
    <2>3. OnThrow(r) \in BeforeRequest => PreRequest(r)
      BY <2>1, ReturnIsStep DEF InLoop
    <2>4. Moves(r) /\ req'[r].step = OnThrow(r)
      BY <2>1, <2>2, <2>3
    <2>5. \A a \in Attempts : ~Finalizer(r, a)'
      BY <2>2, <2>4 DEF Finalizer
    <2>6. QED BY <2>1, <2>4, <2>5 DEF Settles, StepKind
  <1>9. QED BY <1>1, <1>2, <1>3, <1>4, <1>5, <1>6, <1>7, <1>8 DEF Settle

\* The requests that arrive.
LEMMA ArriveKinds ==
  ASSUME TypeOK, ClaimPaid, NEW r \in Requests, NEW a \in Attempts, Arrive(r, a)
  PROVE  StepKind
  <1> req \in [Requests -> LocalState]
    BY DEF TypeOK
  <1> USE BeginMoves DEF At, SamePayments, promoVars, planVars, payVars, envVars
  <1>1. CASE Reconcile(r, a)
    <2>1. ClaimIntent(r, a, "request") /\ xendit[a] = "SUCCEEDED"
          /\ UNCHANGED <<xendit, webhooks, started>>
      BY <1>1 DEF Reconcile, Reconcilable
    <2>2. QED BY <2>1, ClaimClaims DEF StepKind
  <1>2. CASE PollStatus(r, a)
    <2>1. ClaimIntent(r, a, "request") /\ xendit[a] = "SUCCEEDED"
          /\ UNCHANGED <<xendit, webhooks, started>>
      BY <1>2 DEF PollStatus
    <2>2. QED BY <2>1, ClaimClaims DEF StepKind
  <1>3. CASE CaptureWebhook(r, a)
    <2>1. ClaimIntent(r, a, "request") /\ xendit[a] = "SUCCEEDED"
          /\ UNCHANGED <<xendit, webhooks, started>>
      BY <1>3 DEF CaptureWebhook, ClaimPaid
    <2>2. QED BY <2>1, ClaimClaims DEF StepKind
  <1>4. CASE AdminCancel(r, a)
    BY <1>4 DEF AdminCancel, Calm, StepKind
  <1>5. CASE CompleteDemo(r, a)
    BY <1>5 DEF CompleteDemo, Calm, StepKind
  <1>6. CASE AdminActivate(r, a)
    <2>1. CASE Reconcilable(a) /\ ClaimIntent(r, a, "admin")
      <3>1. xendit[a] = "SUCCEEDED" /\ UNCHANGED <<xendit, webhooks, started>>
        BY <1>6, <2>1 DEF AdminActivate, Reconcilable
      <3>2. QED BY <2>1, <3>1, ClaimClaims DEF StepKind
    <2>2. CASE Begin(r, "recheck", "admin", NoAttempt, a) /\ UNCHANGED intent
      BY <1>6, <2>2 DEF AdminActivate, Calm, StepKind
    <2>3. QED BY <1>6, <2>1, <2>2 DEF AdminActivate
  <1>7. CASE (\E usesCode \in BOOLEAN : StartCheckout(r, a, usesCode)) \/ FailureWebhook(r, a)
    BY <1>7 DEF StepKind
  <1>8. QED BY <1>1, <1>2, <1>3, <1>4, <1>5, <1>6, <1>7 DEF Arrive

\* Every step of the system is of one of the kinds above.
LEMMA StepKinds ==
  ASSUME TypeOK, ClaimPaid, [Next]_vars
  PROVE  StepKind
  <1> req \in [Requests -> LocalState]
    BY DEF TypeOK
  <1> USE DEF SamePayments, promoVars, planVars, payVars, envVars
  <1>1. ASSUME NEW r \in Requests, Fault(r) PROVE StepKind
    <2>1. Go(r, OnError(r)) /\ SamePayments
      BY <1>1 DEF Fault
    <2>2. /\ OnError(r) \in Steps
          /\ OnError(r) \in Finalizing => req[r].step \in Finalizing
          /\ OnError(r) \in BeforeRequest => PreRequest(r)
          /\ OnError(r) # "createIntent"
      BY ErrorIsStep, StepsListed DEF Finalizing, BeforeRequest, PreRequest, InLoop
    <2>3. Moves(r)
      BY <2>1, <2>2, GoMoves
    <2>4. QED BY <2>1, <2>3 DEF Calm, StepKind
  <1>2. ASSUME NEW r \in Requests, Crash(r) PROVE StepKind
    <2>1. Go(r, "idle") /\ SamePayments
      BY <1>2 DEF Crash
    <2>2. Moves(r)
      BY <2>1, GoMoves, StepsListed DEF Finalizing, BeforeRequest
    <2>3. QED BY <2>1, <2>2 DEF Calm, StepKind
  <1>3. ASSUME NEW a \in Attempts,
               ConfirmByPaymentIntent(a) \/ LoseConfirm(a) \/ AdminRefund(a)
        PROVE  StepKind
    BY <1>3 DEF ConfirmByPaymentIntent, LoseConfirm, AdminRefund, Calm, StepKind
  <1>4. CASE UNCHANGED vars
    BY <1>4 DEF vars, Calm, StepKind
  <1>5. ASSUME NEW a \in Attempts, Pay(a) \/ PaymentFails(a) PROVE StepKind
    BY <1>5 DEF StepKind
  <1>6. QED BY <1>1, <1>2, <1>3, <1>4, <1>5, CheckoutKinds, SettleKinds, ArriveKinds DEF Next

---------------------------------------------------------------------------
(* Each part of the invariant is preserved *)

\* A checkout that starts takes an attempt nobody has taken.
LEMMA StartEffect ==
  ASSUME req \in [Requests -> LocalState], NEW r \in Requests, NEW a \in Attempts,
         NEW usesCode \in BOOLEAN, StartCheckout(r, a, usesCode)
  PROVE  /\ a \notin started /\ started' = started \cup {a}
         /\ \A q \in Requests : q # r => req'[q] = req[q]
         /\ req'[r].own = a /\ req'[r].step \in {"claimSlot", "findPriors"}
         /\ UNCHANGED <<intent, xendit, webhooks>>
  <1> DEFINE s == IF usesCode THEN "claimSlot" ELSE "findPriors"
  <1>1. req' = [req EXCEPT ![r] = Local(s, "checkout", a, NoAttempt, {})]
    BY DEF StartCheckout, Begin
  <1>2. req'[r] = Local(s, "checkout", a, NoAttempt, {})
    BY <1>1
  <1>3. req'[r].own = a /\ req'[r].step = s
    BY <1>2 DEF Local
  <1>4. \A q \in Requests : q # r => req'[q] = req[q]
    BY <1>1
  <1>5. QED BY <1>3, <1>4 DEF StartCheckout, payVars

\* The other named steps move their request on and change one payment.
LEMMA NamedMoves ==
  ASSUME TypeOK, NEW r \in Requests
  PROVE  /\ CreateIntent(r) => /\ Moves(r)
                               /\ At(r, "createIntent") /\ ~PreIntent(r)'
                               /\ intent' = [intent EXCEPT ![req[r].own] = "PENDING"]
                               /\ UNCHANGED <<xendit, webhooks, started>>
         /\ RequestPayment(r) => /\ Moves(r)
                                 /\ At(r, "request") /\ ~PreRequest(r)'
                                 /\ UNCHANGED <<intent, started>>
         /\ Reply(r) => \/ Moves(r) /\ UNCHANGED <<intent, webhooks, started>>
                        \/ Claims(r, req[r].own)
         /\ \A a \in Attempts : FailureWebhook(r, a) =>
               Moves(r) /\ UNCHANGED <<xendit, webhooks, started>>
  <1> req \in [Requests -> LocalState]
    BY DEF TypeOK
  <1> USE StepsListed DEF At, PreIntent, PreRequest, InLoop, BeforeRequest, Finalizing, payVars
  <1>1. ASSUME CreateIntent(r)
        PROVE  Moves(r) /\ ~PreIntent(r)'
    <2>1. At(r, "createIntent") /\ Go(r, "link")
      BY <1>1 DEF CreateIntent
    <2>2. Moves(r) /\ req'[r].step = "link"
      BY <2>1, GoMoves
    <2>3. QED BY <2>2
  <1>2. ASSUME RequestPayment(r)
        PROVE  Moves(r) /\ ~PreRequest(r)'
    <2>1. At(r, "request") /\ Go(r, "createIntent")
      BY <1>2 DEF RequestPayment
    <2>2. Moves(r) /\ req'[r].step = "createIntent"
      BY <2>1, GoMoves
    <2>3. QED BY <2>2
  <1>3. ASSUME Reply(r)
        PROVE  \/ Moves(r) /\ UNCHANGED <<intent, webhooks, started>>
               \/ Claims(r, req[r].own)
    <2>1. req[r].own \in Attempts
      BY <1>3, LocalFields DEF Reply, CheckoutSteps
    <2>2. CASE Go(r, "idle") /\ UNCHANGED intent
      BY <1>3, <2>2, GoMoves DEF Reply
    <2>3. CASE /\ ClaimIntent(r, req[r].own, "checkout")
               /\ xendit[req[r].own] = "SUCCEEDED" /\ UNCHANGED xendit
      BY <1>3, <2>1, <2>3, ClaimClaims DEF Reply
    <2>4. QED BY <1>3, <2>2, <2>3 DEF Reply
  <1>4. ASSUME NEW a \in Attempts, FailureWebhook(r, a)
        PROVE  Moves(r)
    BY <1>4, BeginMoves DEF FailureWebhook
  <1>5. QED BY <1>1, <1>2, <1>3, <1>4
        DEF CreateIntent, RequestPayment, FailureWebhook

\* A request whose checkout has not created its intent has an attempt.
LEMMA PreOwn ==
  ASSUME TypeOK, NEW r \in Requests, PreIntent(r) \/ PreRequest(r)
  PROVE  req[r].own \in Attempts
  <1>1. req[r] \in LocalState
    BY DEF TypeOK
  <1>2. QED BY <1>1, LocalFields
        DEF PreIntent, PreRequest, InLoop, BeforeRequest, CheckoutSteps

\* A request that moves, and those that do not, keep what they had before.
LEMMA MovesAll ==
  ASSUME NEW r \in Requests, Moves(r)
  PROVE  \A q \in Requests :
           /\ req'[q].own \in {req[q].own, NoAttempt}
           /\ req'[q].step = "idle" => req'[q].own = NoAttempt \/ req[q].step = "idle"
           /\ PreIntent(q)' => PreIntent(q) /\ req'[q].own = req[q].own
           /\ PreRequest(q)' => PreRequest(q) /\ req'[q].own = req[q].own
           /\ \A a \in Attempts : Finalizer(q, a)' => Finalizer(q, a)
  <1> SUFFICES ASSUME NEW q \in Requests
               PROVE  /\ req'[q].own \in {req[q].own, NoAttempt}
                      /\ req'[q].step = "idle" => req'[q].own = NoAttempt \/ req[q].step = "idle"
                      /\ PreIntent(q)' => PreIntent(q) /\ req'[q].own = req[q].own
                      /\ PreRequest(q)' => PreRequest(q) /\ req'[q].own = req[q].own
                      /\ \A a \in Attempts : Finalizer(q, a)' => Finalizer(q, a)
    OBVIOUS
  <1>1. PreRequest(q)' => PreIntent(q)'
    BY DEF PreRequest, PreIntent
  <1>2. CASE q = r
    BY <1>1, <1>2 DEF Moves
  <1>3. CASE q # r
    BY <1>3 DEF Moves, PreIntent, PreRequest, InLoop, Finalizer
  <1>4. QED BY <1>2, <1>3

\* After a claim only the claiming request is new among the finalizers.
LEMMA ClaimsAll ==
  ASSUME NEW r \in Requests, NEW a \in Attempts, Claims(r, a)
  PROVE  \A q \in Requests :
           /\ req'[q].own = req[q].own
           /\ req'[q].step = "idle" => req[q].step = "idle"
           /\ PreIntent(q)' => PreIntent(q)
           /\ PreRequest(q)' => PreRequest(q)
           /\ \A b \in Attempts : Finalizer(q, b)' => Finalizer(q, b) \/ (q = r /\ b = a)
  <1> SUFFICES ASSUME NEW q \in Requests
               PROVE  /\ req'[q].own = req[q].own
                      /\ req'[q].step = "idle" => req[q].step = "idle"
                      /\ PreIntent(q)' => PreIntent(q)
                      /\ PreRequest(q)' => PreRequest(q)
                      /\ \A b \in Attempts : Finalizer(q, b)' =>
                            Finalizer(q, b) \/ (q = r /\ b = a)
    OBVIOUS
  <1>1. CASE q = r
    BY <1>1 DEF Claims, PreIntent, PreRequest, InLoop, BeforeRequest, Finalizer, At
  <1>2. CASE q # r
    BY <1>2 DEF Claims, PreIntent, PreRequest, InLoop, Finalizer
  <1>3. QED BY <1>1, <1>2

\* An attempt stays with the one request that checks it out.
LEMMA OneOwnerKept ==
  ASSUME TypeOK, OneOwner, StepKind
  PROVE  OneOwner'
  <1> DEFINE Kept == /\ started' = started
                     /\ \A q \in Requests :
                          /\ req'[q].own \in {req[q].own, NoAttempt}
                          /\ req'[q].step = "idle" =>
                               req'[q].own = NoAttempt \/ req[q].step = "idle"
  <1>1. ASSUME Kept PROVE OneOwner'
    BY <1>1 DEF OneOwner, At
  <1>2. CASE Calm
    <2>1. CASE req' = req
      BY <1>1, <1>2, <2>1 DEF Calm, SamePayments
    <2>2. CASE \E r \in Requests : Moves(r)
      BY <1>1, <1>2, <2>2, MovesAll DEF Calm, SamePayments
    <2>3. QED BY <1>2, <2>1, <2>2 DEF Calm
  <1>3. ASSUME NEW r \in Requests, NEW a \in Attempts, Claims(r, a) PROVE OneOwner'
    BY <1>1, <1>3, ClaimsAll DEF Claims
  <1>4. ASSUME NEW r \in Requests, Settles(r) PROVE OneOwner'
    BY <1>1, <1>4, MovesAll DEF Settles
  <1>5. ASSUME NEW r \in Requests, CreateIntent(r) \/ RequestPayment(r) \/ Reply(r)
        PROVE  OneOwner'
    <2>1. CASE Moves(r) /\ UNCHANGED started
      BY <1>1, <2>1, MovesAll
    <2>2. CASE Claims(r, req[r].own) /\ Reply(r)
      <3>1. req[r].own \in Attempts
        BY <2>2, LocalFields DEF TypeOK, Reply, At, CheckoutSteps
      <3>2. QED BY <1>3, <2>2, <3>1
    <2>3. QED BY <1>5, <2>1, <2>2, NamedMoves
  <1>6. ASSUME NEW r \in Requests, NEW a \in Attempts, NEW usesCode \in BOOLEAN,
               StartCheckout(r, a, usesCode)
        PROVE  OneOwner'
    <2>1. /\ a \notin started /\ started' = started \cup {a}
          /\ \A q \in Requests : q # r => req'[q] = req[q]
          /\ req'[r].own = a /\ req'[r].step # "idle"
      BY <1>6, StartEffect DEF TypeOK
    <2>2. QED BY <2>1, AttemptAssumption DEF OneOwner, At
  <1>7. ASSUME NEW r \in Requests, NEW a \in Attempts, FailureWebhook(r, a) PROVE OneOwner'
    BY <1>1, <1>7, NamedMoves, MovesAll
  <1>8. ASSUME NEW a \in Attempts, Pay(a) \/ PaymentFails(a) PROVE OneOwner'
    BY <1>1, <1>8 DEF Pay, PaymentFails
  <1>9. QED BY <1>2, <1>3, <1>4, <1>5, <1>6, <1>7, <1>8 DEF StepKind

\* An intent stays untouched until its checkout creates it.
LEMMA FreshKept ==
  ASSUME TypeOK, OneOwner, FreshUntilCreated, ClaimHeld, StepKind
  PROVE  FreshUntilCreated'
  <1> USE DEF TypeOK
  <1> DEFINE Before == /\ started' = started
                       /\ \A q \in Requests :
                            /\ PreIntent(q)' => PreIntent(q) /\ req'[q].own = req[q].own
                            /\ PreRequest(q)' => PreRequest(q) /\ req'[q].own = req[q].own
  <1>1. ASSUME Before,
               \A b \in Attempts : intent[b] = "none" => intent'[b] = "none",
               \A b \in Attempts : xendit[b] = "none" => xendit'[b] = "none"
        PROVE  FreshUntilCreated'
    BY <1>1, PreOwn DEF FreshUntilCreated
  <1>2. CASE Calm
    <2>1. CASE req' = req
      BY <1>1, <1>2, <2>1 DEF Calm, SamePayments, PreIntent, PreRequest, InLoop
    <2>2. CASE \E r \in Requests : Moves(r)
      BY <1>1, <1>2, <2>2, MovesAll DEF Calm, SamePayments
    <2>3. QED BY <1>2, <2>1, <2>2 DEF Calm
  <1>3. ASSUME NEW r \in Requests, NEW a \in Attempts, Claims(r, a)
        PROVE  FreshUntilCreated'
    <2>1. Before
      BY <1>3, ClaimsAll DEF Claims
    <2>2. \A b \in Attempts : intent[b] = "none" => intent'[b] = "none"
      BY <1>3 DEF Claims
    <2>3. QED BY <1>1, <1>3, <2>1, <2>2 DEF Claims
  <1>4. ASSUME NEW r \in Requests, Settles(r) PROVE FreshUntilCreated'
    <2>1. Before
      BY <1>4, MovesAll DEF Settles
    <2>2. req[r].at \in Attempts
      BY <1>4, LocalFields DEF Settles
    <2>3. intent[req[r].at] # "none"
      BY <1>4, <2>2 DEF Settles, ClaimHeld, Finalizer
    <2>4. \A b \in Attempts : intent[b] = "none" => intent'[b] = "none"
      BY <1>4, <2>3 DEF Settles
    <2>5. QED BY <1>1, <1>4, <2>1, <2>4 DEF Settles
  <1>5. ASSUME NEW r \in Requests, CreateIntent(r) PROVE FreshUntilCreated'
    <2>1. /\ Moves(r) /\ At(r, "createIntent") /\ ~PreIntent(r)'
          /\ intent' = [intent EXCEPT ![req[r].own] = "PENDING"]
          /\ UNCHANGED <<xendit, webhooks, started>>
      BY <1>5, NamedMoves
    <2>2. req[r].own \in Attempts /\ req[r].own \in started
      BY <2>1, PreOwn, AttemptAssumption DEF OneOwner, PreIntent, At
    <2>3. ASSUME NEW q \in Requests, PreIntent(q)' PROVE intent'[req'[q].own] = "none"
      <3>1. q # r /\ PreIntent(q) /\ req'[q].own = req[q].own
        BY <2>1, <2>3, MovesAll
      <3>2. req[q].own \in Attempts /\ req[q].own # req[r].own
        BY <3>1, <2>2, PreOwn, AttemptAssumption DEF OneOwner
      <3>3. QED BY <2>1, <3>1, <3>2 DEF FreshUntilCreated
    <2>4. ASSUME NEW q \in Requests, PreRequest(q)' PROVE xendit'[req'[q].own] = "none"
      BY <2>1, <2>4, MovesAll DEF FreshUntilCreated
    <2>5. \A a \in Attempts \ started' : intent'[a] = "none" /\ xendit'[a] = "none"
      BY <2>1, <2>2 DEF FreshUntilCreated
    <2>6. QED BY <2>3, <2>4, <2>5 DEF FreshUntilCreated
  <1>6. ASSUME NEW r \in Requests, RequestPayment(r) PROVE FreshUntilCreated'
    <2>1. /\ Moves(r) /\ At(r, "request") /\ ~PreRequest(r)'
          /\ UNCHANGED <<intent, started>>
      BY <1>6, NamedMoves
    <2>2. \E s : xendit' = [xendit EXCEPT ![req[r].own] = s]
      BY <1>6 DEF RequestPayment
    <2>3. req[r].own \in Attempts /\ req[r].own \in started
      BY <2>1, PreOwn, AttemptAssumption DEF OneOwner, PreRequest, BeforeRequest, At
    <2>4. ASSUME NEW q \in Requests, PreRequest(q)' PROVE xendit'[req'[q].own] = "none"
      <3>1. q # r /\ PreRequest(q) /\ req'[q].own = req[q].own
        BY <2>1, <2>4, MovesAll
      <3>2. req[q].own \in Attempts /\ req[q].own # req[r].own
        BY <3>1, <2>3, PreOwn, AttemptAssumption DEF OneOwner
      <3>3. QED BY <2>2, <3>1, <3>2 DEF FreshUntilCreated
    <2>5. ASSUME NEW q \in Requests, PreIntent(q)' PROVE intent'[req'[q].own] = "none"
      BY <2>1, <2>5, MovesAll DEF FreshUntilCreated
    <2>6. \A a \in Attempts \ started' : intent'[a] = "none" /\ xendit'[a] = "none"
      BY <2>1, <2>2, <2>3 DEF FreshUntilCreated
    <2>7. QED BY <2>4, <2>5, <2>6 DEF FreshUntilCreated
  <1>7. ASSUME NEW r \in Requests, Reply(r) PROVE FreshUntilCreated'
    <2>1. req[r].own \in Attempts
      BY <1>7, LocalFields DEF Reply, At, CheckoutSteps
    <2>2. CASE Claims(r, req[r].own)
      BY <1>3, <2>1, <2>2
    <2>3. CASE Moves(r) /\ UNCHANGED <<intent, webhooks, started>>
      <3>1. \A b \in Attempts : xendit[b] = "none" => xendit'[b] = "none"
        BY <1>7 DEF Reply
      <3>2. Before
        BY <2>3, MovesAll
      <3>3. QED BY <1>1, <2>3, <3>1, <3>2
    <2>4. QED BY <1>7, <2>2, <2>3, NamedMoves
  <1>8. ASSUME NEW r \in Requests, NEW a \in Attempts, NEW usesCode \in BOOLEAN,
               StartCheckout(r, a, usesCode)
        PROVE  FreshUntilCreated'
    <2>1. /\ a \notin started /\ started' = started \cup {a}
          /\ \A q \in Requests : q # r => req'[q] = req[q]
          /\ req'[r].own = a
          /\ UNCHANGED <<intent, xendit, webhooks>>
      BY <1>8, StartEffect
    <2>2. \A q \in Requests : q # r => (PreIntent(q)' <=> PreIntent(q))
                                     /\ (PreRequest(q)' <=> PreRequest(q))
      BY <2>1 DEF PreIntent, PreRequest, InLoop
    <2>3. QED BY <2>1, <2>2 DEF FreshUntilCreated
  <1>9. ASSUME NEW r \in Requests, NEW a \in Attempts, FailureWebhook(r, a)
        PROVE  FreshUntilCreated'
    <2>1. Moves(r) /\ UNCHANGED <<xendit, webhooks, started>>
      BY <1>9, NamedMoves
    <2>2. \A b \in Attempts : intent[b] = "none" => intent'[b] = "none"
      BY <1>9 DEF FailureWebhook
    <2>3. Before
      BY <2>1, MovesAll
    <2>4. QED BY <1>1, <2>1, <2>2, <2>3
  <1>10. ASSUME NEW a \in Attempts, Pay(a) \/ PaymentFails(a) PROVE FreshUntilCreated'
    <2>1. req' = req /\ started' = started /\ intent' = intent
      BY <1>10 DEF Pay, PaymentFails, payVars
    <2>2. \A b \in Attempts : xendit[b] = "none" => xendit'[b] = "none"
      BY <1>10 DEF Pay, PaymentFails
    <2>3. Before
      BY <2>1 DEF PreIntent, PreRequest, InLoop
    <2>4. QED BY <1>1, <2>1, <2>2, <2>3
  <1>11. QED BY <1>2, <1>3, <1>4, <1>5, <1>6, <1>7, <1>8, <1>9, <1>10 DEF StepKind

\* At most one request finalizes an intent, and it stays claimed meanwhile.
LEMMA ClaimKept ==
  ASSUME TypeOK, OneOwner, FreshUntilCreated, ClaimHeld, SingleFinalizer, StepKind
  PROVE  ClaimHeld' /\ SingleFinalizer'
  <1> USE DEF TypeOK
  <1>1. ASSUME \A q \in Requests : \A b \in Attempts : Finalizer(q, b)' => Finalizer(q, b),
               \A b \in Attempts : intent[b] \in {"PROCESSING", "FAILED"} =>
                                     intent'[b] \in {"PROCESSING", "FAILED"}
        PROVE  ClaimHeld' /\ SingleFinalizer'
    BY <1>1 DEF ClaimHeld, SingleFinalizer
  <1>2. CASE Calm
    <2>1. CASE req' = req
      BY <1>1, <1>2, <2>1 DEF Calm, SamePayments, Finalizer
    <2>2. CASE \E r \in Requests : Moves(r)
      BY <1>1, <1>2, <2>2, MovesAll DEF Calm, SamePayments
    <2>3. QED BY <1>2, <2>1, <2>2 DEF Calm
  <1>3. ASSUME NEW r \in Requests, NEW a \in Attempts, Claims(r, a)
        PROVE  ClaimHeld' /\ SingleFinalizer'
    <2>1. \A q \in Requests : ~Finalizer(q, a)
      BY <1>3 DEF Claims, ClaimHeld
    <2>2. \A q \in Requests : \A b \in Attempts :
            Finalizer(q, b)' => Finalizer(q, b) \/ (q = r /\ b = a)
      BY <1>3, ClaimsAll
    <2>3. \A b \in Attempts : intent'[b] = IF b = a THEN "PROCESSING" ELSE intent[b]
      BY <1>3 DEF Claims
    <2>4. QED BY <2>1, <2>2, <2>3 DEF ClaimHeld, SingleFinalizer
  <1>4. ASSUME NEW r \in Requests, Settles(r) PROVE ClaimHeld' /\ SingleFinalizer'
    <2>1. req[r].at \in Attempts /\ Finalizer(r, req[r].at)
      BY <1>4, LocalFields DEF Settles, Finalizer
    <2>2. \A b \in Attempts : b # req[r].at => intent'[b] = intent[b]
      BY <1>4 DEF Settles
    <2>3. \A q \in Requests : \A b \in Attempts : Finalizer(q, b)' => Finalizer(q, b) /\ q # r
      BY <1>4, MovesAll DEF Settles
    <2>4. \A q \in Requests : \A b \in Attempts : Finalizer(q, b)' => b # req[r].at
      BY <2>1, <2>3 DEF SingleFinalizer
    <2>5. ClaimHeld'
      BY <2>2, <2>3, <2>4 DEF ClaimHeld
    <2>6. SingleFinalizer'
      BY <2>3 DEF SingleFinalizer
    <2>7. QED BY <2>5, <2>6
  <1>5. ASSUME NEW r \in Requests, CreateIntent(r) PROVE ClaimHeld' /\ SingleFinalizer'
    <2>1. /\ Moves(r) /\ At(r, "createIntent")
          /\ intent' = [intent EXCEPT ![req[r].own] = "PENDING"]
      BY <1>5, NamedMoves
    <2>2. intent[req[r].own] = "none"
      BY <2>1 DEF FreshUntilCreated, PreIntent, At
    <2>3. \A b \in Attempts : intent[b] \in {"PROCESSING", "FAILED"} =>
                                intent'[b] \in {"PROCESSING", "FAILED"}
      BY <2>1, <2>2
    <2>4. QED BY <1>1, <2>1, <2>3, MovesAll
  <1>6. ASSUME NEW r \in Requests, RequestPayment(r) PROVE ClaimHeld' /\ SingleFinalizer'
    BY <1>1, <1>6, NamedMoves, MovesAll
  <1>7. ASSUME NEW r \in Requests, Reply(r) PROVE ClaimHeld' /\ SingleFinalizer'
    <2>1. req[r].own \in Attempts
      BY <1>7, LocalFields DEF Reply, At, CheckoutSteps
    <2>2. CASE Claims(r, req[r].own)
      BY <1>3, <2>1, <2>2
    <2>3. CASE Moves(r) /\ UNCHANGED <<intent, webhooks, started>>
      BY <1>1, <2>3, MovesAll
    <2>4. QED BY <1>7, <2>2, <2>3, NamedMoves
  <1>8. ASSUME NEW r \in Requests, NEW a \in Attempts, NEW usesCode \in BOOLEAN,
               StartCheckout(r, a, usesCode)
        PROVE  ClaimHeld' /\ SingleFinalizer'
    <2>1. /\ \A q \in Requests : q # r => req'[q] = req[q]
          /\ req'[r].step \in {"claimSlot", "findPriors"} /\ intent' = intent
      BY <1>8, StartEffect
    <2>2. \A q \in Requests : \A b \in Attempts : Finalizer(q, b)' => Finalizer(q, b)
      BY <2>1 DEF Finalizer, Finalizing
    <2>3. QED BY <1>1, <2>1, <2>2
  <1>9. ASSUME NEW r \in Requests, NEW a \in Attempts, FailureWebhook(r, a)
        PROVE  ClaimHeld' /\ SingleFinalizer'
    <2>1. \A b \in Attempts : intent[b] \in {"PROCESSING", "FAILED"} =>
                                intent'[b] \in {"PROCESSING", "FAILED"}
      BY <1>9 DEF FailureWebhook
    <2>2. QED BY <1>1, <1>9, <2>1, NamedMoves, MovesAll
  <1>10. ASSUME NEW a \in Attempts, Pay(a) \/ PaymentFails(a)
         PROVE  ClaimHeld' /\ SingleFinalizer'
    BY <1>1, <1>10 DEF Pay, PaymentFails, Finalizer
  <1>11. QED BY <1>2, <1>3, <1>4, <1>5, <1>6, <1>7, <1>8, <1>9, <1>10 DEF StepKind

\* A payment Xendit has captured stays captured.
LEMMA CapturedStays ==
  ASSUME TypeOK, FreshUntilCreated, StepKind
  PROVE  \A b \in Attempts : xendit[b] = "SUCCEEDED" => xendit'[b] = "SUCCEEDED"
  <1> USE DEF TypeOK
  <1> DEFINE Stays == \A b \in Attempts : xendit[b] = "SUCCEEDED" => xendit'[b] = "SUCCEEDED"
  <1>1. CASE xendit' = xendit
    BY <1>1
  <1>2. ASSUME NEW r \in Requests, RequestPayment(r) PROVE Stays
    <2>1. xendit[req[r].own] = "none"
      BY <1>2 DEF RequestPayment, FreshUntilCreated, PreRequest, BeforeRequest, At
    <2>2. \E s : xendit' = [xendit EXCEPT ![req[r].own] = s]
      BY <1>2 DEF RequestPayment
    <2>3. QED BY <2>1, <2>2
  <1>3. ASSUME NEW r \in Requests, Reply(r) PROVE Stays
    BY <1>3 DEF Reply
  <1>4. ASSUME NEW a \in Attempts, Pay(a) \/ PaymentFails(a) PROVE Stays
    BY <1>4 DEF Pay, PaymentFails
  <1>5. CASE Calm \/ (\E r \in Requests : Settles(r) \/ CreateIntent(r))
    BY <1>1, <1>5, NamedMoves DEF Calm, SamePayments, Settles
  <1>6. CASE \E r \in Requests, a \in Attempts :
               \/ Claims(r, a) \/ FailureWebhook(r, a)
               \/ \E usesCode \in BOOLEAN : StartCheckout(r, a, usesCode)
    BY <1>1, <1>6 DEF Claims, FailureWebhook, StartCheckout, payVars
  <1>7. QED BY <1>2, <1>3, <1>4, <1>5, <1>6 DEF StepKind

\* Notices of capture stay true, and claims rest on captured payments.
LEMMA ClaimPaidKept ==
  ASSUME TypeOK, FreshUntilCreated, ClaimPaid, StepKind
  PROVE  ClaimPaid'
  <1> USE DEF TypeOK
  <1> DEFINE Stays == \A b \in Attempts : xendit[b] = "SUCCEEDED" => xendit'[b] = "SUCCEEDED"
  <1>1. Stays
    BY CapturedStays
  <1>2. \A b \in Attempts : <<"capture", b>> \in webhooks' =>
          <<"capture", b>> \in webhooks \/ xendit'[b] = "SUCCEEDED"
    <2>1. CASE webhooks' = webhooks
      BY <2>1
    <2>2. ASSUME NEW r \in Requests, RequestPayment(r)
          PROVE  \A b \in Attempts : <<"capture", b>> \in webhooks' =>
                   <<"capture", b>> \in webhooks \/ xendit'[b] = "SUCCEEDED"
      BY <2>2 DEF RequestPayment
    <2>3. ASSUME NEW a \in Attempts, Pay(a) \/ PaymentFails(a)
          PROVE  \A b \in Attempts : <<"capture", b>> \in webhooks' =>
                   <<"capture", b>> \in webhooks \/ xendit'[b] = "SUCCEEDED"
      BY <2>3 DEF Pay, PaymentFails
    <2>4. CASE Calm \/ (\E r \in Requests : Settles(r) \/ CreateIntent(r) \/ Reply(r))
      BY <2>1, <2>4, NamedMoves DEF Calm, SamePayments, Settles, Reply
    <2>5. CASE \E r \in Requests, a \in Attempts :
                 \/ Claims(r, a) \/ FailureWebhook(r, a)
                 \/ \E usesCode \in BOOLEAN : StartCheckout(r, a, usesCode)
      BY <2>1, <2>5 DEF Claims, FailureWebhook, StartCheckout, payVars
    <2>6. QED BY <2>2, <2>3, <2>4, <2>5 DEF StepKind
  <1>3. \A q \in Requests : \A b \in Attempts :
          Finalizer(q, b)' => Finalizer(q, b) \/ xendit[b] = "SUCCEEDED"
    <2> DEFINE Taken == \A q \in Requests : \A b \in Attempts :
                          Finalizer(q, b)' => Finalizer(q, b) \/ xendit[b] = "SUCCEEDED"
    <2>1. CASE req' = req \/ (\E r \in Requests : Moves(r))
      BY <2>1, MovesAll DEF Finalizer
    <2>2. ASSUME NEW r \in Requests, NEW a \in Attempts, Claims(r, a) PROVE Taken
      BY <2>2, ClaimsAll DEF Claims
    <2>3. ASSUME NEW r \in Requests, Reply(r) PROVE Taken
      <3>1. req[r].own \in Attempts
        BY <2>3, LocalFields DEF Reply, At, CheckoutSteps
      <3>2. QED BY <2>1, <2>2, <2>3, <3>1, NamedMoves
    <2>4. ASSUME NEW r \in Requests, NEW a \in Attempts, NEW usesCode \in BOOLEAN,
                 StartCheckout(r, a, usesCode)
          PROVE  Taken
      <3>1. /\ \A q \in Requests : q # r => req'[q] = req[q]
            /\ req'[r].step \in {"claimSlot", "findPriors"}
        BY <2>4, StartEffect
      <3>2. QED BY <3>1 DEF Finalizer, Finalizing
    <2>5. CASE \/ Calm
               \/ \E r \in Requests : Settles(r) \/ CreateIntent(r) \/ RequestPayment(r)
               \/ \E r \in Requests, a \in Attempts : FailureWebhook(r, a)
               \/ \E a \in Attempts : Pay(a) \/ PaymentFails(a)
      BY <2>1, <2>5, NamedMoves DEF Calm, Settles, Pay, PaymentFails
    <2>6. QED BY <2>2, <2>3, <2>4, <2>5 DEF StepKind
  <1>4. QED BY <1>1, <1>2, <1>3 DEF ClaimPaid

\* A plan becomes ACTIVE only from PENDING_PAYMENT, by a request that finalizes its
\* payment, or because it is forced; what was forced stays on record.
LEMMA ActiveStep ==
  ASSUME TypeOK, [Next]_vars
  PROVE  \A b \in Attempts :
           /\ sub'[b] = "ACTIVE" => \/ sub[b] = "ACTIVE"
                                    \/ b \in forced'
                                    \/ /\ sub[b] = "PENDING_PAYMENT"
                                       /\ \E r \in Requests : Finalizer(r, b)
           /\ b \in forced => b \in forced'
  <1> USE DEF TypeOK, planVars
  <1> DEFINE Earned == \A b \in Attempts :
                         /\ sub'[b] = "ACTIVE" => \/ sub[b] = "ACTIVE"
                                                  \/ b \in forced'
                                                  \/ /\ sub[b] = "PENDING_PAYMENT"
                                                     /\ \E r \in Requests : Finalizer(r, b)
                         /\ b \in forced => b \in forced'
  <1>1. ASSUME sub' = sub, forced' = forced PROVE Earned
    BY <1>1
  <1>2. ASSUME NEW r \in Requests, Checkout(r) PROVE Earned
    <2>1. CASE CancelPriors(r)
      BY <2>1 DEF CancelPriors
    <2>2. CASE CreateSubscription(r)
      BY <2>2 DEF CreateSubscription
    <2>3. CASE ~CancelPriors(r) /\ ~CreateSubscription(r)
      <3>1. UNCHANGED <<sub, forced>>
        BY <1>2, <2>3
        DEF Checkout, ClaimSlot, CreateRedemption, FindPriors, NextPrior, DemoCheckout,
            RequestPayment, RefuseCheckout, CreateIntent, LinkSubscription,
            AttachPaymentIntent, Reply, ReleaseRead, ReleaseWrite
      <3>2. QED BY <1>1, <3>1
    <2>4. QED BY <2>1, <2>2, <2>3
  <1>3. ASSUME NEW r \in Requests, Settle(r) PROVE Earned
    <2>1. CASE Activate(r)
      <3>1. req[r].at \in Attempts /\ Finalizer(r, req[r].at)
        BY <2>1, LocalFields DEF Activate, At, Finalizing, Finalizer
      <3>2. \A b \in Attempts :
              sub'[b] = IF b = req[r].at /\ sub[b] = "PENDING_PAYMENT" THEN "ACTIVE" ELSE sub[b]
        BY <2>1, <3>1 DEF Activate
      <3>3. forced' = forced
        BY <2>1 DEF Activate
      <3>4. QED BY <3>1, <3>2, <3>3
    <2>2. CASE CancelWrite(r)
      BY <2>2 DEF CancelWrite
    <2>3. CASE ForceWrite(r)
      BY <2>3 DEF ForceWrite
    <2>4. CASE ~Activate(r) /\ ~CancelWrite(r) /\ ~ForceWrite(r)
      <3>1. UNCHANGED <<sub, forced>>
        BY <1>3, <2>4
        DEF Settle, Succeed, Rollback, ReturnRead, ReturnWrite, Recheck
      <3>2. QED BY <1>1, <3>1
    <2>5. QED BY <2>1, <2>2, <2>3, <2>4
  <1>4. ASSUME NEW r \in Requests, Fault(r) \/ Crash(r) PROVE Earned
    BY <1>1, <1>4 DEF Fault, Crash
  <1>5. ASSUME NEW r \in Requests, NEW a \in Attempts, Arrive(r, a) PROVE Earned
    <2>1. UNCHANGED <<sub, forced>>
      BY <1>5
      DEF Arrive, StartCheckout, Reconcile, PollStatus, CaptureWebhook, FailureWebhook,
          AdminCancel, AdminActivate, CompleteDemo
    <2>2. QED BY <1>1, <2>1
  <1>6. ASSUME NEW a \in Attempts, AdminRefund(a) PROVE Earned
    BY <1>6 DEF AdminRefund
  <1>7. ASSUME NEW a \in Attempts,
               ConfirmByPaymentIntent(a) \/ LoseConfirm(a) \/ Pay(a) \/ PaymentFails(a)
        PROVE  Earned
    BY <1>1, <1>7 DEF ConfirmByPaymentIntent, LoseConfirm, Pay, PaymentFails
  <1>8. CASE UNCHANGED vars
    BY <1>1, <1>8 DEF vars
  <1>9. QED BY <1>2, <1>3, <1>4, <1>5, <1>6, <1>7, <1>8 DEF Next

---------------------------------------------------------------------------
(* The theorems *)

\* The invariant holds before any request arrives.
LEMMA ClaimInvInit == Init => ClaimInv
  <1> SUFFICES ASSUME Init PROVE ClaimInv
    OBVIOUS
  <1>1. /\ \A r \in Requests : req[r].step = "idle" /\ req[r].own = NoAttempt
        /\ \A a \in Attempts : intent[a] = "none" /\ xendit[a] = "none" /\ sub[a] = "none"
        /\ started = {} /\ webhooks = {}
    BY DEF Init, Idle, Local
  <1>2. \A r \in Requests : ~PreIntent(r) /\ ~PreRequest(r)
    BY <1>1 DEF PreIntent, PreRequest, InLoop, BeforeRequest, Finalizing
  <1>3. \A r \in Requests : \A a \in Attempts : ~Finalizer(r, a)
    BY <1>1 DEF Finalizer, Finalizing
  <1>4. OneOwner
    BY <1>1 DEF OneOwner, At
  <1>5. FreshUntilCreated
    BY <1>1, <1>2 DEF FreshUntilCreated
  <1>6. ClaimHeld /\ SingleFinalizer
    BY <1>3 DEF ClaimHeld, SingleFinalizer
  <1>7. ClaimPaid
    BY <1>1, <1>3 DEF ClaimPaid
  <1>8. ActiveOnlyIfPaid
    BY <1>1 DEF ActiveOnlyIfPaid
  <1>9. QED BY <1>4, <1>5, <1>6, <1>7, <1>8 DEF ClaimInv

\* Every step keeps the invariant.
LEMMA ClaimInvKept == TypeOK /\ ClaimInv /\ [Next]_vars => ClaimInv'
  <1> SUFFICES ASSUME TypeOK, ClaimInv, [Next]_vars PROVE ClaimInv'
    OBVIOUS
  <1>1. OneOwner /\ FreshUntilCreated /\ ClaimHeld /\ SingleFinalizer /\ ClaimPaid
          /\ ActiveOnlyIfPaid
    BY DEF ClaimInv
  <1>2. StepKind
    BY <1>1, StepKinds
  <1>3. OneOwner'
    BY <1>1, <1>2, OneOwnerKept
  <1>4. FreshUntilCreated'
    BY <1>1, <1>2, FreshKept
  <1>5. ClaimHeld' /\ SingleFinalizer'
    BY <1>1, <1>2, ClaimKept
  <1>6. ClaimPaid'
    BY <1>1, <1>2, ClaimPaidKept
  <1>7. ActiveOnlyIfPaid'
    <2>1. \A b \in Attempts : xendit[b] = "SUCCEEDED" => xendit'[b] = "SUCCEEDED"
      BY <1>1, <1>2, CapturedStays
    <2>2. \A b \in Attempts : \A r \in Requests : Finalizer(r, b) => xendit[b] = "SUCCEEDED"
      BY <1>1 DEF ClaimPaid
    <2>3. QED BY <1>1, <2>1, <2>2, ActiveStep DEF ActiveOnlyIfPaid
  <1>8. QED BY <1>3, <1>4, <1>5, <1>6, <1>7 DEF ClaimInv

\* The claim on an intent works whatever requests, failures and notices there are:
\* the inductive invariant of the finalization of payments.
THEOREM ClaimInvariant == Spec => []ClaimInv
  BY TypeCorrect, ClaimInvInit, ClaimInvKept, PTL DEF Spec

\* However many webhooks, polls, reconciles, admins and checkouts find one captured
\* payment at once, one request at a time finalizes it.
THEOREM OneFinalizer == Spec => []SingleFinalizer
  <1>1. ClaimInv => SingleFinalizer
    BY DEF ClaimInv
  <1>2. QED BY <1>1, ClaimInvariant, PTL

\* No interleaving and no failure makes a plan ACTIVE whose payment Xendit has not
\* captured, unless it was forced.
THEOREM ActivePlansArePaid == Spec => []ActiveOnlyIfPaid
  <1>1. ClaimInv => ActiveOnlyIfPaid
    BY DEF ClaimInv
  <1>2. QED BY <1>1, ClaimInvariant, PTL

\* No step takes a settled payment back.
LEMMA SettledStep ==
  ASSUME TypeOK, ClaimInv, [Next]_vars
  PROVE  \A a \in Attempts : intent[a] = "SUCCEEDED" => intent'[a] = "SUCCEEDED"
  <1> DEFINE Stays == \A a \in Attempts : intent[a] = "SUCCEEDED" => intent'[a] = "SUCCEEDED"
  <1> USE DEF TypeOK
  <1>1. StepKind
    BY StepKinds DEF ClaimInv
  <1>2. ASSUME NEW r \in Requests, NEW a \in Attempts, Claims(r, a) PROVE Stays
    BY <1>2 DEF Claims
  <1>3. ASSUME NEW r \in Requests, Settles(r) PROVE Stays
    <2>1. req[r].at \in Attempts /\ Finalizer(r, req[r].at)
      BY <1>3, LocalFields DEF Settles, Finalizer
    <2>2. intent[req[r].at] # "SUCCEEDED"
      BY <2>1 DEF ClaimInv, ClaimHeld
    <2>3. QED BY <1>3, <2>2 DEF Settles
  <1>4. ASSUME NEW r \in Requests, CreateIntent(r) PROVE Stays
    <2>1. intent[req[r].own] = "none"
      BY <1>4 DEF CreateIntent, ClaimInv, FreshUntilCreated, PreIntent, At
    <2>2. QED BY <1>4, <2>1 DEF CreateIntent
  <1>5. ASSUME NEW r \in Requests, Reply(r) PROVE Stays
    BY <1>5 DEF Reply, ClaimIntent
  <1>6. ASSUME NEW r \in Requests, NEW a \in Attempts, FailureWebhook(r, a) PROVE Stays
    BY <1>6 DEF FailureWebhook
  <1>7. ASSUME intent' = intent PROVE Stays
    BY <1>7
  <1>8. CASE \/ Calm
             \/ \E r \in Requests : RequestPayment(r)
             \/ \E r \in Requests, a \in Attempts, usesCode \in BOOLEAN :
                  StartCheckout(r, a, usesCode)
             \/ \E a \in Attempts : Pay(a) \/ PaymentFails(a)
    BY <1>7, <1>8
    DEF Calm, SamePayments, RequestPayment, StartCheckout, Pay, PaymentFails, payVars
  <1>9. QED BY <1>1, <1>2, <1>3, <1>4, <1>5, <1>6, <1>8 DEF StepKind

\* A payment recorded as SUCCEEDED is never overwritten: not by a checkout that is
\* still creating intents, not by a rollback, not by a late failure notice.
THEOREM SettledStays == Spec => SettledIsFinal
  <1>1. TypeOK /\ ClaimInv /\ [Next]_vars
          => [\A a \in Attempts : intent[a] = "SUCCEEDED" => intent'[a] = "SUCCEEDED"]_vars
    BY SettledStep
  <1>2. QED BY <1>1, TypeCorrect, ClaimInvariant, PTL DEF Spec, SettledIsFinal

\* A cancelled or refunded plan is never revived by a payment applied late.
THEOREM NeverRevived == Spec => PaymentNeverRevives
  <1>1. TypeOK /\ [Next]_vars
          => [\A a \in Attempts : sub[a] \in {"CANCELLED", "REFUNDED"} /\ sub'[a] = "ACTIVE"
                                   => a \in forced']_vars
    BY ActiveStep
  <1>2. QED BY <1>1, TypeCorrect, PTL DEF Spec, PaymentNeverRevives

\* What is settled stays so, whatever arrives late: no payment is unsettled, and no plan revived.
THEOREM FinalsStay == Spec => FinalStays
  BY SettledStays, NeverRevived DEF FinalStays

---------------------------------------------------------------------------
(* 3. The plan is written before the intent, and the promo code is confirmed *)
(* after it.  Both follow from ClaimInv, in which a checkout creates its      *)
(* plan before anybody can finalize its payment.                             *)

\* A request that is about to settle an intent has dealt with its plan.
ActivatedFirst ==
  \A r \in Requests : \A a \in Attempts :
    At(r, "succeed") /\ req[r].at = a => sub[a] # "PENDING_PAYMENT"

\* A confirmation is started only for a settled intent.
ConfirmsSettled == \A a \in confirms : intent[a] = "SUCCEEDED"

SettledInv ==
  SucceededMeansActivated /\ ConfirmedOnlyIfPaid /\ ActivatedFirst /\ ConfirmsSettled

---------------------------------------------------------------------------
(* Who does what *)

\* A plan begins to wait for its payment when its checkout creates it, and only then.
LEMMA WaitingStep ==
  ASSUME TypeOK, [Next]_vars
  PROVE  \A b \in Attempts : sub'[b] = "PENDING_PAYMENT" =>
           \/ sub[b] = "PENDING_PAYMENT"
           \/ \E r \in Requests : CreateSubscription(r) /\ req[r].own = b
  <1> USE DEF TypeOK, planVars
  <1> DEFINE Waits == \A b \in Attempts : sub'[b] = "PENDING_PAYMENT" =>
                        \/ sub[b] = "PENDING_PAYMENT"
                        \/ \E r \in Requests : CreateSubscription(r) /\ req[r].own = b
  <1>1. ASSUME sub' = sub PROVE Waits
    BY <1>1
  <1>2. ASSUME NEW r \in Requests, Checkout(r) PROVE Waits
    <2>1. CASE CancelPriors(r)
      BY <2>1 DEF CancelPriors
    <2>2. CASE CreateSubscription(r)
      <3>1. sub' = [sub EXCEPT ![req[r].own] = "PENDING_PAYMENT"]
        BY <2>2 DEF CreateSubscription
      <3>2. QED BY <2>2, <3>1
    <2>3. CASE ~CancelPriors(r) /\ ~CreateSubscription(r)
      <3>1. sub' = sub
        BY <1>2, <2>3
        DEF Checkout, ClaimSlot, CreateRedemption, FindPriors, NextPrior, DemoCheckout,
            RequestPayment, RefuseCheckout, CreateIntent, LinkSubscription,
            AttachPaymentIntent, Reply, ReleaseRead, ReleaseWrite
      <3>2. QED BY <1>1, <3>1
    <2>4. QED BY <2>1, <2>2, <2>3
  <1>3. ASSUME NEW r \in Requests, Settle(r) PROVE Waits
    <2>1. CASE Activate(r)
      BY <2>1 DEF Activate
    <2>2. CASE CancelWrite(r)
      BY <2>2 DEF CancelWrite
    <2>3. CASE ForceWrite(r)
      BY <2>3 DEF ForceWrite
    <2>4. CASE ~Activate(r) /\ ~CancelWrite(r) /\ ~ForceWrite(r)
      <3>1. sub' = sub
        BY <1>3, <2>4 DEF Settle, Succeed, Rollback, ReturnRead, ReturnWrite, Recheck
      <3>2. QED BY <1>1, <3>1
    <2>5. QED BY <2>1, <2>2, <2>3, <2>4
  <1>4. ASSUME NEW r \in Requests, Fault(r) \/ Crash(r) PROVE Waits
    BY <1>1, <1>4 DEF Fault, Crash
  <1>5. ASSUME NEW r \in Requests, NEW a \in Attempts, Arrive(r, a) PROVE Waits
    <2>1. sub' = sub
      BY <1>5
      DEF Arrive, StartCheckout, Reconcile, PollStatus, CaptureWebhook, FailureWebhook,
          AdminCancel, AdminActivate, CompleteDemo
    <2>2. QED BY <1>1, <2>1
  <1>6. ASSUME NEW a \in Attempts, AdminRefund(a) PROVE Waits
    BY <1>6 DEF AdminRefund
  <1>7. ASSUME NEW a \in Attempts,
               ConfirmByPaymentIntent(a) \/ LoseConfirm(a) \/ Pay(a) \/ PaymentFails(a)
        PROVE  Waits
    BY <1>1, <1>7 DEF ConfirmByPaymentIntent, LoseConfirm, Pay, PaymentFails
  <1>8. CASE UNCHANGED vars
    BY <1>1, <1>8 DEF vars
  <1>9. QED BY <1>2, <1>3, <1>4, <1>5, <1>6, <1>7, <1>8 DEF Next

\* No request comes to settle an intent in this step.
Quiet == \A r \in Requests : At(r, "succeed")' => req'[r] = req[r]

\* A request that goes on does not come to it, and neither does one that begins.
LEMMA GoQuiet ==
  ASSUME req \in [Requests -> LocalState], NEW q \in Requests, NEW s, s # "succeed", Go(q, s)
  PROVE  Quiet
  <1>1. req'[q] = IF s = "idle" THEN Idle
                  ELSE Local(s, req[q].caller, req[q].own, req[q].at, req[q].todo)
    BY DEF Go
  <1>2. req'[q].step = s
    BY <1>1 DEF Idle, Local
  <1>3. QED BY <1>2 DEF Go, Quiet, At

\* A request that does not come to settle an intent is of no concern to SettledInv.
LEMMA LocalQuiet ==
  ASSUME req \in [Requests -> LocalState], NEW q \in Requests, NEW s, s # "succeed",
         NEW c, NEW o, NEW a, NEW t, req' = [req EXCEPT ![q] = Local(s, c, o, a, t)]
  PROVE  Quiet
  <1>1. req'[q].step = s
    BY DEF Local
  <1>2. QED BY <1>1 DEF Quiet, At

\* What a step may do to the books: an intent is settled, and its confirmation started, by
\* a request that came to that; a code is confirmed in the demo or by a confirmation.
Bookkeeping ==
  /\ \A a \in Attempts : intent'[a] = "SUCCEEDED" =>
       \/ intent[a] = "SUCCEEDED"
       \/ \E r \in Requests : At(r, "succeed") /\ req[r].at = a
  /\ \A a \in confirms' :
       \/ a \in confirms
       \/ intent'[a] = "SUCCEEDED"
  /\ \A a \in Attempts : redemption'[a] = "CONFIRMED" =>
       redemption[a] = "CONFIRMED" \/ a \in confirms \/ demoMode
  /\ demoMode' = demoMode

\* A checkout does not come to settle, and it confirms a code only in the demo.
LEMMA CheckoutBooks ==
  ASSUME TypeOK, NEW r \in Requests, Checkout(r)
  PROVE  Quiet /\ Bookkeeping
  <1> req \in [Requests -> LocalState]
    BY DEF TypeOK
  <1> USE DEF TypeOK, promoVars, planVars, payVars, envVars
  <1>1. Quiet
    <2>1. CASE NextPrior(r)
      <3>1. ASSUME NEW b, ClaimIntent(r, b, "priors") PROVE Quiet
        BY <3>1, LocalQuiet DEF ClaimIntent
      <3>2. CASE Go(r, "cancelPriors")
        BY <3>2, GoQuiet
      <3>3. ASSUME NEW b, req' = [req EXCEPT ![r] = Local("priors", "checkout", req[r].own,
                                                          NoAttempt, req[r].todo \ {b})]
            PROVE  Quiet
        BY <3>3, LocalQuiet
      <3>4. QED BY <2>1, <3>1, <3>2, <3>3 DEF NextPrior
    <2>2. CASE FindPriors(r)
      BY <2>2, LocalQuiet DEF FindPriors
    <2>3. CASE Reply(r)
      <3>1. CASE ClaimIntent(r, req[r].own, "checkout")
        BY <3>1, LocalQuiet DEF ClaimIntent
      <3>2. QED BY <2>3, <3>1, GoQuiet DEF Reply
    <2>4. CASE \E s \in Steps \ {"succeed"} : Go(r, s)
      BY <2>4, GoQuiet
    <2>5. QED BY <2>1, <2>2, <2>3, <2>4, StepsListed
          DEF Checkout, ClaimSlot, CreateRedemption, CancelPriors, CreateSubscription,
              DemoCheckout, RequestPayment, RefuseCheckout, CreateIntent, LinkSubscription,
              AttachPaymentIntent, ReleaseRead, ReleaseWrite
  <1>2. \A a \in Attempts : intent'[a] = "SUCCEEDED" => intent[a] = "SUCCEEDED"
    BY DEF Checkout, ClaimSlot, CreateRedemption, FindPriors, NextPrior, CancelPriors,
           CreateSubscription, DemoCheckout, RequestPayment, RefuseCheckout, CreateIntent,
           LinkSubscription, AttachPaymentIntent, Reply, ReleaseRead, ReleaseWrite, ClaimIntent
  <1>3. confirms' = confirms /\ demoMode' = demoMode
    BY DEF Checkout, ClaimSlot, CreateRedemption, FindPriors, NextPrior, CancelPriors,
           CreateSubscription, DemoCheckout, RequestPayment, RefuseCheckout, CreateIntent,
           LinkSubscription, AttachPaymentIntent, Reply, ReleaseRead, ReleaseWrite
  <1>4. \A a \in Attempts : redemption'[a] = "CONFIRMED" =>
          redemption[a] = "CONFIRMED" \/ demoMode
    BY DEF Checkout, ClaimSlot, CreateRedemption, FindPriors, NextPrior, CancelPriors,
           CreateSubscription, DemoCheckout, RequestPayment, RefuseCheckout, CreateIntent,
           LinkSubscription, AttachPaymentIntent, Reply, ReleaseRead, ReleaseWrite
  <1>5. QED BY <1>1, <1>2, <1>3, <1>4 DEF Bookkeeping

\* Of what finalizes, only the activation of the plan leads to the settlement.
LEMMA SettleBooks ==
  ASSUME TypeOK, NEW r \in Requests, Settle(r)
  PROVE  (Quiet \/ Activate(r)) /\ Bookkeeping
  <1> req \in [Requests -> LocalState]
    BY DEF TypeOK
  <1> USE DEF TypeOK, promoVars, planVars, payVars, envVars
  <1>1. OnReturn(r) # "succeed" /\ OnThrow(r) # "succeed"
    BY ReturnIsStep DEF Finalizing
  <1>2. Quiet \/ Activate(r)
    BY <1>1, GoQuiet
    DEF Settle, Succeed, Rollback, ReturnRead, ReturnWrite, CancelWrite, Recheck, ForceWrite
  <1>3. CASE Succeed(r)
    <2>1. req[r].at \in Attempts
      BY <1>3, LocalFields DEF Succeed, At, Finalizing
    <2>2. QED BY <1>2, <1>3, <2>1 DEF Succeed, Bookkeeping
  <1>4. CASE ~Succeed(r)
    BY <1>2, <1>4
    DEF Settle, Activate, Rollback, ReturnRead, ReturnWrite, CancelWrite, Recheck, ForceWrite,
        Bookkeeping
  <1>5. QED BY <1>3, <1>4

\* Requests that arrive claim at most.
LEMMA ArriveBooks ==
  ASSUME TypeOK, NEW r \in Requests, NEW a \in Attempts, Arrive(r, a)
  PROVE  Quiet /\ Bookkeeping
  <1> req \in [Requests -> LocalState]
    BY DEF TypeOK
  <1> USE DEF TypeOK, promoVars, planVars, payVars, envVars
  <1>1. ASSUME NEW s, s # "succeed", NEW c, NEW o, NEW b, Begin(r, s, c, o, b) PROVE Quiet
    BY <1>1, LocalQuiet DEF Begin
  <1>2. ASSUME NEW c, ClaimIntent(r, a, c) PROVE Quiet
    BY <1>2, LocalQuiet DEF ClaimIntent
  <1>3. Quiet
    BY <1>1, <1>2
    DEF Arrive, StartCheckout, Reconcile, PollStatus, CaptureWebhook, FailureWebhook,
        AdminCancel, AdminActivate, CompleteDemo
  <1>4. \A b \in Attempts : intent'[b] = "SUCCEEDED" => intent[b] = "SUCCEEDED"
    BY DEF Arrive, StartCheckout, Reconcile, PollStatus, CaptureWebhook, FailureWebhook,
           AdminCancel, AdminActivate, CompleteDemo, ClaimIntent
  <1>5. confirms' = confirms /\ redemption' = redemption /\ demoMode' = demoMode
    BY DEF Arrive, StartCheckout, Reconcile, PollStatus, CaptureWebhook, FailureWebhook,
           AdminCancel, AdminActivate, CompleteDemo
  <1>6. QED BY <1>3, <1>4, <1>5 DEF Bookkeeping

\* Every step of the system.
LEMMA StepBooks ==
  ASSUME TypeOK, [Next]_vars
  PROVE  (Quiet \/ \E r \in Requests : Activate(r)) /\ Bookkeeping
  <1> req \in [Requests -> LocalState]
    BY DEF TypeOK
  <1> USE DEF TypeOK, promoVars, planVars, payVars, envVars
  <1>1. ASSUME NEW r \in Requests, Fault(r) \/ Crash(r) PROVE Quiet /\ Bookkeeping
    <2>1. OnError(r) # "succeed"
      BY ErrorIsStep
    <2>2. Quiet
      BY <1>1, <2>1, GoQuiet DEF Fault, Crash
    <2>3. QED BY <1>1, <2>2 DEF Fault, Crash, Bookkeeping
  <1>2. ASSUME req' = req PROVE Quiet
    BY <1>2 DEF Quiet
  <1>3. ASSUME NEW a \in Attempts,
               \/ ConfirmByPaymentIntent(a) \/ LoseConfirm(a) \/ AdminRefund(a)
               \/ Pay(a) \/ PaymentFails(a)
        PROVE  Quiet /\ Bookkeeping
    BY <1>2, <1>3
    DEF ConfirmByPaymentIntent, LoseConfirm, AdminRefund, Pay, PaymentFails, Bookkeeping
  <1>4. CASE UNCHANGED vars
    BY <1>2, <1>4 DEF vars, Bookkeeping
  <1>5. QED BY <1>1, <1>3, <1>4, CheckoutBooks, SettleBooks, ArriveBooks DEF Next

---------------------------------------------------------------------------
(* The invariant *)

\* Nothing is settled in the initial states.
LEMMA SettledInvInit == Init => SettledInv
  BY DEF Init, SettledInv, SucceededMeansActivated, ConfirmedOnlyIfPaid, ActivatedFirst,
         ConfirmsSettled, At, Idle, Local

\* A plan whose checkout creates it now has no intent and no payment anybody could settle.
LEMMA CreatedFresh ==
  ASSUME TypeOK, ClaimInv, NEW r \in Requests, CreateSubscription(r)
  PROVE  /\ intent[req[r].own] = "none" /\ xendit[req[r].own] = "none"
         /\ req[r].own \in Attempts /\ UNCHANGED intent /\ Quiet
  <1>1. PreRequest(r) /\ PreIntent(r)
    BY DEF CreateSubscription, At, PreRequest, PreIntent, BeforeRequest
  <1>2. req[r].own \in Attempts
    BY <1>1, PreOwn
  <1>3. Quiet
    BY GoQuiet DEF CreateSubscription, TypeOK
  <1>4. QED BY <1>1, <1>2, <1>3 DEF ClaimInv, FreshUntilCreated, CreateSubscription, payVars

\* Every step keeps SettledInv.
LEMMA SettledInvKept == TypeOK /\ ClaimInv /\ SettledInv /\ [Next]_vars => SettledInv'
  <1> SUFFICES ASSUME TypeOK, ClaimInv, SettledInv, [Next]_vars PROVE SettledInv'
    OBVIOUS
  <1>1. /\ \A a \in Attempts : intent[a] = "SUCCEEDED" => intent'[a] = "SUCCEEDED"
        /\ Bookkeeping
        /\ confirms \subseteq Attempts
    BY SettledStep, StepBooks DEF TypeOK
  <1>2. SucceededMeansActivated'
    <2> SUFFICES ASSUME NEW a \in Attempts, intent'[a] = "SUCCEEDED", sub'[a] = "PENDING_PAYMENT"
                 PROVE  FALSE
      BY DEF SucceededMeansActivated
    <2>1. CASE sub[a] = "PENDING_PAYMENT"
      BY <1>1, <2>1 DEF Bookkeeping, SettledInv, SucceededMeansActivated, ActivatedFirst
    <2>2. ASSUME NEW r \in Requests, CreateSubscription(r), req[r].own = a PROVE FALSE
      BY <2>2, CreatedFresh
    <2>3. QED BY <2>1, <2>2, WaitingStep
  <1>3. ActivatedFirst'
    <2> SUFFICES ASSUME NEW r \in Requests, NEW a \in Attempts, At(r, "succeed")',
                        req'[r].at = a, sub'[a] = "PENDING_PAYMENT"
                 PROVE  FALSE
      BY DEF ActivatedFirst
    <2>1. ASSUME NEW q \in Requests, CreateSubscription(q), req[q].own = a PROVE FALSE
      <3>1. Finalizer(r, a)
        BY <2>1, CreatedFresh DEF Quiet, At, Finalizer, Finalizing
      <3>2. QED BY <2>1, <3>1, CreatedFresh DEF ClaimInv, ClaimPaid
    <2>2. CASE sub[a] = "PENDING_PAYMENT"
      <3>1. CASE req'[r] = req[r]
        BY <2>2, <3>1 DEF SettledInv, ActivatedFirst, At
      <3>2. ASSUME NEW q \in Requests, Activate(q), req'[r] # req[r] PROVE FALSE
        <4>1. q = r /\ req'[r] = Local("succeed", req[r].caller, req[r].own, req[r].at,
                                       req[r].todo)
          BY <3>2 DEF Activate, Go, TypeOK
        <4>2. req[r].at = a
          BY <4>1 DEF Local
        <4>3. sub'[a] # "PENDING_PAYMENT"
          BY <3>2, <4>1, <4>2 DEF Activate, TypeOK
        <4>4. QED BY <4>3
      <3>3. QED BY <3>1, <3>2, StepBooks DEF Quiet
    <2>3. QED BY <2>1, <2>2, WaitingStep
  <1>4. ConfirmsSettled'
    BY <1>1 DEF Bookkeeping, SettledInv, ConfirmsSettled
  <1>5. ConfirmedOnlyIfPaid'
    BY <1>1 DEF Bookkeeping, SettledInv, ConfirmsSettled, ConfirmedOnlyIfPaid
  <1>6. QED BY <1>2, <1>3, <1>4, <1>5 DEF SettledInv

---------------------------------------------------------------------------
(* The theorems *)

\* What is settled is settled in all books, for any number of requests, attempts and failures:
\* the inductive invariant.
THEOREM SettledInvariant == Spec => []SettledInv
  BY TypeCorrect, ClaimInvariant, SettledInvInit, SettledInvKept, PTL DEF Spec

\* No plan is active before its payment, and none waits after it.
THEOREM PlansMatchPayments == Spec => []PlanMatchesPayment
  <1>1. ClaimInv /\ SettledInv => PlanMatchesPayment
    BY DEF ClaimInv, SettledInv, PlanMatchesPayment
  <1>2. QED BY <1>1, ClaimInvariant, SettledInvariant, PTL

\* A promo redemption is final only once its payment is, outside the demo.
THEOREM ConfirmedArePaid == Spec => []ConfirmedOnlyIfPaid
  <1>1. SettledInv => ConfirmedOnlyIfPaid
    BY DEF SettledInv
  <1>2. QED BY <1>1, SettledInvariant, PTL

---------------------------------------------------------------------------
(* 4. The slots of a promo code.  What takes a slot back is a checkout that    *)
(* fails, before the payer was ever asked to pay, or a notice of failure,    *)
(* which speaks of a payer who was: so nobody takes the same slot back twice, *)
(* if notices of failure do not overlap and a failed payment stays failed.   *)

\* A checkout in flight has not let its payer choose how to pay.
Unreplied ==
  \A r \in Requests : req[r].own \in Attempts =>
    xendit[req[r].own] \in {"none", "CREATED", "SUCCEEDED"}

\* Notices of failure are true.
FailuresAreTrue ==
  \A a \in Attempts : <<"failure", a>> \in webhooks => xendit[a] = "FAILED"

\* One notice of failure at a time gives slots back, of attempts whose payment failed.
Returning(r) == req[r].step \in ReturnSteps
ReturnsFailed ==
  /\ \A q, r \in Requests : Returning(q) /\ Returning(r) => q = r
  /\ \A r \in Requests : Returning(r) => xendit[req[r].at] = "FAILED"

\* Only captured payments are confirmed.
ConfirmsPaid == \A a \in confirms : xendit[a] = "SUCCEEDED"

\* What decides whose slot is taken back.
NoticesInv == Unreplied /\ FailuresAreTrue /\ ReturnsFailed /\ ConfirmsPaid

\* A request about to take a slot back has read that it is held, and it still is.
SlotsHeld ==
  /\ \A r \in Requests : At(r, "releaseWrite") => req[r].own \in Holders
  /\ \A r \in Requests : At(r, "returnWrite") => redemption[req[r].at] = "RESERVED"

FinitelyMany == IsFiniteSet(Holders) /\ IsFiniteSet(Claimants)

SlotsInv == NoticesInv /\ SlotsHeld /\ FinitelyMany /\ SlotsBacked

---------------------------------------------------------------------------
(* What the steps do to slots *)

SlotSteps == {"createRow", "releaseWrite"} \cup ReturnSteps

\* Request r moves on to a step that neither claims a slot nor takes one back.
Leaves(r) ==
  /\ \A q \in Requests : q # r => req'[q] = req[q]
  /\ req'[r].step \notin SlotSteps
  /\ req'[r].own \in {req[r].own, NoAttempt}

\* Whatever a request does, it leaves slots alone, but for the actions named here.
SlotMoves ==
  \/ req' = req
  \/ \E r \in Requests : Leaves(r) \/ ClaimSlot(r) \/ ReleaseRead(r) \/ ReturnRead(r)
  \/ \E r \in Requests, a \in Attempts :
       FailureWebhook(r, a) \/ \E usesCode \in BOOLEAN : StartCheckout(r, a, usesCode)

\* A request that goes on to a step that is none of SlotSteps leaves the slots alone.
LEMMA GoLeaves ==
  ASSUME req \in [Requests -> LocalState], NEW r \in Requests, NEW s, s \notin SlotSteps, Go(r, s)
  PROVE  Leaves(r) /\ (s = "idle" => req'[r].own = NoAttempt)
  <1>1. req'[r] = IF s = "idle" THEN Idle
                  ELSE Local(s, req[r].caller, req[r].own, req[r].at, req[r].todo)
    BY DEF Go
  <1>2. req'[r].step = s /\ req'[r].own \in {req[r].own, NoAttempt}
        /\ (s = "idle" => req'[r].own = NoAttempt)
    BY <1>1 DEF Idle, Local
  <1>3. QED BY <1>2 DEF Go, Leaves

\* The same of one that also turns to another attempt.
LEMMA LocalLeaves ==
  ASSUME req \in [Requests -> LocalState], NEW r \in Requests, NEW s, s \notin SlotSteps,
         NEW c, NEW o \in {req[r].own, NoAttempt}, NEW a, NEW t,
         req' = [req EXCEPT ![r] = Local(s, c, o, a, t)]
  PROVE  Leaves(r)
  <1>1. req'[r].step = s /\ req'[r].own = o
    BY DEF Local
  <1>2. QED BY <1>1 DEF Leaves

\* The steps at which a request claims a slot or takes one back.
LEMMA SlotStepsListed ==
  SlotSteps = {"createRow", "releaseWrite", "returnRead", "returnWrite"}
  BY DEF SlotSteps, ReturnSteps

\* Of a checkout, only the claim of a slot and the read before its release matter.
LEMMA CheckoutLeaves ==
  ASSUME TypeOK, NEW r \in Requests, Checkout(r)
  PROVE  Leaves(r) \/ ClaimSlot(r) \/ ReleaseRead(r)
  <1> req \in [Requests -> LocalState]
    BY DEF TypeOK
  <1> USE SlotStepsListed
  <1>1. CASE NextPrior(r)
    <2>1. ASSUME NEW b, ClaimIntent(r, b, "priors") PROVE Leaves(r)
      BY <2>1, LocalLeaves DEF ClaimIntent
    <2>2. CASE Go(r, "cancelPriors")
      BY <2>2, GoLeaves
    <2>3. ASSUME NEW b, req' = [req EXCEPT ![r] = Local("priors", "checkout", req[r].own,
                                                        NoAttempt, req[r].todo \ {b})]
          PROVE  Leaves(r)
      BY <2>3, LocalLeaves
    <2>4. QED BY <1>1, <2>1, <2>2, <2>3 DEF NextPrior
  <1>2. CASE FindPriors(r)
    <2> DEFINE priors == UnpaidOf(req[r].own)
               s == IF priors = {} THEN "createSub" ELSE "priors"
    <2>1. req' = [req EXCEPT ![r] = Local(s, "checkout", req[r].own, NoAttempt, priors)]
      BY <1>2 DEF FindPriors
    <2>2. s \notin SlotSteps
      OBVIOUS
    <2> HIDE DEF priors, s
    <2>3. QED BY <2>1, <2>2, LocalLeaves
  <1>3. CASE Reply(r)
    <2>1. CASE ClaimIntent(r, req[r].own, "checkout")
      BY <2>1, LocalLeaves DEF ClaimIntent
    <2>2. QED BY <1>3, <2>1, GoLeaves DEF Reply
  <1>4. CASE \E s \in Steps \ SlotSteps : Go(r, s)
    BY <1>4, GoLeaves
  <1>5. QED BY <1>1, <1>2, <1>3, <1>4, StepsListed
        DEF Checkout, CreateRedemption, CancelPriors, CreateSubscription, DemoCheckout,
            RequestPayment, RefuseCheckout, CreateIntent, LinkSubscription,
            AttachPaymentIntent, ReleaseWrite

\* Of the handling of an outcome, only the read before a slot is given back matters.
LEMMA SettleLeaves ==
  ASSUME TypeOK, NEW r \in Requests, Settle(r)
  PROVE  Leaves(r) \/ ReturnRead(r)
  <1> req \in [Requests -> LocalState]
    BY DEF TypeOK
  <1>1. OnReturn(r) \notin SlotSteps /\ OnThrow(r) \notin SlotSteps
    BY ReturnIsStep, SlotStepsListed
  <1>2. QED BY <1>1, GoLeaves, SlotStepsListed
        DEF Settle, Activate, Succeed, Rollback, ReturnWrite, CancelWrite, Recheck, ForceWrite

\* Every step is one of SlotMoves.
LEMMA StepSlotMoves ==
  ASSUME TypeOK, ClaimInv, [Next]_vars
  PROVE  SlotMoves
  <1> req \in [Requests -> LocalState]
    BY DEF TypeOK
  <1>1. ASSUME NEW r \in Requests, Fault(r) \/ Crash(r) PROVE Leaves(r)
    <2>1. OnError(r) \notin SlotSteps
      BY ErrorIsStep, SlotStepsListed
    <2>2. QED BY <1>1, <2>1, GoLeaves, SlotStepsListed DEF Fault, Crash
  <1>2. ASSUME NEW a \in Attempts,
               \/ ConfirmByPaymentIntent(a) \/ LoseConfirm(a) \/ AdminRefund(a)
               \/ Pay(a) \/ PaymentFails(a)
        PROVE  req' = req
    BY <1>2 DEF ConfirmByPaymentIntent, LoseConfirm, AdminRefund, Pay, PaymentFails
  <1>3. ASSUME NEW r \in Requests, NEW a \in Attempts, Arrive(r, a)
        PROVE  \/ Leaves(r) \/ FailureWebhook(r, a)
               \/ \E usesCode \in BOOLEAN : StartCheckout(r, a, usesCode)
    <2>1. ASSUME NEW s, s \notin SlotSteps, NEW c, Begin(r, s, c, NoAttempt, a)
          PROVE  Leaves(r)
      BY <2>1, LocalLeaves DEF Begin
    <2>2. ASSUME NEW c, ClaimIntent(r, a, c) PROVE Leaves(r)
      BY <2>2, LocalLeaves, SlotStepsListed DEF ClaimIntent
    <2>3. QED BY <1>3, <2>1, <2>2, SlotStepsListed
          DEF Arrive, Reconcile, PollStatus, CaptureWebhook, AdminCancel, AdminActivate,
              CompleteDemo
  <1>4. CASE UNCHANGED vars
    BY <1>4 DEF vars, SlotMoves
  <1>5. QED BY <1>1, <1>2, <1>3, <1>4, CheckoutLeaves, SettleLeaves DEF Next, SlotMoves

\* What a step does to the payment of an attempt: a checkout asks for it, and hands it
\* to the payer as its last act; the payer pays or fails to.
PaymentMoves ==
  \A a \in Attempts :
    \/ xendit'[a] = xendit[a]
    \/ \E r \in Requests : /\ req[r].own = a /\ At(r, "request")
                           /\ xendit'[a] \in {"CREATED", "SUCCEEDED"}
    \/ \E r \in Requests : /\ req[r].own = a /\ xendit[a] = "CREATED"
                           /\ \A q \in Requests : q # r => req'[q] = req[q]
                           /\ req'[r].own = NoAttempt
    \/ Pay(a) \/ PaymentFails(a)

\* What a step adds to the notices of failure and to the confirmations.
NoticeMoves ==
  /\ \A a \in Attempts : <<"failure", a>> \in webhooks' =>
       <<"failure", a>> \in webhooks \/ PaymentFails(a)
  /\ \A a \in confirms' :
       \/ a \in confirms
       \/ \E r \in Requests : Finalizer(r, a) /\ xendit' = xendit

\* Every step is one of PaymentMoves and of NoticeMoves.
LEMMA PaymentSteps ==
  ASSUME TypeOK, [Next]_vars
  PROVE  PaymentMoves /\ NoticeMoves
  <1> req \in [Requests -> LocalState]
    BY DEF TypeOK
  <1> USE DEF TypeOK, promoVars, planVars, payVars, envVars
  <1> DEFINE Still == xendit' = xendit /\ webhooks' = webhooks /\ confirms' \subseteq confirms
  <1>1. ASSUME Still PROVE PaymentMoves /\ NoticeMoves
    BY <1>1 DEF PaymentMoves, NoticeMoves
  <1>2. ASSUME NEW r \in Requests, RequestPayment(r) PROVE PaymentMoves /\ NoticeMoves
    <2>1. confirms' = confirms /\ At(r, "request")
      BY <1>2 DEF RequestPayment
    <2>2. \A a \in Attempts : <<"failure", a>> \in webhooks' => <<"failure", a>> \in webhooks
      BY <1>2 DEF RequestPayment
    <2>3. \E s \in {"CREATED", "SUCCEEDED"} : xendit' = [xendit EXCEPT ![req[r].own] = s]
      BY <1>2 DEF RequestPayment
    <2>4. PaymentMoves
      BY <2>1, <2>3 DEF PaymentMoves
    <2>5. QED BY <2>1, <2>2, <2>4 DEF NoticeMoves
  <1>3. ASSUME NEW r \in Requests, Reply(r) PROVE PaymentMoves /\ NoticeMoves
    <2>1. confirms' = confirms /\ webhooks' = webhooks
      BY <1>3 DEF Reply
    <2>2. CASE xendit' = xendit
      BY <1>1, <2>1, <2>2
    <2>3. CASE /\ xendit[req[r].own] = "CREATED" /\ Go(r, "idle")
               /\ xendit' = [xendit EXCEPT ![req[r].own] = "REQUIRES_ACTION"]
      <3>1. req'[r].own = NoAttempt /\ \A q \in Requests : q # r => req'[q] = req[q]
        BY <2>3, GoLeaves, SlotStepsListed DEF Leaves
      <3>2. PaymentMoves
        BY <2>3, <3>1 DEF PaymentMoves
      <3>3. QED BY <2>1, <3>2 DEF NoticeMoves
    <2>4. QED BY <1>3, <2>2, <2>3 DEF Reply
  <1>4. ASSUME NEW a \in Attempts, Pay(a) \/ PaymentFails(a) PROVE PaymentMoves /\ NoticeMoves
    <2>1. PaymentMoves
      BY <1>4 DEF Pay, PaymentFails, PaymentMoves
    <2>2. NoticeMoves
      BY <1>4 DEF Pay, PaymentFails, NoticeMoves
    <2>3. QED BY <2>1, <2>2
  <1>5. ASSUME NEW r \in Requests, Succeed(r) PROVE PaymentMoves /\ NoticeMoves
    BY <1>5 DEF Succeed, PaymentMoves, NoticeMoves, Finalizer, Finalizing, At
  <1>6. ASSUME NEW r \in Requests, Checkout(r), ~RequestPayment(r), ~Reply(r) PROVE Still
    BY <1>6
    DEF Checkout, ClaimSlot, CreateRedemption, FindPriors, NextPrior, CancelPriors,
        CreateSubscription, DemoCheckout, RefuseCheckout, CreateIntent, LinkSubscription,
        AttachPaymentIntent, ReleaseRead, ReleaseWrite
  <1>7. ASSUME NEW r \in Requests, Settle(r), ~Succeed(r) PROVE Still
    BY <1>7
    DEF Settle, Activate, Rollback, ReturnRead, ReturnWrite, CancelWrite, Recheck, ForceWrite
  <1>8. ASSUME NEW r \in Requests, NEW a \in Attempts, Arrive(r, a) PROVE Still
    BY <1>8
    DEF Arrive, StartCheckout, Reconcile, PollStatus, CaptureWebhook, FailureWebhook,
        AdminCancel, AdminActivate, CompleteDemo
  <1>9. ASSUME NEW r \in Requests, Fault(r) \/ Crash(r) PROVE Still
    BY <1>9 DEF Fault, Crash
  <1>10. ASSUME NEW a \in Attempts, ConfirmByPaymentIntent(a) \/ LoseConfirm(a) \/ AdminRefund(a)
         PROVE  Still
    BY <1>10 DEF ConfirmByPaymentIntent, LoseConfirm, AdminRefund
  <1>11. CASE UNCHANGED vars
    BY <1>1, <1>11 DEF vars
  <1> HIDE DEF Still
  <1>12. QED BY <1>1, <1>2, <1>3, <1>4, <1>5, <1>6, <1>7, <1>8, <1>9, <1>10, <1>11 DEF Next

\* What a step does to the redemption of an attempt: whoever settles or releases it finds
\* it in the status that the code asks for, but for the release by a checkout.
RedemptionMoves ==
  \A a \in Attempts :
    \/ redemption'[a] = redemption[a]
    \/ redemption'[a] = "RESERVED"
    \/ \E r \in Requests : /\ req[r].own = a /\ At(r, "request")
                           /\ redemption[a] = "RESERVED" /\ redemption'[a] = "CONFIRMED"
    \/ \E r \in Requests : req[r].own = a /\ ReleaseWrite(r)
    \/ \E r \in Requests : req[r].at = a /\ ReturnWrite(r)
    \/ a \in confirms /\ redemption[a] = "RESERVED" /\ redemption'[a] = "CONFIRMED"

\* Every step is one of RedemptionMoves.
LEMMA RedemptionSteps ==
  ASSUME TypeOK, [Next]_vars
  PROVE  RedemptionMoves
  <1> USE DEF TypeOK, promoVars
  <1>1. ASSUME redemption' = redemption PROVE RedemptionMoves
    BY <1>1 DEF RedemptionMoves
  <1>2. ASSUME NEW r \in Requests, Checkout(r) PROVE RedemptionMoves
    <2>1. CASE CreateRedemption(r)
      BY <2>1 DEF CreateRedemption, RedemptionMoves
    <2>2. CASE DemoCheckout(r)
      BY <2>2 DEF DemoCheckout, RedemptionMoves
    <2>3. CASE ReleaseWrite(r)
      <3>1. redemption' = [redemption EXCEPT ![req[r].own] = "RELEASED"]
        BY <2>3 DEF ReleaseWrite
      <3>2. QED BY <2>3, <3>1 DEF RedemptionMoves
    <2>4. CASE ~CreateRedemption(r) /\ ~DemoCheckout(r) /\ ~ReleaseWrite(r)
      BY <1>1, <1>2, <2>4
      DEF Checkout, ClaimSlot, FindPriors, NextPrior, CancelPriors, CreateSubscription,
          RequestPayment, RefuseCheckout, CreateIntent, LinkSubscription,
          AttachPaymentIntent, Reply, ReleaseRead
    <2>5. QED BY <2>1, <2>2, <2>3, <2>4
  <1>3. ASSUME NEW r \in Requests, Settle(r) PROVE RedemptionMoves
    <2>1. CASE ReturnWrite(r)
      <3>1. \E s : redemption' = [redemption EXCEPT ![req[r].at] = s]
        BY <2>1 DEF ReturnWrite
      <3>2. QED BY <2>1, <3>1 DEF RedemptionMoves
    <2>2. CASE ~ReturnWrite(r)
      BY <1>1, <1>3, <2>2
      DEF Settle, Activate, Succeed, Rollback, ReturnRead, CancelWrite, Recheck, ForceWrite
    <2>3. QED BY <2>1, <2>2
  <1>4. ASSUME NEW r \in Requests, Fault(r) \/ Crash(r) PROVE RedemptionMoves
    BY <1>1, <1>4 DEF Fault, Crash
  <1>5. ASSUME NEW r \in Requests, NEW a \in Attempts, Arrive(r, a) PROVE RedemptionMoves
    BY <1>1, <1>5
    DEF Arrive, StartCheckout, Reconcile, PollStatus, CaptureWebhook, FailureWebhook,
        AdminCancel, AdminActivate, CompleteDemo
  <1>6. ASSUME NEW a \in Attempts, ConfirmByPaymentIntent(a) PROVE RedemptionMoves
    BY <1>6 DEF ConfirmByPaymentIntent, RedemptionMoves
  <1>7. ASSUME NEW a \in Attempts, LoseConfirm(a) \/ AdminRefund(a) \/ Pay(a) \/ PaymentFails(a)
        PROVE  RedemptionMoves
    BY <1>1, <1>7 DEF LoseConfirm, AdminRefund, Pay, PaymentFails
  <1>8. CASE UNCHANGED vars
    BY <1>1, <1>8 DEF vars
  <1>9. QED BY <1>2, <1>3, <1>4, <1>5, <1>6, <1>7, <1>8 DEF Next

---------------------------------------------------------------------------
(* What decides whose slot is taken back *)

\* A payment that failed is not tried again, and one that was captured stays so.
LEMMA OutcomeStays ==
  ASSUME TypeOK, ClaimInv, PaymentMoves, ~CaptureAfterFailure
  PROVE  \A a \in Attempts : xendit[a] \in {"SUCCEEDED", "FAILED"} => xendit'[a] = xendit[a]
  <1> SUFFICES ASSUME NEW a \in Attempts, xendit[a] \in {"SUCCEEDED", "FAILED"},
                      xendit'[a] # xendit[a]
               PROVE  FALSE
    OBVIOUS
  <1>1. ASSUME NEW r \in Requests, req[r].own = a, At(r, "request") PROVE FALSE
    <2>1. xendit[a] = "none"
      BY <1>1 DEF ClaimInv, FreshUntilCreated, PreRequest, BeforeRequest, At
    <2>2. QED BY <2>1
  <1>2. CASE Pay(a) \/ PaymentFails(a)
    BY <1>2 DEF Pay, PaymentFails
  <1>3. QED BY <1>1, <1>2 DEF PaymentMoves

\* With true and single notices of failure, a checkout in flight has an unasked payer, a
\* notice of failure stays true, and a confirmed payment stays captured.
LEMMA NoticesKept ==
  ASSUME TypeOK, ClaimInv, NoticesInv, SlotMoves, PaymentMoves, NoticeMoves,
         ~OverlappingFailures, ~CaptureAfterFailure
  PROVE  NoticesInv'
  <1> USE AttemptAssumption
  <1> req \in [Requests -> LocalState] /\ webhooks \subseteq {"capture", "failure"} \X Attempts
      /\ confirms \subseteq Attempts /\ xendit \in [Attempts -> XenditStatus]
    BY DEF TypeOK
  <1>1. \A a \in Attempts : xendit[a] \in {"SUCCEEDED", "FAILED"} => xendit'[a] = xendit[a]
    BY OutcomeStays
  <1>2. ASSUME NEW a \in Attempts, PaymentFails(a)
        PROVE  xendit[a] = "REQUIRES_ACTION" /\ xendit'[a] = "FAILED" /\ req' = req
    BY <1>2 DEF PaymentFails
  <1>3. Unreplied'
    <2> SUFFICES ASSUME NEW q \in Requests, req'[q].own \in Attempts
                 PROVE  xendit'[req'[q].own] \in {"none", "CREATED", "SUCCEEDED"}
      BY DEF Unreplied
    <2>1. ASSUME NEW a \in Attempts, NEW usesCode \in BOOLEAN, StartCheckout(q, a, usesCode)
          PROVE  req'[q].own = a /\ xendit'[a] = "none"
      <3>1. a \notin started /\ req'[q].own = a /\ xendit' = xendit
        BY <2>1, StartEffect
      <3>2. QED BY <3>1 DEF ClaimInv, FreshUntilCreated
    <2>2. CASE req'[q].own = req[q].own
      <3> DEFINE a == req[q].own
      <3>1. a \in Attempts /\ xendit[a] \in {"none", "CREATED", "SUCCEEDED"}
        BY <2>2 DEF NoticesInv, Unreplied
      <3>2. ASSUME NEW r \in Requests, req[r].own = a, req'[r].own = NoAttempt PROVE FALSE
        <4>1. q = r
          BY <3>1, <3>2 DEF ClaimInv, OneOwner
        <4>2. QED BY <2>2, <3>1, <3>2, <4>1
      <3>3. ASSUME Pay(a) PROVE xendit'[a] = "SUCCEEDED"
        BY <3>1, <3>3 DEF Pay
      <3>4. ~PaymentFails(a)
        BY <1>2, <3>1
      <3>5. xendit'[a] \in {"none", "CREATED", "SUCCEEDED"}
        BY <3>1, <3>2, <3>3, <3>4 DEF PaymentMoves
      <3>6. QED BY <2>2, <3>5
    <2>3. CASE req'[q].own # req[q].own
      <3>1. \E a \in Attempts, usesCode \in BOOLEAN : StartCheckout(q, a, usesCode)
        <4>1. ASSUME NEW r \in Requests, Leaves(r) PROVE FALSE
          BY <2>3, <4>1 DEF Leaves
        <4>2. ASSUME NEW r \in Requests, ClaimSlot(r) \/ ReleaseRead(r) \/ ReturnRead(r) PROVE FALSE
          <5>1. \E s : Go(r, s)
            BY <4>2 DEF ClaimSlot, ReleaseRead, ReturnRead
          <5>2. PICK s : Go(r, s)
            BY <5>1
          <5>3. req'[q] = req[q] \/ req'[q].own \in {req[q].own, NoAttempt}
            BY <5>2 DEF Go, Idle, Local
          <5>4. QED BY <2>3, <5>3
        <4>3. ASSUME NEW r \in Requests, NEW a \in Attempts, FailureWebhook(r, a) PROVE FALSE
          <5>1. req'[q] = req[q] \/ req'[q].own = NoAttempt
            BY <4>3 DEF FailureWebhook, Begin, Local
          <5>2. QED BY <2>3, <5>1
        <4>4. ASSUME NEW r \in Requests, NEW a \in Attempts, NEW usesCode \in BOOLEAN,
                     StartCheckout(r, a, usesCode)
              PROVE  r = q
          BY <2>3, <4>4, StartEffect
        <4>5. QED BY <2>3, <4>1, <4>2, <4>3, <4>4 DEF SlotMoves
      <3>2. QED BY <2>1, <3>1
    <2>4. QED BY <2>2, <2>3
  <1>4. FailuresAreTrue'
    BY <1>1, <1>2 DEF NoticesInv, FailuresAreTrue, NoticeMoves
  <1>5. ReturnsFailed'
    <2>1. ASSUME NEW q \in Requests, Returning(q)'
          PROVE  \/ req'[q] = req[q]
                 \/ ReturnRead(q) /\ Returning(q) /\ req'[q].at = req[q].at
                 \/ \E a \in Attempts : FailureWebhook(q, a) /\ req'[q].at = a
      <3>0. req'[q].step \in {"returnRead", "returnWrite"}
        BY <2>1 DEF Returning, ReturnSteps
      <3>1. ASSUME NEW r \in Requests, Leaves(r) PROVE req'[q] = req[q]
        BY <3>0, <3>1, SlotStepsListed DEF Leaves
      <3>2. ASSUME NEW r \in Requests, ClaimSlot(r) \/ ReleaseRead(r), req'[q] # req[q]
            PROVE  FALSE
        <4>1. q = r /\ \E s \in {"createRow", "idle", "releaseWrite"} : Go(q, s)
          BY <3>2 DEF ClaimSlot, ReleaseRead, Go
        <4>2. req'[q].step \in {"createRow", "idle", "releaseWrite"}
          BY <4>1 DEF Go, Idle, Local
        <4>3. QED BY <3>0, <4>2
      <3>3. ASSUME NEW r \in Requests, ReturnRead(r), req'[q] # req[q]
            PROVE  ReturnRead(q) /\ Returning(q) /\ req'[q].at = req[q].at
        <4>1. q = r /\ (Go(q, "returnWrite") \/ Go(q, "idle"))
          <5>1. Go(r, "returnWrite") \/ Go(r, "idle")
            BY <3>3 DEF ReturnRead
          <5>2. QED BY <3>3, <5>1 DEF Go
        <4>2. Go(q, "returnWrite")
          BY <3>0, <4>1 DEF Go, Idle, Local
        <4>3. req'[q].at = req[q].at
          BY <4>2 DEF Go, Local
        <4>4. QED BY <3>3, <4>1, <4>3 DEF ReturnRead, Returning, ReturnSteps, At
      <3>4. ASSUME NEW r \in Requests, NEW a \in Attempts, FailureWebhook(r, a), req'[q] # req[q]
            PROVE  FailureWebhook(q, a) /\ req'[q].at = a
        BY <3>4 DEF FailureWebhook, Begin, Local
      <3>5. ASSUME NEW r \in Requests, NEW a \in Attempts, NEW usesCode \in BOOLEAN,
                   StartCheckout(r, a, usesCode)
            PROVE  req'[q] = req[q]
        BY <3>0, <3>5, StartEffect
      <3>6. QED BY <3>1, <3>2, <3>3, <3>4, <3>5 DEF SlotMoves
    <2>2. ASSUME NEW q \in Requests, NEW r \in Requests, Returning(q)', Returning(r)' PROVE q = r
      <3>1. ASSUME NEW p \in Requests, NEW o \in Requests, NEW a \in Attempts,
                   FailureWebhook(p, a), Returning(o)', o # p
            PROVE  FALSE
        <4>1. req'[o] = req[o] /\ ~Returning(o)
          BY <3>1 DEF FailureWebhook, Begin, Returning
        <4>2. QED BY <3>1, <4>1 DEF Returning
      <3>2. CASE Returning(q) /\ Returning(r)
        BY <3>2 DEF NoticesInv, ReturnsFailed
      <3>3. Returning(q) \/ \E a \in Attempts : FailureWebhook(q, a)
        BY <2>1, <2>2 DEF Returning
      <3>4. Returning(r) \/ \E a \in Attempts : FailureWebhook(r, a)
        BY <2>1, <2>2 DEF Returning
      <3>5. QED BY <2>2, <3>1, <3>2, <3>3, <3>4
    <2>3. ASSUME NEW q \in Requests, Returning(q)' PROVE xendit'[req'[q].at] = "FAILED"
      <3>1. CASE Returning(q) /\ req'[q].at = req[q].at
        <4>1. req[q].at \in Attempts
          BY <3>1, LocalFields DEF Returning
        <4>2. QED BY <1>1, <3>1, <4>1 DEF NoticesInv, ReturnsFailed
      <3>2. ASSUME NEW a \in Attempts, FailureWebhook(q, a), req'[q].at = a
            PROVE  xendit'[a] = "FAILED"
        BY <1>1, <3>2 DEF FailureWebhook, NoticesInv, FailuresAreTrue
      <3>3. CASE req'[q] = req[q]
        BY <2>3, <3>1, <3>3 DEF Returning
      <3>4. QED BY <2>1, <2>3, <3>1, <3>2, <3>3
    <2>4. QED BY <2>2, <2>3 DEF ReturnsFailed
  <1>6. ConfirmsPaid'
    <2> SUFFICES ASSUME NEW a \in confirms' PROVE xendit'[a] = "SUCCEEDED"
      BY DEF ConfirmsPaid
    <2>1. CASE a \in confirms
      BY <1>1, <2>1 DEF NoticesInv, ConfirmsPaid
    <2>2. ASSUME NEW r \in Requests, Finalizer(r, a), xendit' = xendit PROVE xendit[a] = "SUCCEEDED"
      <3>1. a \in Attempts
        BY <2>2, LocalFields DEF Finalizer
      <3>2. QED BY <2>2, <3>1 DEF ClaimInv, ClaimPaid
    <2>3. QED BY <2>1, <2>2 DEF NoticeMoves
  <1>7. QED BY <1>3, <1>4, <1>5, <1>6 DEF NoticesInv

---------------------------------------------------------------------------
(* Whose slot is taken back *)

\* A request about to take a slot back is one that was, or one that has just read it.
LEMMA TakingBack ==
  ASSUME TypeOK, SlotMoves, NEW r \in Requests, req'[r] # req[r]
  PROVE  /\ At(r, "releaseWrite")' => /\ redemption' = redemption /\ req'[r].own = req[r].own
                                      /\ redemption[req[r].own] = "RESERVED"
         /\ At(r, "returnWrite")' => /\ redemption' = redemption /\ req'[r].at = req[r].at
                                     /\ redemption[req[r].at] = "RESERVED"
  <1> req \in [Requests -> LocalState]
    BY DEF TypeOK
  <1> USE DEF promoVars
  <1>1. ASSUME NEW q \in Requests, Leaves(q) PROVE ~At(r, "releaseWrite")' /\ ~At(r, "returnWrite")'
    BY <1>1, SlotStepsListed DEF Leaves, At
  <1>2. ASSUME NEW q \in Requests, NEW s, Go(q, s)
        PROVE  q = r /\ req'[r].step = s
               /\ (s # "idle" => req'[r].own = req[r].own /\ req'[r].at = req[r].at)
    <2>1. q = r
      BY <1>2 DEF Go
    <2>2. req'[r] = IF s = "idle" THEN Idle
                    ELSE Local(s, req[r].caller, req[r].own, req[r].at, req[r].todo)
      BY <1>2, <2>1 DEF Go
    <2>3. QED BY <2>1, <2>2 DEF Idle, Local
  <1>3. ASSUME NEW q \in Requests, ClaimSlot(q)
        PROVE  ~At(r, "releaseWrite")' /\ ~At(r, "returnWrite")'
    <2>1. Go(q, "createRow") \/ Go(q, "idle")
      BY <1>3 DEF ClaimSlot
    <2>2. QED BY <1>2, <2>1 DEF At
  <1>4. ASSUME NEW q \in Requests, ReleaseRead(q)
        PROVE  /\ ~At(r, "returnWrite")'
               /\ At(r, "releaseWrite")' => /\ redemption' = redemption /\ req'[r].own = req[r].own
                                            /\ redemption[req[r].own] = "RESERVED"
    <2>1. CASE redemption[req[q].own] = "RESERVED"
      BY <1>2, <1>4, <2>1 DEF ReleaseRead, At
    <2>2. CASE redemption[req[q].own] # "RESERVED"
      BY <1>2, <1>4, <2>2 DEF ReleaseRead, At
    <2>3. QED BY <2>1, <2>2
  <1>5. ASSUME NEW q \in Requests, ReturnRead(q)
        PROVE  /\ ~At(r, "releaseWrite")'
               /\ At(r, "returnWrite")' => /\ redemption' = redemption /\ req'[r].at = req[r].at
                                           /\ redemption[req[r].at] = "RESERVED"
    <2>1. CASE attached[req[q].at] /\ redemption[req[q].at] = "RESERVED"
      <3>1. Go(q, "returnWrite") /\ redemption' = redemption
        BY <1>5, <2>1 DEF ReturnRead
      <3>2. QED BY <1>2, <2>1, <3>1 DEF At
    <2>2. CASE ~(attached[req[q].at] /\ redemption[req[q].at] = "RESERVED")
      <3>1. Go(q, "idle")
        BY <1>5, <2>2 DEF ReturnRead
      <3>2. QED BY <1>2, <3>1 DEF At
    <2>3. QED BY <2>1, <2>2
  <1>6. ASSUME NEW q \in Requests, NEW a \in Attempts,
               FailureWebhook(q, a) \/ \E usesCode \in BOOLEAN : StartCheckout(q, a, usesCode)
        PROVE  ~At(r, "releaseWrite")' /\ ~At(r, "returnWrite")'
    <2>1. CASE FailureWebhook(q, a)
      BY <2>1 DEF FailureWebhook, Begin, Local, At
    <2>2. ASSUME NEW usesCode \in BOOLEAN, StartCheckout(q, a, usesCode)
          PROVE  ~At(r, "releaseWrite")' /\ ~At(r, "returnWrite")'
      BY <2>2, StartEffect DEF At
    <2>3. QED BY <1>6, <2>1, <2>2
  <1>7. QED BY <1>1, <1>3, <1>4, <1>5, <1>6 DEF SlotMoves

\* A request that writes its release ends.
LEMMA WritesEnd ==
  ASSUME TypeOK, NEW r \in Requests, ReleaseWrite(r) \/ ReturnWrite(r)
  PROVE  req'[r].step = "idle"
  <1>1. Go(r, "idle")
    BY DEF ReleaseWrite, ReturnWrite
  <1>2. QED BY <1>1 DEF Go, Idle, Local, TypeOK

\* Nobody changes a redemption between the read that finds it held and the write that
\* releases it.
LEMMA HeldKept ==
  ASSUME TypeOK, ClaimInv, NoticesInv, SlotsHeld, SlotMoves, RedemptionMoves, [Next]_vars
  PROVE  SlotsHeld'
  <1> req \in [Requests -> LocalState]
    BY DEF TypeOK
  <1>1. \A q, r \in Requests : Returning(r) => req[q].own # req[r].at
    BY LocalFields DEF NoticesInv, Unreplied, ReturnsFailed, Returning
  <1>2. ASSUME NEW r \in Requests, At(r, "releaseWrite")' PROVE req'[r].own \in Holders'
    <2>1. CASE req'[r] = req[r]
      <3> DEFINE a == req[r].own
      <3>1. a \in Attempts /\ redemption[a] \in {"RESERVED", "CONFIRMED"} /\ At(r, "releaseWrite")
        BY <1>2, <2>1 DEF SlotsHeld, Holders, At
      <3>2. ASSUME NEW q \in Requests, req[q].own = a, ReleaseWrite(q) PROVE FALSE
        <4>1. q = r
          BY <3>1, <3>2, AttemptAssumption DEF ClaimInv, OneOwner
        <4>2. QED BY <1>2, <3>2, <4>1, WritesEnd DEF At
      <3>3. ASSUME NEW q \in Requests, req[q].at = a, ReturnWrite(q) PROVE FALSE
        BY <1>1, <3>3 DEF ReturnWrite, At, Returning, ReturnSteps
      <3>4. redemption'[a] \in {"RESERVED", "CONFIRMED"}
        BY <3>1, <3>2, <3>3 DEF RedemptionMoves
      <3>5. QED BY <2>1, <3>1, <3>4 DEF Holders
    <2>2. CASE req'[r] # req[r]
      <3>1. redemption' = redemption /\ req'[r].own = req[r].own
            /\ redemption[req[r].own] = "RESERVED"
        BY <1>2, <2>2, TakingBack
      <3>2. req'[r].own \in Attempts
        <4>1. req' \in [Requests -> LocalState]
          BY StepKeepsLocal
        <4>2. QED BY <1>2, <4>1, LocalFields DEF At, ReleaseSteps
      <3>3. QED BY <3>1, <3>2 DEF Holders
    <2>3. QED BY <2>1, <2>2
  <1>3. ASSUME NEW r \in Requests, At(r, "returnWrite")' PROVE redemption'[req'[r].at] = "RESERVED"
    <2>1. CASE req'[r] = req[r]
      <3> DEFINE a == req[r].at
      <3>1. At(r, "returnWrite") /\ Returning(r) /\ redemption[a] = "RESERVED"
        BY <1>3, <2>1 DEF SlotsHeld, At, Returning, ReturnSteps
      <3>2. a \in Attempts
        BY <3>1, LocalFields DEF Returning
      <3>3. \A q \in Requests : req[q].own # a
        BY <1>1, <3>1
      <3>4. a \notin confirms
        BY <3>1 DEF NoticesInv, ReturnsFailed, ConfirmsPaid
      <3>5. ASSUME NEW q \in Requests, ReturnWrite(q) PROVE FALSE
        <4>1. q = r
          BY <3>1, <3>5 DEF ReturnWrite, At, Returning, ReturnSteps, NoticesInv, ReturnsFailed
        <4>2. QED BY <1>3, <3>5, <4>1, WritesEnd DEF At
      <3>6. QED BY <2>1, <3>1, <3>2, <3>3, <3>4, <3>5 DEF RedemptionMoves
    <2>2. CASE req'[r] # req[r]
      BY <1>3, <2>2, TakingBack
    <2>3. QED BY <2>1, <2>2
  <1>4. QED BY <1>2, <1>3 DEF SlotsHeld

---------------------------------------------------------------------------
(* The slots are counted *)

\* What a step does to the count, to the redemptions in use and to the claims without a row:
\* a slot is claimed, its row is written, it is taken back, or a claim is lost.
SlotsStep ==
  \/ Holders' = Holders /\ Claimants' \subseteq Claimants /\ redeemedCount' = redeemedCount
  \/ \E r \in Requests :
       /\ Holders' = Holders /\ Claimants' = Claimants \cup {r}
       /\ redeemedCount < RedemptionCap /\ redeemedCount' = redeemedCount + 1
  \/ \E r \in Claimants, a \in Attempts :
       /\ Holders' = Holders \cup {a} /\ Claimants' = Claimants \ {r}
       /\ redeemedCount' = redeemedCount
  \/ \E a \in Holders :
       /\ Holders' = Holders \ {a} /\ Claimants' \subseteq Claimants
       /\ redeemedCount' = redeemedCount - 1

\* A request that claims no slot in this step adds no claim.
LEMMA ClaimsOnly ==
  ASSUME TypeOK, SlotMoves, \A r \in Requests : ~ClaimSlot(r)
  PROVE  Claimants' \subseteq Claimants
  <1> req \in [Requests -> LocalState]
    BY DEF TypeOK
  <1> SUFFICES ASSUME NEW r \in Requests, At(r, "createRow")', req'[r] # req[r] PROVE FALSE
    BY DEF Claimants, At
  <1>1. ASSUME NEW q \in Requests, Leaves(q) PROVE FALSE
    BY <1>1, SlotStepsListed DEF Leaves, At
  <1>2. ASSUME NEW q \in Requests, NEW s, s # "createRow", Go(q, s) PROVE FALSE
    <2>1. q = r /\ req'[r] = IF s = "idle" THEN Idle
                    ELSE Local(s, req[r].caller, req[r].own, req[r].at, req[r].todo)
      BY <1>2 DEF Go
    <2>2. req'[r].step = s
      BY <2>1 DEF Idle, Local
    <2>3. QED BY <1>2, <2>2 DEF At
  <1>3. ASSUME NEW q \in Requests, ReleaseRead(q) \/ ReturnRead(q) PROVE FALSE
    <2>1. \E s \in {"releaseWrite", "returnWrite", "idle"} : Go(q, s)
      BY <1>3 DEF ReleaseRead, ReturnRead
    <2>2. QED BY <1>2, <2>1
  <1>4. ASSUME NEW q \in Requests, NEW a \in Attempts, FailureWebhook(q, a) PROVE FALSE
    BY <1>4 DEF FailureWebhook, Begin, Local, At
  <1>5. ASSUME NEW q \in Requests, NEW a \in Attempts, NEW usesCode \in BOOLEAN,
               StartCheckout(q, a, usesCode)
        PROVE  FALSE
    BY <1>5, StartEffect DEF At
  <1>6. QED BY <1>1, <1>3, <1>4, <1>5 DEF SlotMoves

\* Every step is one of SlotsStep.
LEMMA SlotsSteps ==
  ASSUME TypeOK, SlotsHeld, SlotMoves, [Next]_vars
  PROVE  SlotsStep
  <1> USE DEF TypeOK, promoVars
  <1> req \in [Requests -> LocalState]
    OBVIOUS
  <1>1. ASSUME NEW r \in Requests, ClaimSlot(r) PROVE SlotsStep
    <2>1. Holders' = Holders
      BY <1>1 DEF ClaimSlot, Holders
    <2>2. CASE Go(r, "createRow") /\ redeemedCount < RedemptionCap
               /\ redeemedCount' = redeemedCount + 1
      <3>1. req'[r].step = "createRow" /\ \A q \in Requests : q # r => req'[q] = req[q]
        BY <2>2 DEF Go, Local
      <3>2. Claimants' = Claimants \cup {r}
        BY <3>1 DEF Claimants, At
      <3>3. QED BY <2>1, <2>2, <3>2 DEF SlotsStep
    <2>3. CASE Go(r, "idle") /\ redeemedCount' = redeemedCount
      <3>1. req'[r].step = "idle" /\ \A q \in Requests : q # r => req'[q] = req[q]
        BY <2>3 DEF Go, Idle, Local
      <3>2. Claimants' \subseteq Claimants
        BY <3>1 DEF Claimants, At
      <3>3. QED BY <2>1, <2>3, <3>2 DEF SlotsStep
    <2>4. QED BY <1>1, <2>2, <2>3 DEF ClaimSlot
  <1> DEFINE NoClaim == \A r \in Requests : ~ClaimSlot(r)
  <1>2. CASE NoClaim
    <2>1. Claimants' \subseteq Claimants
      BY <1>2, ClaimsOnly
    <2>2. ASSUME Holders' = Holders, redeemedCount' = redeemedCount PROVE SlotsStep
      BY <2>1, <2>2 DEF SlotsStep
    <2>3. ASSUME redemption' = redemption, redeemedCount' = redeemedCount PROVE SlotsStep
      BY <2>2, <2>3 DEF Holders
    <2>4. ASSUME NEW r \in Requests, CreateRedemption(r) PROVE SlotsStep
      <3>1. At(r, "createRow") /\ Go(r, "findPriors") /\ redeemedCount' = redeemedCount
            /\ redemption' = [redemption EXCEPT ![req[r].own] = "RESERVED"]
        BY <2>4 DEF CreateRedemption
      <3>2. req[r].own \in Attempts
        BY <3>1, LocalFields DEF At, CheckoutSteps
      <3>3. Holders' = Holders \cup {req[r].own}
        BY <3>1, <3>2 DEF Holders
      <3>4. req'[r].step = "findPriors" /\ \A q \in Requests : q # r => req'[q] = req[q]
        BY <3>1 DEF Go, Local
      <3>5. Claimants' = Claimants \ {r} /\ r \in Claimants
        BY <3>1, <3>4 DEF Claimants, At
      <3>6. QED BY <3>1, <3>2, <3>3, <3>5 DEF SlotsStep
    <2>5. ASSUME NEW r \in Requests, DemoCheckout(r) PROVE SlotsStep
      <3>1. Holders' = Holders
        BY <2>5 DEF DemoCheckout, Holders
      <3>2. QED BY <2>2, <2>5, <3>1 DEF DemoCheckout
    <2>6. ASSUME NEW r \in Requests, ReleaseWrite(r) PROVE SlotsStep
      <3>1. req[r].own \in Holders /\ redeemedCount' = redeemedCount - 1
            /\ redemption' = [redemption EXCEPT ![req[r].own] = "RELEASED"]
        BY <2>6 DEF ReleaseWrite, SlotsHeld
      <3>2. Holders' = Holders \ {req[r].own}
        BY <3>1 DEF Holders
      <3>3. QED BY <2>1, <3>1, <3>2 DEF SlotsStep
    <2>7. ASSUME NEW r \in Requests, ReturnWrite(r) PROVE SlotsStep
      <3>1. At(r, "returnWrite") /\ redemption[req[r].at] = "RESERVED"
            /\ redeemedCount' = redeemedCount - 1
        BY <2>7 DEF ReturnWrite, SlotsHeld
      <3>2. req[r].at \in Attempts
        BY <3>1, LocalFields DEF At, ReturnSteps
      <3>3. redemption' = [redemption EXCEPT ![req[r].at] = "RELEASED"]
        BY <2>7, <3>1, <3>2 DEF ReturnWrite
      <3>4. Holders' = Holders \ {req[r].at} /\ req[r].at \in Holders
        BY <3>1, <3>2, <3>3 DEF Holders
      <3>5. QED BY <2>1, <3>1, <3>4 DEF SlotsStep
    <2>8. ASSUME NEW a \in Attempts, ConfirmByPaymentIntent(a) PROVE SlotsStep
      <3>1. Holders' = Holders
        BY <2>8 DEF ConfirmByPaymentIntent, Holders
      <3>2. QED BY <2>2, <2>8, <3>1 DEF ConfirmByPaymentIntent
    <2>9. ASSUME NEW r \in Requests, Checkout(r) PROVE SlotsStep
      BY <1>2, <2>3, <2>4, <2>5, <2>6, <2>9
      DEF Checkout, FindPriors, NextPrior, CancelPriors, CreateSubscription,
          RequestPayment, RefuseCheckout, CreateIntent, LinkSubscription,
          AttachPaymentIntent, Reply, ReleaseRead
    <2>10. ASSUME NEW r \in Requests, Settle(r) PROVE SlotsStep
      BY <2>3, <2>7, <2>10
      DEF Settle, Activate, Succeed, Rollback, ReturnRead, CancelWrite, Recheck, ForceWrite
    <2>11. ASSUME NEW r \in Requests, Fault(r) \/ Crash(r) PROVE SlotsStep
      BY <2>3, <2>11 DEF Fault, Crash
    <2>12. ASSUME NEW r \in Requests, NEW a \in Attempts, Arrive(r, a) PROVE SlotsStep
      BY <2>3, <2>12
      DEF Arrive, StartCheckout, Reconcile, PollStatus, CaptureWebhook, FailureWebhook,
          AdminCancel, AdminActivate, CompleteDemo
    <2>13. ASSUME NEW a \in Attempts, LoseConfirm(a) \/ AdminRefund(a) \/ Pay(a) \/ PaymentFails(a)
           PROVE  SlotsStep
      BY <2>3, <2>13 DEF LoseConfirm, AdminRefund, Pay, PaymentFails
    <2>14. CASE UNCHANGED vars
      BY <2>3, <2>14 DEF vars
    <2>15. QED BY <2>8, <2>9, <2>10, <2>11, <2>12, <2>13, <2>14 DEF Next
  <1>3. QED BY <1>1, <1>2

\* However a slot changes hands, all that is in use stays counted, within the cap.
LEMMA CountKept ==
  ASSUME TypeOK, FinitelyMany, SlotsBacked, SlotsStep
  PROVE  FinitelyMany' /\ SlotsBacked'
  <1> DEFINE h == Cardinality(Holders)
             c == Cardinality(Claimants)
  <1>1. /\ h \in Nat /\ c \in Nat /\ redeemedCount \in Int /\ RedemptionCap \in Nat
        /\ h + c <= redeemedCount /\ redeemedCount <= RedemptionCap
        /\ IsFiniteSet(Holders) /\ IsFiniteSet(Claimants)
    BY FS_CardinalityType, CapAssumption DEF TypeOK, FinitelyMany, SlotsBacked
  <1>2. ASSUME IsFiniteSet(Holders'), IsFiniteSet(Claimants'),
               Cardinality(Holders') + Cardinality(Claimants') <= redeemedCount',
               redeemedCount' <= RedemptionCap
        PROVE  FinitelyMany' /\ SlotsBacked'
    BY <1>2 DEF FinitelyMany, SlotsBacked
  <1>3. ASSUME NEW S \in SUBSET Claimants
        PROVE  IsFiniteSet(S) /\ Cardinality(S) \in Nat /\ Cardinality(S) <= c
    BY <1>1, <1>3, FS_Subset, FS_CardinalityType
  <1>4. CASE Holders' = Holders /\ Claimants' \subseteq Claimants /\ redeemedCount' = redeemedCount
    <2>1. IsFiniteSet(Claimants') /\ Cardinality(Claimants') \in Nat /\ Cardinality(Claimants') <= c
      BY <1>3, <1>4
    <2> DEFINE d == Cardinality(Claimants')
    <2>2. h + d <= redeemedCount
      <3>1. d \in Nat /\ d <= c
        BY <2>1
      <3> HIDE DEF h, c, d
      <3>2. QED BY <1>1, <3>1
    <2>3. QED BY <1>1, <1>2, <1>4, <2>1, <2>2
  <1>5. ASSUME NEW r \in Requests, Holders' = Holders, Claimants' = Claimants \cup {r},
               redeemedCount < RedemptionCap, redeemedCount' = redeemedCount + 1
        PROVE  FinitelyMany' /\ SlotsBacked'
    <2> DEFINE d == Cardinality(Claimants \cup {r})
    <2>1. IsFiniteSet(Claimants \cup {r}) /\ d \in {c, c + 1}
      BY <1>1, FS_AddElement
    <2>2. h + d <= redeemedCount + 1 /\ redeemedCount + 1 <= RedemptionCap
      <3> HIDE DEF h, c, d
      <3>1. QED BY <1>1, <1>5, <2>1
    <2>3. QED BY <1>1, <1>2, <1>5, <2>1, <2>2
  <1>6. ASSUME NEW r \in Claimants, NEW a \in Attempts, Holders' = Holders \cup {a},
               Claimants' = Claimants \ {r}, redeemedCount' = redeemedCount
        PROVE  FinitelyMany' /\ SlotsBacked'
    <2> DEFINE d == Cardinality(Claimants \ {r})
               i == Cardinality(Holders \cup {a})
    <2>1. IsFiniteSet(Claimants \ {r}) /\ d = c - 1
      BY <1>1, FS_RemoveElement
    <2>2. IsFiniteSet(Holders \cup {a}) /\ i \in {h, h + 1}
      BY <1>1, FS_AddElement
    <2>3. i + d <= redeemedCount
      <3> HIDE DEF h, c, d, i
      <3>1. QED BY <1>1, <2>1, <2>2
    <2>4. QED BY <1>1, <1>2, <1>6, <2>1, <2>2, <2>3
  <1>7. ASSUME NEW a \in Holders, Holders' = Holders \ {a}, Claimants' \subseteq Claimants,
               redeemedCount' = redeemedCount - 1
        PROVE  FinitelyMany' /\ SlotsBacked'
    <2> DEFINE d == Cardinality(Claimants')
               i == Cardinality(Holders \ {a})
    <2>1. IsFiniteSet(Claimants') /\ d \in Nat /\ d <= c
      BY <1>3, <1>7
    <2>2. IsFiniteSet(Holders \ {a}) /\ i = h - 1
      BY <1>1, FS_RemoveElement
    <2>3. i + d <= redeemedCount - 1 /\ redeemedCount - 1 <= RedemptionCap
      <3> HIDE DEF h, c, d, i
      <3>1. QED BY <1>1, <2>1, <2>2
    <2>4. QED BY <1>2, <1>7, <2>1, <2>2, <2>3
  <1>8. QED BY <1>4, <1>5, <1>6, <1>7 DEF SlotsStep

---------------------------------------------------------------------------
\* No slot is used in the initial states.
LEMMA SlotsInvInit == Init => SlotsInv
  <1> SUFFICES ASSUME Init PROVE SlotsInv
    OBVIOUS
  <1>1. Holders = {} /\ Claimants = {}
    BY DEF Init, Holders, Claimants, At, Idle, Local
  <1>2. FinitelyMany /\ SlotsBacked
    BY <1>1, FS_EmptySet, CapAssumption DEF Init, FinitelyMany, SlotsBacked
  <1>3. NoticesInv
    BY AttemptAssumption
    DEF Init, NoticesInv, Unreplied, FailuresAreTrue, ReturnsFailed, Returning, ReturnSteps,
        ConfirmsPaid, Idle, Local
  <1>4. SlotsHeld
    BY DEF Init, SlotsHeld, At, Idle, Local
  <1>5. QED BY <1>2, <1>3, <1>4 DEF SlotsInv

\* Every step keeps SlotsInv and moves at most one slot.
LEMMA SlotsInvKept ==
  ASSUME ~OverlappingFailures, ~CaptureAfterFailure
  PROVE  TypeOK /\ ClaimInv /\ SlotsInv /\ [Next]_vars => SlotsInv' /\ SlotsStep
  <1> SUFFICES ASSUME TypeOK, ClaimInv, SlotsInv, [Next]_vars PROVE SlotsInv' /\ SlotsStep
    OBVIOUS
  <1>1. SlotMoves /\ PaymentMoves /\ NoticeMoves /\ RedemptionMoves
    BY StepSlotMoves, PaymentSteps, RedemptionSteps
  <1>2. NoticesInv'
    BY <1>1, NoticesKept DEF SlotsInv
  <1>3. SlotsHeld'
    BY <1>1, HeldKept DEF SlotsInv
  <1>4. SlotsStep
    BY <1>1, SlotsSteps DEF SlotsInv
  <1>5. FinitelyMany' /\ SlotsBacked'
    BY <1>4, CountKept DEF SlotsInv
  <1>6. QED BY <1>2, <1>3, <1>4, <1>5 DEF SlotsInv

\* The inductive invariant of the promo code's slots.  The two hypotheses are the behaviours
\* of Xendit's notices under which the code breaks it: without them a slot would be given back
\* twice (the run bento_oversell shows it for one of the two).
THEOREM SlotsInvariant ==
  ASSUME ~OverlappingFailures, ~CaptureAfterFailure
  PROVE  Spec => []SlotsInv
  BY TypeCorrect, ClaimInvariant, SlotsInvInit, SlotsInvKept, PTL DEF Spec

\* Redemptions in use and claims of a slot on their way to a redemption are all counted in
\* redeemedCount, within the cap of the code (BentoVoucherService.redeemForCheckout).
THEOREM SlotsAreBacked ==
  ASSUME ~OverlappingFailures, ~CaptureAfterFailure
  PROVE  Spec => []SlotsBacked
  <1>1. SlotsInv => SlotsBacked
    BY DEF SlotsInv
  <1>2. QED BY <1>1, SlotsInvariant, PTL

\* A step of SlotsStep is a step of PromoSlots, or none.
LEMMA StepImplements ==
  ASSUME TypeOK, SlotsInv, SlotsStep
  PROVE  [Slots!Next]_Holders
  <1> DEFINE h == Cardinality(Holders)
             c == Cardinality(Claimants)
  <1>1. ASSUME NEW r \in Claimants, NEW a \in Attempts, a \notin Holders, Holders' = Holders \cup {a}
        PROVE  Slots!Next
    <2>1. /\ IsFiniteSet(Claimants) /\ h \in Nat /\ c \in Nat
          /\ h + c <= redeemedCount /\ redeemedCount <= RedemptionCap
          /\ redeemedCount \in Int /\ RedemptionCap \in Nat
      BY FS_CardinalityType, CapAssumption DEF TypeOK, SlotsInv, FinitelyMany, SlotsBacked
    <2>2. c # 0
      BY <1>1, <2>1, FS_EmptySet
    <2>3. h < RedemptionCap
      <3> HIDE DEF h, c
      <3>1. QED BY <2>1, <2>2
    <2>4. Slots!Cardinality(Holders) = Cardinality(Holders)
      BY DEF Slots!Cardinality, Cardinality, Slots!IsFiniteSet, IsFiniteSet
    <2>5. Slots!Acquire(a)
      BY <1>1, <2>3, <2>4 DEF Slots!Acquire
    <2>6. QED BY <2>5 DEF Slots!Next
  <1>2. ASSUME NEW a \in Holders, Holders' = Holders \ {a} PROVE Slots!Next
    <2>1. a \in Attempts
      BY DEF Holders
    <2>2. QED BY <1>2, <2>1 DEF Slots!Next, Slots!Release
  <1>3. ASSUME NEW a \in Holders, Holders' = Holders \cup {a} PROVE Holders' = Holders
    BY <1>3
  <1>4. QED BY <1>1, <1>2, <1>3 DEF SlotsStep

\* The redemptions in use implement PromoSlots: a checkout takes a slot only while one is
\* left, and every other step frees one slot or none.
THEOREM RedemptionsImplementSlots ==
  ASSUME ~OverlappingFailures, ~CaptureAfterFailure
  PROVE  Spec => SlotsImplemented
  <1>1. Init => Slots!Init
    BY DEF Init, Slots!Init, Holders
  <1>2. TypeOK /\ ClaimInv /\ SlotsInv /\ [Next]_vars => [Slots!Next]_Holders
    BY SlotsInvKept, StepImplements
  <1>3. QED BY <1>1, <1>2, TypeCorrect, ClaimInvariant, SlotsInvariant, PTL
        DEF Spec, SlotsImplemented, Slots!Spec
=============================================================================
