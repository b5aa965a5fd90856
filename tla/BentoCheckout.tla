--------------------------- MODULE BentoCheckout ---------------------------
(***************************************************************************)
(* Selling a bento plan: the checkout request, its Xendit payment, the      *)
(* promo-code slot it claims, and every request that may settle, cancel or  *)
(* activate the plan afterwards.                                            *)
(*                                                                          *)
(* A backend request is a process of Requests.  One action is one database  *)
(* statement or one call to Xendit, because Prisma runs each in its own     *)
(* READ COMMITTED transaction; where the code opens a transaction, it is    *)
(* split between a read and the write that relies on it.  The start of a    *)
(* request is merged with its first statement, and a read with the          *)
(* conditional update that checks the same thing again.                     *)
(***************************************************************************)
EXTENDS Integers, FiniteSets

CONSTANTS
  Attempts,            \* calls of checkout(): each makes one plan and one intent
  Requests,            \* backend requests that can be in flight at once
  PlanOf,              \* the customer and package an attempt is for
  RedemptionCap,       \* redemption_cap of the promo code
  OverlappingFailures, \* whether two payment.failure requests may overlap
  CaptureAfterFailure, \* whether a payer may try again after a failed payment
  MaxMishaps,          \* bound: statements that fail and requests that die
  NoAttempt            \* "no attempt", in the local state of a request

ASSUME AttemptAssumption == NoAttempt \notin Attempts
ASSUME CapAssumption == RedemptionCap \in Nat
ASSUME BoundAssumption == MaxMishaps \in Nat
ASSUME XenditAssumption == OverlappingFailures \in BOOLEAN /\ CaptureAfterFailure \in BOOLEAN

VARIABLES
  redeemedCount, \* redeemed_count of the promo code
  redemption,    \* status of the attempt's redemption row
  attached,      \* the redemption row names the payment intent
  sub,           \* status of the plan
  linked,        \* the plan names its payment intent
  intent,        \* status of the payment intent
  xendit,        \* status of the payment request at Xendit
  webhooks,      \* notifications Xendit has sent; each may arrive any number of times
  confirms,      \* confirmByPaymentIntent calls started and not awaited
  started,       \* attempts whose checkout has begun
  forced,        \* history: plans an admin or the demo flow made ACTIVE
  demoMode,      \* PAYMENTS_DEMO_MODE
  req,           \* local state of each request
  mishaps        \* statements that failed and requests that died so far

promoVars == <<redeemedCount, redemption, attached>>
planVars  == <<sub, linked, forced>>
payVars   == <<intent, xendit, webhooks>>
envVars   == <<demoMode, mishaps>>
vars      == <<promoVars, planVars, payVars, confirms, started, envVars, req>>

RedemptionStatus == {"none", "RESERVED", "CONFIRMED", "RELEASED"}
SubStatus == {"none", "PENDING_PAYMENT", "ACTIVE", "CANCELLED", "REFUNDED"}
IntentStatus == {"none", "PENDING", "PROCESSING", "SUCCEEDED", "FAILED"}
\* "CREATED": the payer has not been given the redirect URL yet.
XenditStatus == {"none", "CREATED", "REQUIRES_ACTION", "SUCCEEDED", "FAILED"}

CheckoutSteps == {"claimSlot", "createRow", "findPriors", "priors", "cancelPriors",
                  "createSub", "request", "createIntent", "link", "attach", "reply"}
ReleaseSteps == {"releaseRead", "releaseWrite"}
ReturnSteps  == {"returnRead", "returnWrite"}
Finalizing   == {"activate", "succeed", "rollback"}
AdminSteps   == {"cancelWrite", "recheck", "forceWrite"}
Steps == {"idle"} \cup CheckoutSteps \cup ReleaseSteps \cup ReturnSteps
           \cup Finalizing \cup AdminSteps
\* What called applyBentoSubscriptionFromXendit: a webhook, status poll, auto-heal
\* or schedule request; the loop over earlier attempts; checkout; an admin.
Callers == {"request", "priors", "checkout", "admin"}

\* own: the attempt this request checks out; at: the attempt whose payment or
\* plan it works on; todo: earlier unpaid attempts still to be reconciled.
LocalState ==
  {l \in [step: Steps, caller: Callers, own: Attempts \cup {NoAttempt},
          at: Attempts \cup {NoAttempt}, todo: SUBSET Attempts] :
     /\ \/ l.step \in CheckoutSteps \cup ReleaseSteps
        \/ l.step \in Finalizing /\ l.caller \in {"priors", "checkout"}
        => l.own \in Attempts
     /\ l.step \in Finalizing \cup ReturnSteps \cup AdminSteps => l.at \in Attempts}
Local(s, c, o, a, t) == [step |-> s, caller |-> c, own |-> o, at |-> a, todo |-> t]
Idle == Local("idle", "request", NoAttempt, NoAttempt, {})

TypeOK ==
  /\ redeemedCount \in Int
  /\ redemption \in [Attempts -> RedemptionStatus]
  /\ attached \in [Attempts -> BOOLEAN]
  /\ sub \in [Attempts -> SubStatus]
  /\ linked \in [Attempts -> BOOLEAN]
  /\ intent \in [Attempts -> IntentStatus]
  /\ xendit \in [Attempts -> XenditStatus]
  /\ webhooks \subseteq {"capture", "failure"} \X Attempts
  /\ confirms \subseteq Attempts
  /\ started \subseteq Attempts
  /\ forced \subseteq Attempts
  /\ demoMode \in BOOLEAN
  /\ req \in [Requests -> LocalState]
  /\ mishaps \in 0..MaxMishaps

Init ==
  /\ redeemedCount = 0
  /\ redemption = [a \in Attempts |-> "none"]
  /\ attached = [a \in Attempts |-> FALSE]
  /\ sub = [a \in Attempts |-> "none"]
  /\ linked = [a \in Attempts |-> FALSE]
  /\ intent = [a \in Attempts |-> "none"]
  /\ xendit = [a \in Attempts |-> "none"]
  /\ webhooks = {}
  /\ confirms = {}
  /\ started = {}
  /\ forced = {}
  /\ demoMode \in BOOLEAN
  /\ req = [r \in Requests |-> Idle]
  /\ mishaps = 0

---------------------------------------------------------------------------
(* Local control *)

At(r, s) == req[r].step = s

\* Go on with step s; a request that ends forgets its local state.
Go(r, s) ==
  req' = [req EXCEPT ![r] = IF s = "idle" THEN Idle
                            ELSE Local(s, req[r].caller, req[r].own, req[r].at, req[r].todo)]

Begin(r, s, caller, own, at) ==
  /\ At(r, "idle")
  /\ req' = [req EXCEPT ![r] = Local(s, caller, own, at, {})]

\* Where applyBentoSubscriptionFromXendit returns to, and where an exception out
\* of it leads: the reconcile around it and the status poll swallow the
\* exception, a webhook answers 500, a checkout releases its slot.
OnReturn(r) == CASE req[r].caller = "priors" -> "priors"
                 [] req[r].caller = "admin"  -> "recheck"
                 [] OTHER                    -> "idle"
OnThrow(r) == IF req[r].caller = "checkout" THEN "releaseRead" ELSE OnReturn(r)

\* Mutant: the claim accepts an intent another request is finalizing.
ClaimIntentAgain(r, a, caller) ==
  /\ intent[a] \in {"PENDING", "PROCESSING"}
  /\ intent' = [intent EXCEPT ![a] = "PROCESSING"]
  /\ req' = [req EXCEPT ![r] = Local("activate", caller, req[r].own, a,
                                     req[r].todo \ {a})]

\* The claim at the head of applyBentoSubscriptionFromXendit, updateMany WHERE
\* status = PENDING: it lets one request at a time finalize an intent.
ClaimIntent(r, a, caller) ==
  /\ intent[a] = "PENDING"
  /\ intent' = [intent EXCEPT ![a] = "PROCESSING"]
  /\ req' = [req EXCEPT ![r] = Local("activate", caller, req[r].own, a,
                                     req[r].todo \ {a})]

\* Mutant: reconcile applies a payment request whatever its status.
ReconcilableUnpaid(a) == linked[a] /\ intent[a] = "PENDING" /\ xendit[a] # "none"

\* What reconcileBentoSubscriptionPayment must see before it applies a payment.
Reconcilable(a) == linked[a] /\ intent[a] = "PENDING" /\ xendit[a] = "SUCCEEDED"

---------------------------------------------------------------------------
(* BentoService.checkout, with BentoVoucherService.reserve and
   PaymentsService.createBentoSubscriptionCheckout *)

\* The read-only checks of checkout(), which end at validateForQuote.
StartCheckout(r, a, usesCode) ==
  /\ a \notin started
  /\ usesCode => redeemedCount < RedemptionCap
  /\ Begin(r, IF usesCode THEN "claimSlot" ELSE "findPriors", "checkout", a, NoAttempt)
  /\ started' = started \cup {a}
  /\ UNCHANGED <<promoVars, planVars, payVars, confirms, envVars>>

\* Mutant: the UPDATE relies on the check validateForQuote made before.
ClaimSlotUnchecked(r) ==
  /\ At(r, "claimSlot")
  /\ redeemedCount' = redeemedCount + 1
  /\ Go(r, "createRow")
  /\ UNCHANGED <<redemption, attached, planVars, payVars, confirms, started, envVars>>

\* UPDATE ... SET redeemed_count = redeemed_count + 1 WHERE a slot is free and
\* the code is still in its window (the lapse of the window is not tracked).
ClaimSlot(r) ==
  /\ At(r, "claimSlot")
  /\ \/ /\ redeemedCount < RedemptionCap
        /\ redeemedCount' = redeemedCount + 1
        /\ Go(r, "createRow")
     \/ /\ Go(r, "idle")
        /\ UNCHANGED redeemedCount
  /\ UNCHANGED <<redemption, attached, planVars, payVars, confirms, started, envVars>>

CreateRedemption(r) ==
  /\ At(r, "createRow")
  /\ redemption' = [redemption EXCEPT ![req[r].own] = "RESERVED"]
  /\ Go(r, "findPriors")
  /\ UNCHANGED <<redeemedCount, attached, planVars, payVars, confirms, started, envVars>>

UnpaidOf(a) == {b \in Attempts : PlanOf[b] = PlanOf[a] /\ sub[b] = "PENDING_PAYMENT"}

FindPriors(r) ==
  /\ At(r, "findPriors")
  /\ LET priors == UnpaidOf(req[r].own)
     IN req' = [req EXCEPT ![r] =
                  Local(IF priors = {} THEN "createSub" ELSE "priors", "checkout",
                        req[r].own, NoAttempt, priors)]
  /\ UNCHANGED <<promoVars, planVars, payVars, confirms, started, envVars>>

\* The loop over priorPending: reconcile each, then cancel what is still unpaid.
\* A reconcile that finds no captured payment, or fails, goes on to the next.
NextPrior(r) ==
  /\ At(r, "priors")
  /\ \/ \E b \in req[r].todo :
          /\ Reconcilable(b)
          /\ ClaimIntent(r, b, "priors")
          /\ UNCHANGED mishaps
     \/ \E b \in req[r].todo :
          /\ \/ ~Reconcilable(b) /\ UNCHANGED mishaps
             \/ Reconcilable(b) /\ mishaps < MaxMishaps /\ mishaps' = mishaps + 1
          /\ req' = [req EXCEPT ![r] = Local("priors", "checkout", req[r].own, NoAttempt,
                                             req[r].todo \ {b})]
          /\ UNCHANGED intent
     \/ /\ req[r].todo = {}
        /\ Go(r, "cancelPriors")
        /\ UNCHANGED <<intent, mishaps>>
  /\ UNCHANGED <<promoVars, planVars, xendit, webhooks, confirms, started, demoMode>>

CancelPriors(r) ==
  /\ At(r, "cancelPriors")
  /\ sub' = [b \in Attempts |-> IF b \in UnpaidOf(req[r].own) THEN "CANCELLED" ELSE sub[b]]
  /\ Go(r, "createSub")
  /\ UNCHANGED <<promoVars, linked, forced, payVars, confirms, started, envVars>>

CreateSubscription(r) ==
  /\ At(r, "createSub")
  /\ sub' = [sub EXCEPT ![req[r].own] = "PENDING_PAYMENT"]
  /\ Go(r, "request")
  /\ UNCHANGED <<promoVars, linked, forced, payVars, confirms, started, envVars>>

\* Demo mode settles the redemption at once and asks Xendit for nothing.
DemoCheckout(r) ==
  /\ At(r, "request")
  /\ demoMode
  /\ sub[req[r].own] = "PENDING_PAYMENT"
  /\ redemption' = [redemption EXCEPT ![req[r].own] =
                      IF @ = "RESERVED" THEN "CONFIRMED" ELSE @]
  /\ Go(r, "idle")
  /\ UNCHANGED <<redeemedCount, attached, planVars, payVars, confirms, started, envVars>>

\* Xendit may capture the payment before it answers the request.
RequestPayment(r) ==
  LET a == req[r].own
  IN /\ At(r, "request")
     /\ ~demoMode
     /\ sub[a] = "PENDING_PAYMENT"
     /\ \/ /\ xendit' = [xendit EXCEPT ![a] = "CREATED"]
           /\ UNCHANGED webhooks
        \/ /\ xendit' = [xendit EXCEPT ![a] = "SUCCEEDED"]
           /\ webhooks' = webhooks \cup {<<"capture", a>>}
     /\ Go(r, "createIntent")
     /\ UNCHANGED <<promoVars, planVars, intent, confirms, started, envVars>>

RefuseCheckout(r) ==
  /\ At(r, "request")
  /\ sub[req[r].own] # "PENDING_PAYMENT"
  /\ Go(r, "releaseRead")
  /\ UNCHANGED <<promoVars, planVars, payVars, confirms, started, envVars>>

CreateIntent(r) ==
  /\ At(r, "createIntent")
  /\ intent' = [intent EXCEPT ![req[r].own] = "PENDING"]
  /\ Go(r, "link")
  /\ UNCHANGED <<promoVars, planVars, xendit, webhooks, confirms, started, envVars>>

LinkSubscription(r) ==
  /\ At(r, "link")
  /\ linked' = [linked EXCEPT ![req[r].own] = TRUE]
  /\ Go(r, IF redemption[req[r].own] = "none" THEN "reply" ELSE "attach")
  /\ UNCHANGED <<promoVars, sub, forced, payVars, confirms, started, envVars>>

AttachPaymentIntent(r) ==
  /\ At(r, "attach")
  /\ attached' = [attached EXCEPT ![req[r].own] = TRUE]
  /\ Go(r, "reply")
  /\ UNCHANGED <<redeemedCount, redemption, planVars, payVars, confirms, started, envVars>>

\* An instant capture is applied by the checkout itself; otherwise the payer
\* gets the redirect URL.
Reply(r) ==
  LET a == req[r].own
  IN /\ At(r, "reply")
     /\ \/ /\ xendit[a] = "SUCCEEDED"
           /\ \/ ClaimIntent(r, a, "checkout")
              \/ intent[a] # "PENDING" /\ Go(r, "idle") /\ UNCHANGED intent
           /\ UNCHANGED xendit
        \/ /\ xendit[a] = "CREATED"
           /\ xendit' = [xendit EXCEPT ![a] = "REQUIRES_ACTION"]
           /\ Go(r, "idle")
           /\ UNCHANGED intent
     /\ UNCHANGED <<promoVars, planVars, webhooks, confirms, started, envVars>>

\* releaseRedemption: findFirst, then an update by id and the decrement.
ReleaseRead(r) ==
  /\ At(r, "releaseRead")
  /\ Go(r, IF redemption[req[r].own] = "RESERVED" THEN "releaseWrite" ELSE "idle")
  /\ UNCHANGED <<promoVars, planVars, payVars, confirms, started, envVars>>

ReleaseWrite(r) ==
  /\ At(r, "releaseWrite")
  /\ redemption' = [redemption EXCEPT ![req[r].own] = "RELEASED"]
  /\ redeemedCount' = redeemedCount - 1
  /\ Go(r, "idle")
  /\ UNCHANGED <<attached, planVars, payVars, confirms, started, envVars>>

---------------------------------------------------------------------------
(* applyBentoSubscriptionFromXendit *)

\* Mutant: the plan is found by its payment-intent link, not by the intent's metadata.
ActivateLinked(r) ==
  /\ At(r, "activate")
  /\ sub' = [sub EXCEPT ![req[r].at] =
                IF @ = "PENDING_PAYMENT" /\ linked[req[r].at] THEN "ACTIVE" ELSE @]
  /\ Go(r, "succeed")
  /\ UNCHANGED <<promoVars, linked, forced, payVars, confirms, started, envVars>>

\* Mutant: the plan is activated whatever its status.
ActivateAny(r) ==
  /\ At(r, "activate")
  /\ sub' = [sub EXCEPT ![req[r].at] = "ACTIVE"]
  /\ Go(r, "succeed")
  /\ UNCHANGED <<promoVars, linked, forced, payVars, confirms, started, envVars>>

\* Mutant: the redemption is confirmed before the intent is settled.
ActivateAndConfirm(r) ==
  /\ At(r, "activate")
  /\ sub' = [sub EXCEPT ![req[r].at] = IF @ = "PENDING_PAYMENT" THEN "ACTIVE" ELSE @]
  /\ confirms' = confirms \cup {req[r].at}
  /\ Go(r, "succeed")
  /\ UNCHANGED <<promoVars, linked, forced, payVars, started, envVars>>

\* updateMany of the plan WHERE status = PENDING_PAYMENT; it may find none.
Activate(r) ==
  /\ At(r, "activate")
  /\ sub' = [sub EXCEPT ![req[r].at] = IF @ = "PENDING_PAYMENT" THEN "ACTIVE" ELSE @]
  /\ Go(r, "succeed")
  /\ UNCHANGED <<promoVars, linked, forced, payVars, confirms, started, envVars>>

\* Mutant: the intent gets a status of the plan.
SucceedActive(r) ==
  /\ At(r, "succeed")
  /\ intent' = [intent EXCEPT ![req[r].at] = "ACTIVE"]
  /\ confirms' = confirms \cup {req[r].at}
  /\ Go(r, OnReturn(r))
  /\ UNCHANGED <<promoVars, planVars, xendit, webhooks, started, envVars>>

Succeed(r) ==
  /\ At(r, "succeed")
  /\ intent' = [intent EXCEPT ![req[r].at] = "SUCCEEDED"]
  /\ confirms' = confirms \cup {req[r].at}
  /\ Go(r, OnReturn(r))
  /\ UNCHANGED <<promoVars, planVars, xendit, webhooks, started, envVars>>

\* Mutant: a finalize that failed fails the intent.
RollbackFails(r) ==
  /\ At(r, "rollback")
  /\ intent' = [intent EXCEPT ![req[r].at] = "FAILED"]
  /\ Go(r, OnThrow(r))
  /\ UNCHANGED <<promoVars, planVars, xendit, webhooks, confirms, started, envVars>>

Rollback(r) ==
  /\ At(r, "rollback")
  /\ intent' = [intent EXCEPT ![req[r].at] = "PENDING"]
  /\ Go(r, OnThrow(r))
  /\ UNCHANGED <<promoVars, planVars, xendit, webhooks, confirms, started, envVars>>

\* void confirmByPaymentIntent(intent.id)
ConfirmByPaymentIntent(a) ==
  /\ a \in confirms
  /\ redemption' = [redemption EXCEPT ![a] =
                      IF @ = "RESERVED" /\ attached[a] THEN "CONFIRMED" ELSE @]
  /\ confirms' = confirms \ {a}
  /\ UNCHANGED <<redeemedCount, attached, planVars, payVars, started, envVars, req>>

---------------------------------------------------------------------------
(* The requests that may settle a payment *)

\* reconcileBentoSubscriptionPayment, called by autoHealPendingSubscriptions for a
\* plan still unpaid and by scheduleDeliveries for any plan that is not ACTIVE.
Reconcile(r, a) ==
  /\ At(r, "idle")
  /\ sub[a] # "ACTIVE"
  /\ Reconcilable(a)
  /\ ClaimIntent(r, a, "request")
  /\ UNCHANGED <<promoVars, planVars, xendit, webhooks, confirms, started, envVars>>

\* getMyPaymentIntentStatus does not look at the plan.
PollStatus(r, a) ==
  /\ At(r, "idle")
  /\ xendit[a] = "SUCCEEDED"
  /\ ClaimIntent(r, a, "request")
  /\ UNCHANGED <<promoVars, planVars, xendit, webhooks, confirms, started, envVars>>

\* handleXenditWebhook, payment.capture
CaptureWebhook(r, a) ==
  /\ At(r, "idle")
  /\ <<"capture", a>> \in webhooks
  /\ ClaimIntent(r, a, "request")
  /\ UNCHANGED <<promoVars, planVars, xendit, webhooks, confirms, started, envVars>>

\* Mutant: payment.failure does not look at the status of the intent.
FailureWebhookBlind(r, a) ==
  /\ OverlappingFailures \/ \A q \in Requests : req[q].step \notin ReturnSteps
  /\ <<"failure", a>> \in webhooks
  /\ intent[a] # "none"
  /\ intent' = [intent EXCEPT ![a] = "FAILED"]
  /\ Begin(r, "returnRead", "request", NoAttempt, a)
  /\ UNCHANGED <<promoVars, planVars, xendit, webhooks, confirms, started, envVars>>

\* handleXenditWebhook, payment.failure: updateMany WHERE status <> SUCCEEDED, and
\* then the release, whatever the update found.
FailureWebhook(r, a) ==
  /\ OverlappingFailures \/ \A q \in Requests : req[q].step \notin ReturnSteps
  /\ <<"failure", a>> \in webhooks
  /\ intent[a] # "none"
  /\ intent' = [intent EXCEPT ![a] = IF @ = "SUCCEEDED" THEN @ ELSE "FAILED"]
  /\ Begin(r, "returnRead", "request", NoAttempt, a)
  /\ UNCHANGED <<promoVars, planVars, xendit, webhooks, confirms, started, envVars>>

\* Mutant: the release counts the redemption rows of any status.
ReturnReadAny(r) ==
  /\ At(r, "returnRead")
  /\ Go(r, IF attached[req[r].at] THEN "returnWrite" ELSE "idle")
  /\ UNCHANGED <<promoVars, planVars, payVars, confirms, started, envVars>>

\* releaseByPaymentIntent: findMany, then updateMany and a decrement by the
\* number of rows that were read.
ReturnRead(r) ==
  LET a == req[r].at
  IN /\ At(r, "returnRead")
     /\ Go(r, IF attached[a] /\ redemption[a] = "RESERVED" THEN "returnWrite" ELSE "idle")
     /\ UNCHANGED <<promoVars, planVars, payVars, confirms, started, envVars>>

ReturnWrite(r) ==
  /\ At(r, "returnWrite")
  /\ redemption' = [redemption EXCEPT ![req[r].at] = IF @ = "RESERVED" THEN "RELEASED" ELSE @]
  /\ redeemedCount' = redeemedCount - 1
  /\ Go(r, "idle")
  /\ UNCHANGED <<attached, planVars, payVars, confirms, started, envVars>>

---------------------------------------------------------------------------
(* AdminService on a plan, and the demo flow's completion *)

\* cancelBentoSubscription: a read of the status, then an update by id.
AdminCancel(r, a) ==
  /\ sub[a] = "PENDING_PAYMENT"
  /\ Begin(r, "cancelWrite", "admin", NoAttempt, a)
  /\ UNCHANGED <<promoVars, planVars, payVars, confirms, started, envVars>>

CancelWrite(r) ==
  /\ At(r, "cancelWrite")
  /\ sub' = [sub EXCEPT ![req[r].at] = "CANCELLED"]
  /\ Go(r, "idle")
  /\ UNCHANGED <<promoVars, linked, forced, payVars, confirms, started, envVars>>

\* activateBentoSubscription: reconcile, which may fail, read again, then force.
AdminActivate(r, a) ==
  /\ At(r, "idle")
  /\ sub[a] = "PENDING_PAYMENT"
  /\ \/ /\ Reconcilable(a)
        /\ ClaimIntent(r, a, "admin")
        /\ UNCHANGED mishaps
     \/ /\ Begin(r, "recheck", "admin", NoAttempt, a)
        /\ \/ ~Reconcilable(a) /\ UNCHANGED mishaps
           \/ Reconcilable(a) /\ mishaps < MaxMishaps /\ mishaps' = mishaps + 1
        /\ UNCHANGED intent
  /\ UNCHANGED <<promoVars, planVars, xendit, webhooks, confirms, started, demoMode>>

\* Ends if the plan is ACTIVE now, or if the admin gave no reason to force it.
Recheck(r) ==
  /\ At(r, "recheck")
  /\ \/ sub[req[r].at] # "ACTIVE" /\ Go(r, "forceWrite")
     \/ Go(r, "idle")
  /\ UNCHANGED <<promoVars, planVars, payVars, confirms, started, envVars>>

ForceWrite(r) ==
  /\ At(r, "forceWrite")
  /\ sub' = [sub EXCEPT ![req[r].at] = "ACTIVE"]
  /\ forced' = forced \cup {req[r].at}
  /\ Go(r, "idle")
  /\ UNCHANGED <<promoVars, linked, payVars, confirms, started, envVars>>

\* markBentoSubscriptionRefunded accepts any status but REFUNDED.
AdminRefund(a) ==
  /\ sub[a] \notin {"none", "REFUNDED"}
  /\ sub' = [sub EXCEPT ![a] = "REFUNDED"]
  /\ UNCHANGED <<promoVars, linked, forced, payVars, confirms, started, envVars, req>>

\* completeDemoBentoSubscription
CompleteDemo(r, a) ==
  /\ demoMode
  /\ sub[a] = "PENDING_PAYMENT"
  /\ Begin(r, "forceWrite", "request", NoAttempt, a)
  /\ UNCHANGED <<promoVars, planVars, payVars, confirms, started, envVars>>

---------------------------------------------------------------------------
(* Xendit and the payer *)

Pay(a) ==
  /\ \/ xendit[a] = "REQUIRES_ACTION"
     \/ xendit[a] = "FAILED" /\ CaptureAfterFailure
  /\ xendit' = [xendit EXCEPT ![a] = "SUCCEEDED"]
  /\ webhooks' = webhooks \cup {<<"capture", a>>}
  /\ UNCHANGED <<promoVars, planVars, intent, confirms, started, envVars, req>>

PaymentFails(a) ==
  /\ xendit[a] = "REQUIRES_ACTION"
  /\ xendit' = [xendit EXCEPT ![a] = "FAILED"]
  /\ webhooks' = webhooks \cup {<<"failure", a>>}
  /\ UNCHANGED <<promoVars, planVars, intent, confirms, started, envVars, req>>

---------------------------------------------------------------------------
(* Failing statements and dying requests *)

\* Where the exception of a failed statement leads.  Up to createSub the code of
\* checkout() is outside its try.
OnError(r) ==
  LET s == req[r].step
  IN CASE s \in {"createSub", "request", "createIntent", "link", "attach", "reply"} ->
            "releaseRead"
       [] s \in {"activate", "succeed"} -> "rollback"
       [] s = "rollback"                -> OnThrow(r)
       [] OTHER                         -> "idle"

\* The fault of a reconcile is part of NextPrior and AdminActivate; a reply runs a
\* statement only if the payment was captured at once.
Fault(r) ==
  /\ mishaps < MaxMishaps
  /\ req[r].step \notin {"idle", "priors"}
  /\ At(r, "reply") => xendit[req[r].own] = "SUCCEEDED"
  /\ mishaps' = mishaps + 1
  /\ Go(r, OnError(r))
  /\ UNCHANGED <<promoVars, planVars, payVars, confirms, started, demoMode>>

Crash(r) ==
  /\ mishaps < MaxMishaps
  /\ ~At(r, "idle")
  /\ mishaps' = mishaps + 1
  /\ Go(r, "idle")
  /\ UNCHANGED <<promoVars, planVars, payVars, confirms, started, demoMode>>

\* A confirmation nobody awaits dies with its server, or fails unnoticed.
LoseConfirm(a) ==
  /\ mishaps < MaxMishaps
  /\ a \in confirms
  /\ mishaps' = mishaps + 1
  /\ confirms' = confirms \ {a}
  /\ UNCHANGED <<promoVars, planVars, payVars, started, demoMode, req>>

---------------------------------------------------------------------------
Checkout(r) ==
  \/ ClaimSlot(r) \/ CreateRedemption(r) \/ FindPriors(r) \/ NextPrior(r)
  \/ CancelPriors(r) \/ CreateSubscription(r) \/ DemoCheckout(r) \/ RequestPayment(r)
  \/ RefuseCheckout(r) \/ CreateIntent(r) \/ LinkSubscription(r)
  \/ AttachPaymentIntent(r) \/ Reply(r) \/ ReleaseRead(r) \/ ReleaseWrite(r)

Settle(r) ==
  \/ Activate(r) \/ Succeed(r) \/ Rollback(r) \/ ReturnRead(r) \/ ReturnWrite(r)
  \/ CancelWrite(r) \/ Recheck(r) \/ ForceWrite(r)

Arrive(r, a) ==
  \/ \E usesCode \in BOOLEAN : StartCheckout(r, a, usesCode)
  \/ Reconcile(r, a) \/ PollStatus(r, a) \/ CaptureWebhook(r, a) \/ FailureWebhook(r, a)
  \/ AdminCancel(r, a) \/ AdminActivate(r, a) \/ CompleteDemo(r, a)

Next ==
  \/ \E r \in Requests : Checkout(r) \/ Settle(r) \/ Fault(r) \/ Crash(r)
  \/ \E r \in Requests, a \in Attempts : Arrive(r, a)
  \/ \E a \in Attempts : \/ ConfirmByPaymentIntent(a) \/ LoseConfirm(a)
                         \/ AdminRefund(a) \/ Pay(a) \/ PaymentFails(a)

Spec == Init /\ [][Next]_vars

\* A request in flight goes on, and a confirmation started is carried out.  A
\* member whose plan is unpaid keeps opening the bento screen, which runs
\* autoHealPendingSubscriptions; webhooks and status polls may never come.
AutoHeal(a) == sub[a] = "PENDING_PAYMENT" /\ \E r \in Requests : Reconcile(r, a)
Fairness ==
  /\ \A r \in Requests : WF_vars(Checkout(r) \/ Settle(r))
  /\ \A a \in Attempts : /\ WF_vars(ConfirmByPaymentIntent(a))
                         /\ SF_vars(AutoHeal(a))
FairSpec == Spec /\ Fairness

---------------------------------------------------------------------------
(* Properties *)

Finalizer(r, a) == req[r].step \in Finalizing /\ req[r].at = a

\* Webhooks, polls, reconciles and checkouts that find the same captured payment
\* at the same time finalize it one at a time, also after failures
\* (the PENDING -> PROCESSING claim of applyBentoSubscriptionFromXendit).
SingleFinalizer ==
  \A a \in Attempts : \A q, r \in Requests : Finalizer(q, a) /\ Finalizer(r, a) => q = r

\* No interleaving activates a plan whose payment Xendit has not captured, unless
\* an admin (or the demo flow) forced it.
ActiveOnlyIfPaid ==
  \A a \in Attempts : sub[a] = "ACTIVE" => xendit[a] = "SUCCEEDED" \/ a \in forced

\* A payment recorded as SUCCEEDED never leaves its plan waiting for payment: the
\* plan is written first, and nothing makes it PENDING_PAYMENT again.
SucceededMeansActivated ==
  \A a \in Attempts : intent[a] = "SUCCEEDED" => sub[a] # "PENDING_PAYMENT"

\* The books of plans and of payments agree, whoever finds a payment, and whatever fails in between:
\* no plan is active before its payment, and none waits after it (applyBentoSubscriptionFromXendit).
PlanMatchesPayment == ActiveOnlyIfPaid /\ SucceededMeansActivated

\* A promo redemption is final only once its payment is, whatever the order in
\* which confirmation, failure notice and rollback run.
ConfirmedOnlyIfPaid ==
  \A a \in Attempts : redemption[a] = "CONFIRMED" => intent[a] = "SUCCEEDED" \/ demoMode

\* A settled payment stays settled: late failure notices and rollbacks of other
\* requests do not undo it.
SettledIsFinal ==
  [][\A a \in Attempts : intent[a] = "SUCCEEDED" => intent'[a] = "SUCCEEDED"]_vars

\* A plan that was cancelled or refunded is not brought back by a payment that is
\* applied late; only an admin who forces it does.
PaymentNeverRevives ==
  [][\A a \in Attempts : sub[a] \in {"CANCELLED", "REFUNDED"} /\ sub'[a] = "ACTIVE"
                          => a \in forced']_vars

\* What is settled stays so, in the books of payments and in those of plans, however late, often and
\* out of order notices, retries and administrators come (handleXenditWebhook).
FinalStays == SettledIsFinal /\ PaymentNeverRevives

\* Every redemption in use, and every claim whose row is not written yet, is
\* counted, and the count is within the cap: concurrent checkouts cannot oversell.
Holders == {a \in Attempts : redemption[a] \in {"RESERVED", "CONFIRMED"}}
Claimants == {r \in Requests : At(r, "createRow")}
SlotsBacked ==
  /\ Cardinality(Holders) + Cardinality(Claimants) <= redeemedCount
  /\ redeemedCount <= RedemptionCap

\* The redemption rows implement the promise of a promo code.
Slots == INSTANCE PromoSlots WITH holders <- Holders
SlotsImplemented == Slots!Spec

\* A request died, or its rollback failed, between the claim of the intent and its
\* settlement: nothing releases the claim.
Orphaned(a) == intent[a] = "PROCESSING" /\ \A r \in Requests : ~Finalizer(r, a)

\* A captured payment whose webhook never comes is applied when the member opens
\* the bento screen, unless the intent was orphaned.
PaidPlanSettles ==
  \A a \in Attempts :
    xendit[a] = "SUCCEEDED" /\ linked[a] /\ sub[a] = "PENDING_PAYMENT"
      ~> sub[a] # "PENDING_PAYMENT" \/ Orphaned(a)

\* The comment of autoHealPendingSubscriptions: a genuinely paid plan whose webhook
\* was missed becomes ACTIVE when the member opens the bento screen.
PaidPlanHeals ==
  \A a \in Attempts :
    xendit[a] = "SUCCEEDED" /\ linked[a] /\ sub[a] = "PENDING_PAYMENT"
      ~> sub[a] # "PENDING_PAYMENT"

\* The comment of checkout(): the cancellation of earlier attempts never hits one
\* that was actually paid, once its own checkout has replied.
NeverCancelsPaid ==
  [][\A r \in Requests : CancelPriors(r) =>
       \A b \in UnpaidOf(req[r].own) :
         xendit[b] = "SUCCEEDED" => \E q \in Requests : req[q].own = b]_vars

\* The comments of reserve() and releaseByPaymentIntent(): no oversell, and a
\* release that is repeated returns the slot once.
NeverOversold == Cardinality(Holders) <= RedemptionCap

---------------------------------------------------------------------------
(* Why the claim works: the inductive invariant behind the properties above *)

\* The checkout has not created its intent yet, or not even asked Xendit; a
\* request that finalizes an earlier attempt's payment goes back to the loop.
BeforeRequest == {"claimSlot", "createRow", "findPriors", "priors", "cancelPriors",
                  "createSub", "request"}
InLoop(r) == req[r].step \in Finalizing /\ req[r].caller = "priors"
PreIntent(r) == req[r].step \in BeforeRequest \cup {"createIntent"} \/ InLoop(r)
PreRequest(r) == req[r].step \in BeforeRequest \/ InLoop(r)

\* An attempt is checked out by one request at most.
OneOwner ==
  /\ \A r \in Requests : At(r, "idle") => req[r].own = NoAttempt
  /\ \A r \in Requests : req[r].own \in started \cup {NoAttempt}
  /\ \A q, r \in Requests : req[q].own = req[r].own /\ req[q].own # NoAttempt => q = r

\* Nobody else touches an intent or a payment before its checkout creates it.
FreshUntilCreated ==
  /\ \A a \in Attempts \ started : intent[a] = "none" /\ xendit[a] = "none"
  /\ \A r \in Requests : PreIntent(r) => intent[req[r].own] = "none"
  /\ \A r \in Requests : PreRequest(r) => xendit[req[r].own] = "none"

\* While a request finalizes an intent, nobody can claim it again or settle it.
ClaimHeld ==
  \A a \in Attempts : \A r \in Requests :
    Finalizer(r, a) => intent[a] \in {"PROCESSING", "FAILED"}

\* A notice of capture is true, and a claim is taken only on a captured payment.
ClaimPaid ==
  /\ \A a \in Attempts : <<"capture", a>> \in webhooks => xendit[a] = "SUCCEEDED"
  /\ \A a \in Attempts : \A r \in Requests : Finalizer(r, a) => xendit[a] = "SUCCEEDED"

\* Webhooks, polls, reconciles, admins and checkouts together keep all of this.
ClaimInv ==
  OneOwner /\ FreshUntilCreated /\ ClaimHeld /\ SingleFinalizer /\ ClaimPaid
    /\ ActiveOnlyIfPaid
============================================================================
