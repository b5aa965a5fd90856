# moja-member-app: a TLA+ verification project

The repository is the backend of a shop's member programme (NestJS, Prisma on
PostgreSQL, in `src/`), with four front ends. Members sign in by OTP, hold a stored
wallet and loyalty points, order from the shop with vouchers, and buy *bento plans*
that are scheduled, cooked and collected day by day. Payments go through Xendit, POS
receipts come from SalesPlay.

Almost everything that can go wrong here is a matter of order. The server handles
many requests at once; nearly every operation is a *sequence* of database statements,
each in its own READ COMMITTED transaction; Xendit's notices arrive late, twice or
never; fire-and-forget promises die with the process. The tests of the repository
exercise pure helpers and never two requests at once. That is what is modelled.

## 1. Inventory

Paths are relative to `src/` of the repository.

| Component | State | Operations | Hard behaviour | What makes it correct |
|---|---|---|---|---|
| **payments** (`payments/payments.service.ts`) | `PaymentIntent.status` (PENDING, PROCESSING, SUCCEEDED, FAILED), its purpose and metadata | create a checkout (plan, shop order, top-up), Xendit webhook, status poll, reconcile, apply a capture | the same capture found by several requests; a crash between claim and settlement; late or repeated notices | a payment is applied once, only if captured, and eventually |
| **bento** (`bento/bento.service.ts`) | `BentoSubscription.status`, `BentoDeliveryDay` rows | checkout, auto-heal, schedule, newcomer check, capacity checks | cancellation of earlier attempts racing their payment; check-then-write on capacity | a paid plan is not cancelled; capacity is respected |
| **bento-vouchers** (`bento-vouchers/bento-voucher.service.ts`) | `redeemedCount`, `BentoDiscountRedemption.status` | reserve, attach, confirm, release, admin edit | counter and rows in separate statements | the counter covers the rows in use and never passes the cap |
| **admin** (`admin/admin.service.ts`) | none of its own | activate, cancel, refund a plan; close operations; reverse wallet and loyalty entries; redeem vouchers in store | reads a status and later writes by id | no admin operation undoes or invents a payment |
| **approvals** (`admin/approvals.service.ts`) | `ApprovalRequest.status` | create, approve, reject a wallet reversal | approve racing reject | APPROVED means reversed, and once |
| **wallet**, **loyalty** | cached balance and ledger rows | append, reverse, freeze | read-modify-write of the balance | balance = sum of entries; one reversal per entry |
| **customers** (`customers/customers.service.ts`) | members, orders, pickup code, rewards | sign-up, walk-in, profile, finalize an order, birthday and referral gifts | finalization from webhook and poll; everybody assigns pickup codes | points and gifts once; a pickup code is one member's, for good |
| **rewards-workflow** | `Voucher.status`, lock token and expiry, gift codes | lock, finalize, release, revoke, redeem a gift code | lock expiry during a payment | a voucher pays for one order; gift limit holds |
| **delivery schedules** (`bento/bento.service.ts`, `bento/*.util.ts`) | `BentoDeliveryDay` rows, `operationsEndDate` | schedule by member or staff, close operations, save settings | read, check and rewrite of a plan's rows in separate statements; the clock; closing with requests in flight | credits, capacity and end of operations hold; a pickup is neither lost nor handed out twice |
| **ops-queue** | today's deliveries | collect a pickup, complete an order | racing a schedule change or closing | a delivery is collected once |
| **auth** | OTP challenge, PIN | request, verify, set a PIN | double use of a code; a phone that becomes a member meanwhile | a sign-up makes one member |
| **mailer** (`mailer/mailer.service.ts`) | campaign and recipient status, vouchers issued | edit, schedule, cancel, delete, dispatch | several instances; an administrator who writes over a claim; a stop while SENDING | one mail and one voucher per member, a campaign that is due ends |
| **salesplay** (`salesplay/*.ts`) | receipts, credit notes, `lastPulledAt`, `running` | webhook, nightly reconcile, manual pull | all three see one receipt; crash between receipt and points; a page that is not answered | points once per receipt; nothing falls out of the reconcile's window |
| **shop-catalog** (`shop-catalog/*.ts`, its form in `ui/admin-dashboard.controller.ts`) | a JSON file of products, the files of the layout and of the home page, uploaded photos | create, edit, reset, delete, attach or remove a photo, pick lists, sync from moja-sites | a form stays open while others edit, upload or sync; the record and the photo are written separately | what was edited survives a sync; what is shown exists |
| **bento-web**, its calendar (`bento/CalendarScheduler.tsx`) | a draft of all the member's plans, capacity and rules as fetched | open, fetch, change a day, a range or all, save | the draft is filled in before the rules are there, and stays open while everything else goes on; one request per plan | what it says is saved is saved; what it offers is accepted |
| **client-web**, its checkout (`client-web/src/shop/ShopFlow.tsx`, `App.tsx`, `payments/pendingPayment.ts`) | the cart, the order being placed, a payment remembered in localStorage, a poll | place an order, go to the payment page and come back, ask how the payment ended, say so | the page may go or stay when a link opens, the way back may bring the result or not, replies get lost, the session ends | a basket is paid once; the member is told once how a payment ended |
| segmentation, employees, home-ads, master-data, metrics, audit, import-export, notifications, ui, health, config, the rest of the front ends | rows and files of their own | CRUD, reports, rendering | none that crosses requests | not modelled |

How they interact: checkout (bento) calls reserve (bento-vouchers), then
createBentoSubscriptionCheckout (payments), which calls Xendit. Webhook, poll,
auto-heal, the schedule request, the next checkout of the same package and the
admin's *activate* all end in `applyBentoSubscriptionFromXendit`, which writes the plan
and then, without waiting, the promo redemption. Failure notices return the promo slot.
They share only database rows: `PaymentIntent`, `BentoSubscription`, the promo code and
its redemptions. Points and money are appended by everybody (admins, orders, receipts,
campaigns, gifts, top-ups) through `LoyaltyService` and `WalletService`; what those
requests share is the row of the account. A shop checkout (payments) locks a voucher in
rewards-workflow, creates the order in customers and asks Xendit; webhook, poll or the
checkout itself then run `applyShopOrderFromXendit`, which places the order, awards points,
rewards the referrer (customers, loyalty) and takes the voucher or the points, while the
till, an admin or a failure notice may write the same voucher. An ACTIVE plan is scheduled
(bento), collected (ops-queue), cut off by a closing (admin) or refunded; these share the rows
of its pickups, and bento and admin the settings. The member schedules in the calendar of
bento-web, which treats all plans as one and sends a request for each. A shop order is paid
through client-web, which loses all but the payment it remembers when the browser goes to Xendit,
and learns by the address, or by asking the server, how it ended. Mailer and SalesPlay run on timers of their
own and meet only administrators, webhooks and other instances of themselves. The catalogue meets
administrators and moja-sites; carts read it, and payments takes what they hold.

The hazards, at their lines, are in `PROJECT.json`; those no property covers say why.

## 2. Modules

| Module | What it is |
|---|---|
| `BentoCheckout` | the sale of a bento plan: checkout, promo slot, payment, settlement, admin operations, Xendit, failures |
| `PromoSlots` | abstract specification: what a promo code promises |
| `MCBentoCheckout` | instance for TLC |
| `MCBentoRaces` | extends it for the races of the whole sale; a behaviour is about the promo code or about the payment |
| `MemberApp` | the member app at the checkout of a shop order: cart, payment page, remembered payment, poll |
| `MCPayment` | instance of `BentoCheckout` and `MemberApp` for TLC, for what must happen in the end after a payment; a behaviour is about the server or about the app |
| `Ledger` | a member's account, stored wallet or points: appends, reversals, backfills, approvals, top-ups |
| `LedgerProofs` | types, the chain of balances, corrections once, what is finished is in the book, proved |
| `ShopOrder` | the sale of a shop order: promotion, voucher lock, payment, finalization, points, referral, till |
| `MCMoney` | extends `ShopOrder` and `Ledger` for TLC; a behaviour is about shop orders or about a member's account |
| `Kitchen` | what server and browser both know: date, hour, end of operations, the dates that are closed, the first day that can be booked, the lock |
| `BentoSchedule` | the pickups of paid plans: scheduling, capacity, collection, closing, settings, refund, the clock |
| `Calendar` | the calendar of bento-web in front of it: draft, pool of credits, saving plan by plan |
| `MCBentoSchedule` | extends `BentoSchedule` and `Calendar` for TLC; they share `Kitchen`, and a behaviour is about one of them |
| `Mailer` | e-mail campaigns: administrators and the dispatchers of several instances |
| `SalesPlay` | receipts and credit notes of the till: webhook, nightly reconcile, manual pull, points |
| `SignUp` | how a phone becomes a member: OTP, PIN, walk-ins, pickup code, birthday gift |
| `Catalog` | the products of the shop: forms of administrators, photos, lists, sync from moja-sites |
| `Mishaps` | the count of what goes wrong, which `Mailer`, `SalesPlay` and `SignUp` share |
| `MCBackground` | extends `Mailer`, `SalesPlay`, `SignUp` and `Catalog` for TLC; they share only the count of mishaps, and a behaviour is about one of them |
| `BentoCheckoutProofs` | types, one finalizer, settlement, the promo slots and the refinement of `PromoSlots`, proved |
| `ShopOrderProofs` | types, one owner per order, points and referral once, settlement, the voucher, proved |
| `BentoScheduleProofs` | types, delivered days, hand-outs, the end of operations, the limits of plan and day, proved; the types of `MCBentoSchedule` |
| `CalendarProofs` | types, a saved draft is in the rows, what is offered is accepted, proved |
| `BackgroundProofs` | campaigns, receipts and sign-ups, each with its types, and all of `MCBackground`, proved |
| `CatalogProofs` | types, edits survive a sync, photos and lists, proved |
| `MemberAppProofs` | types, a basket paid once, a payment told once, proved |

### BentoCheckout and the code

An *attempt* is one call of `checkout()`: it makes at most one redemption row, plan,
Xendit payment request and intent, so all of these are functions of the attempt. A
*request* is one backend request in flight; its local state is the step it is at, the
attempt it checks out (`own`), the attempt whose payment it works on (`at`), the
earlier attempts still to reconcile (`todo`) and who called
`applyBentoSubscriptionFromXendit` (`caller`), which says where it returns.

| Variable | Code |
|---|---|
| `redeemedCount` | `bento_discount_vouchers.redeemed_count` |
| `redemption`, `attached` | `BentoDiscountRedemption.status`, `.paymentIntentId` set |
| `sub`, `linked` | `BentoSubscription.status`, `.paymentIntentId` set |
| `intent` | `PaymentIntent.status` |
| `xendit`, `webhooks` | the payment request at Xendit, the notices it has sent (a set that only grows: a notice may be delivered late, any number of times, or never) |
| `confirms` | `void confirmByPaymentIntent(...)` calls that nobody awaits |
| `demoMode` | `PAYMENTS_DEMO_MODE` |
| `started`, `forced` | history: which attempts began, which plans were made ACTIVE by hand |

One action is one statement or one call to Xendit, in the order of the code, e.g.
`StartCheckout -> ClaimSlot -> CreateRedemption -> FindPriors -> NextPrior* ->
CancelPriors -> CreateSubscription -> RequestPayment -> CreateIntent ->
LinkSubscription -> AttachPaymentIntent -> Reply`, and `ClaimIntent -> Activate ->
Succeed` (or `Rollback`) inside whatever request applies the payment. `map` in
`PROJECT.json` gives the lines of each.

`Fault` is a statement that throws: `OnError` sends the request where the exception
goes (nowhere before the `try` of checkout, to the release of the promo code inside it,
to the rollback inside the finalization). `Crash` is a request that dies.
`LoseConfirm` is a confirmation that fails unnoticed.

Abstractions, and why they lose nothing the properties speak of:

- The `sets` copies of a plan in one checkout are written and activated by the same
  statements, so they are one plan.
- Read-only checks of `checkout()` (package, quote, newcomer, capacity) may refuse any
  time: a request simply does not start. Amounts do not occur.
- A request's start is merged with its first statement, and a read with the conditional
  update that checks the same thing again (`updateMany WHERE status = ...`). Every other
  read is a step of its own, also inside `$transaction`, which at READ COMMITTED
  does not protect it from other writers.
- A promo code is one code with a fixed cap; the lapse of its window is the branch
  of `ClaimSlot` that finds no slot.
- The throttle, the 72-hour window and the limit of auto-heal are left out: they only
  make `Reconcile` rarer.
- `StartCheckout` needs an idle request, so at most `Requests` requests overlap.

### Ledger and the code

Its names differ from those of `ShopOrder`, since `MCMoney` extends both.

| Variable | Code |
|---|---|
| `account` | which account the behaviour is about: the stored wallet or the points; they share no row |
| `cached`, `entries` | `balance_cents` or `points_cached`; `stored_wallet_ledger_entries` or `loyalty_ledger_entries` |
| `owner` | the transaction that holds the lock of the account's row |
| `frozen` | `is_frozen` of the wallet |
| `topUp`, `payment`, `notices` | the intent of a top-up, its payment at Xendit, the notices of failure |
| `approval`, `target` | `ApprovalRequest.status`, and the entry in its payload |
| `unsettled` | history: top-ups whose credit was committed and whose intent could not be set to SUCCEEDED |

Wallet and points append in the same way, so one module stands for both services: a
transaction upserts the row of the account (`Open`), for a reversal or a backfill looks
for duplicates (`Check`), reads the balance (`Read`), and writes the entry and the new
balance (`Commit`). Nothing of it is visible to others before the commit, so the writes
are one step. `Abort` is the exception that rolls all of it back. The entries of the
points do not store the balance before; `before` is then only what the transaction read.

Does the upsert lock the row? Its `update` is empty; Prisma 5 may send it as one
`INSERT ... ON CONFLICT DO UPDATE`, which locks, or as a read followed by an insert if
nothing is found, which does not. The code depends on the answer, so `upsertLocks` is chosen
freely at the start, and each property says what it needs. Points reversals and
backfills do not depend on it: `lockLoyaltyWallet` adds a `SELECT ... FOR UPDATE`. The
update at the commit waits for the lock in any case.

- An approval reads the status of its request, runs the reversal, and then writes
  APPROVED by id; a rejection reads and then writes by id. Both may have read PENDING.
- A top-up is claimed PENDING -> PROCESSING, credited, and set to SUCCEEDED; an exception
  puts it back to PENDING (`RestoreTopUp`), a crash does not.
- A backfill without `confirmDuplicate` also refuses an amount backfilled in the last
  day: the second disjunct of `Check` lets any backfill be refused.
- Adjustments, orders, receipts, bonuses and gifts are `AppendEntry`. What makes *their
  callers* award once is in `ShopOrder`, `SalesPlay` and `SignUp`.
- Not modelled: a commit whose acknowledgement is lost; the lifetime totals of the
  wallet, which are increments that only reports read.

### ShopOrder and the code

An *order* is one call of `createShopOrderCheckout`. All orders are of one member, and those
with a promotion want the same one: `promotion` says whether it is a campaign voucher
(`Voucher`, locked at checkout), a catalogue voucher (`CustomerVoucher`, only read at
checkout) or a reward that costs points.

| Variable | Code |
|---|---|
| `order` | `CustomerOrder.status` |
| `uses`, `discounted`, `free` | the promotion in the metadata of the order's payment; orders whose total it reduced, or reduced to 0 |
| `voucher`, `lockToken`, `lapsed`, `redemption` | `Voucher.status`, whose `lockToken` it has, whether `lockExpiresAt` has passed, `VoucherRedemption.status` |
| `points` | balance of the member's points |
| `intent`, `xendit`, `failures` | as above |
| `holder` | the finalization that has updated the row of the stored wallet and not yet committed |
| `awarded`, `spent`, `referrals`, `storeUses`, `retried` | history: how often an order's points were awarded, its reward was charged, the referrer was rewarded, the voucher was redeemed at the till; orders whose payment could not be set to SUCCEEDED after the promotion |

A paid order goes `LockVoucher -> Discount -> CreateOrder -> RequestPayment -> CreateIntent
-> Reply`, and then, in a webhook, a poll or the checkout itself, `Claim -> ReadOrder -> Place
-> Referral -> Award -> Promote -> Use -> Succeed` (or `Rollback`). `caller` says where it
comes from: orders in demo mode, with nothing left to pay, or finished by the demo's button
run parts of the same sequence without a claim.

- The transaction of `finalizeShopOrderAfterPayment` is several steps because its reads see
  what others have committed in between: `ReadOrder` locks nothing; from `Place` on the row
  of the stored wallet is locked (the increment of `lifetimeSpentCents`), which serializes
  the finalizations of a member. Its writes appear at `Award`, its commit.
- Points are added and taken in one step; what can go wrong inside an append is in `Ledger`.
- The conditional updates of voucher and intent are one step with the read before them.
- What the payer needs is the link to pay, so `Pay` waits for `Reply`, unless Xendit
  captures before it answers (a saved card).
- `Lapse` is the 15 minutes of a lock passing. Expiry of the voucher itself, caps and the
  conditions of a campaign only refuse a checkout.
- Not modelled: the interest tag, the receipt and the push to SalesPlay, which nobody waits for.

### BentoSchedule and the code

A delivery row is found by its plan and its date (`row`); what a request holds in its hands is
the *id* of a row, and `scheduleDeliveries` deletes rows and creates them again, with new ids.
So `ids` of a request are the rows it read that still exist: when a row is deleted it leaves the
`ids` of everybody else, and an update by id no longer hits it. `read` and `seen` stay as they
were read. That is the difference the races here turn on.

| Variable | Code |
|---|---|
| `row`, `plan` | `BentoDeliveryDay` by plan and date, `BentoSubscription.status` |
| `opsEnd`, `closedOn` | `operationsEndDate` of the settings; history: the date of the last closing |
| `today`, `clock` | the date in Malaysia; the hour: before the 17:00 lock, between lock and cutoff hour (18:00), after it |
| `handed` | history: how often the counter was told to hand out a pickup |
| `req` | requests in flight: the schedule wanted, what was read, dates still to be checked |
| `surprise` | the one sort of thing that goes wrong in a behaviour |

A member's request goes `ScheduleRead -> CheckCapacity (a date at a time) -> DeleteScheduled ->
CreateRows`; `Decide` is the synchronous code between the last capacity query and the
transaction (locked days unchanged, which rows to keep). Staff skip dates and capacity
(`admin`), and with `overrideLocked` the lock too (`unlock`). `DeleteResumed` is a `deleteMany`
that waited for another transaction's row locks and then looks at the rows again, as PostgreSQL
does at READ COMMITTED.

- Each property says which surprises break it; TLC found every one of these exceptions, and
  the mutants show that the rest is really checked. With `none` two requests of different
  sorts still overlap: a schedule and a collection, for example.
- The server's cache of the settings (10 s) only delays when a closing is seen: it is part of
  what `closing` excepts. A rollback or crash before the commit changes nothing.
- A request in flight sees the hour change at most once.
- Packs are counted as a set, a pair of day (or plan) and number for each pack (`Packs`): its size is
  the sum that `sumScheduledPacks` computes, and sets can be proved about.
- Left out: `startDate` and `endDate` of the plan, which nothing here reads; the split of a
  row into lunch and dinner, which share the credits; COMPLETED, which nothing assigns.
- Nobody schedules day 0 of the model.

### Calendar and the code

| Variable | Code |
|---|---|
| `credits`, `newest` | `lunchCredits + dinnerCredits` of each plan of the member; the plans there are, the newest first as `listMySubscriptions` gives them |
| `pickups` | `BentoDeliveryDay` by plan and date, with lunches and dinners |
| `others` | packs that other members have booked |
| `opsEnd`, `today`, `clock` | those of `Kitchen`, as in `BentoSchedule` |
| `tab` | the component's state: `plans` it was given, `draft` (`selections`), `from` where the window begins, the `rules` (whether they are `known`, and which days they `shut`), the `free` days and whether they were `counted`, what it is doing, the plan whose turn it is; history: `filled` in by itself, the days of the draft that the rules closed when they came (`rules.early`), `stale`, `touched` by others since the save began |

A request to the server is one step (`PersistSchedule` with what the server checks, `Accepted`, and
writes, `Rescheduled`); its statements are in `BentoSchedule`, where it meets others. Here it is the
browser that takes several steps: between loading, drafting and each of the requests anything may
happen on the server.

`OpenCalendar` is the mount of the component. A member without pickups gets a draft filled in there
and then, in the initial value of the state, and all that is known of the rules at that moment are
`DEFAULT_SCHEDULE_RULES`: no end of operations, no closed dates (and closed Sundays, which are no
days of the model). `LoadRules` and `LoadCapacity` are
the answers of the two fetches. Each may come at any time or never (a fetch that fails leaves the
defaults), and neither changes the draft. So if operations are closed the draft holds days that the
calendar itself, once it knows the rules, would not let the member tap, and the server refuses to save
it. `AutoFillIsEligible` says that this does not happen; the run `calendar_autofill` shows that it
does.

`OfferedIsAccepted` is about the step that refuses a request, at which `Excused` says what may be the
reason. (Of the states after a refusal it is not true: the counter may have made room meanwhile.)
What its exceptions stand for, as TLC showed:

- A draft is filled in before the rules are there, and may hold days that they close
  (`FilledTooEarly`, the state just described). After the first change by the member the draft still
  has those days, so this excuses changed drafts too.
- A change of several days compares the smallest count with the pool, not the sum, so it can take
  more meals than there are, although "all limits below are on the combined total".
- Lunches and dinners are dealt in turn, each from the first plan on, whatever a plan has left. An
  odd count of both, plans of different sizes or fewer meals than plans (an empty request) are
  refused, and past pickups of an old plan move to the newest one, which cannot have them.
- The "+" allows what is in the draft and what remained at load, so a day that is not full is not
  limited any more; what is filled in by itself does not look at the kitchen's room at all.
- If a request is refused halfway, the plans before it are saved. The member may try again.

And in `SavedIsDrafted`: a date that operations skipped and the member books again, once they are
extended, is answered with success but not created (the row that is there stays SKIPPED). What the
member changes while a save is on its way is gone when the calendar loads again.

- `StaffSchedule` is a change of one day's lunch.
- The window is computed when the calendar opens, with the fixed lead time; `IsDateClosed` covers the
  end of operations and the closed dates and weekdays (`ClosedDays`, a constant: none in
  `bento_schedule`, one in `calendar_autofill`, any in the proofs).
- Left out: giving up an edit, and the package of a single meal.

### Mailer and the code

One action is one statement of `runCampaign` or one call of the mail service. A statement that
throws ends the tick, and its `finally` lets the next begin: for the database that is the same
as a restart of the process, so `Stop` is both. The audience is read as any set of members,
which covers those who join or unsubscribe; `blank` are members with an address of blanks. An
administrator's operation is a read of the status and a later write by id, so it may write over
a campaign that has been claimed meanwhile; `overtaken` remembers such campaigns.

- A campaign left SENDING is never picked up again (`Abandoned`), although the comment in
  `runCampaign` says that a crash mid-run resumes where it left off. `CountPrior` and the look
  for an earlier voucher matter only if somebody schedules such a campaign again by writing over
  it; the model has that.
- The claim does not look at `scheduledAt` again: a campaign moved to a later time between
  `FindDue` and `Claim` is sent at once.
- An edit changes whether there is a voucher; texts do not occur.

### SalesPlay and the code

`Webhook`, the nightly reconcile and a pull somebody starts all end in `ingestReceipt`: look the
record up, create it, award the points, three statements. `item` is the record a worker is at.
The pulls take whatever the pages hold, the receipts first, then the credit notes; `running` is
the flag that keeps a second pull out, resource by resource.

- Time is counted in halves of a day because `startOfTodayMyt` is the midnight of UTC of
  Malaysia's date, 8:00 in Malaysia: between 0:00 and 8:00 the reconcile is due every hour,
  although the comment says that it runs once per Malaysia day. The model runs it so.
- A page that is not answered ends the pull, which is still marked as done. If another pull
  runs, or the process dies in between, the credit notes of that night are skipped.
- `mishaps` counts statements that throw, crashes, unanswered pages and pulls that somebody
  starts.
- Not modelled: pages and cursor of a backfill (it sees any subset), the push of online orders
  to the till, the matching of customers.

### SignUp and the code

| Variable | Code |
|---|---|
| `members`, `email`, `pin`, `code` | rows of `customers`; those with `email`, with `loginPinHash`; `kitchenPickupCode` (0 is null, 1 the first code) |
| `open`, `tokens` | unused, unexpired `otp_challenges`; setup tokens given out |
| `gifts` | entries of the points ledger with reason `birthday_reward` of this year |

A verification goes `VerifyOtp -> UseChallenge -> Recover` or `-> FindMember -> CreateMember`, and
whoever needs a pickup code `FindCode -> (ReadMax -> AssignCode)* -> RereadCode`; a profile then
looks for the birthday gift.

- A phone that becomes a member between the request of a code and its use has a REGISTER
  challenge and a row. `FindMember` follows the code: without e-mail address the row gets it,
  without pickup code it gets one, and for any other member the code falls through to a second
  `create`, which the unique phone refuses.
- `RequestOtp` is one step: what it reads may be outdated when the challenge is written, but as
  well right after. A challenge that has expired is taken out of `open`.
- A token for somebody who already has a PIN replaces the PIN and is left out.
- Left out: referral codes (unique like pickup codes, but random), the upserts of the two
  accounts, the throttle of requests, delivery. 999 999 codes do not run out.
- A code is read unused, checked, and then marked used, so two verifications with one code both
  succeed. Both tokens are for the phone that got the code; no property tells them apart.

### Catalog and the code

| Variable | Code |
|---|---|
| `products`, `featured`, `popular` | `shop-catalog.products.json`; the ids in the layout and in `home-popular.json` |
| `canonical` | ids in `CANONICAL_PRODUCT_IMAGE_URL`, whose photo every reading of the file puts back |
| `files`, `uploads` | photos on the disk; history: all that ever were |
| `sites` | what moja-sites publishes |
| `desk` | what an administrator is at: a form with the product as it was when opened, or a sync with the catalogue as downloaded |
| `excused` | history: ids whose photo an outdated form, or a failed write, put back |

The server reads and writes its files synchronously, so an operation is one action; what overlaps
is the form, a copy taken at `OpenForm` and sent whole by `UpdateProduct`, and the download. A
record carries, besides its fields, `locks` (`syncOverrides`) and the history `kept`: what an
administrator has written and nobody may have taken since. A value is named by who brought it, or
by the change that did.

- Six fields stand for all: the price and the variants (one lock group, and a default that the
  form fills in, so that the first save of a product without variants locks its price), the photo
  (a group with the gallery, and a file), a text, the category (which is never compared, so never
  locked) and the framing of the photo (which a sync of everything drops). Badge and sold-out
  behave like the photo without a file, the other texts like the name.
- `syncOverrides` is said to hold the fields that a sync skips; the sync in the mode *full* takes
  category and framing all the same (`TakenByFull`), and the property excepts that.
- `AttachProductImage` writes the record before it removes the old file, `ClearProductImage`
  removes the file first: a write that fails in between leaves a photo that is not there.
- `CreateProduct` does not look for the id it is given, so there may be two records with one id;
  all operations then mean the first one in the file.
- Not modelled: preview of a sync, the codes for the till, the upload of a whole catalogue, the
  hand-off of carts, and a file that is cut off by a crash (it is read as empty).

### MemberApp and the code

An *order* is one call of `createShopOrderCheckout`; what the server does with it is one action
(`Serve`), as its statements are in `ShopOrder`. Here the browser takes the steps.

| Variable | Code |
|---|---|
| `page`, `url` | whether the app shows its screens, the sign-in, or the browser is at a payment page; the result in the address when it came back |
| `cart`, `filled`, `holds` | the basket in the shop's store, how many there have been, and which one an order was made of |
| `placing`, `flight`, `demo` | `placingOrder`, the progress of a `handlePlaceOrder`, `demoCheckout` |
| `leaving`, `link`, `opened` | the link assigned to `window.location`, the one opened last, all that were |
| `pending`, `polling`, `asked` | the payment in localStorage, the interval of the poll, its queries without answer |
| `payment` | what the server says of an order's payment |
| `told`, `forgotten` | history: how often the member was told how a payment ended; orders that were remembered when another took their place |
| `wonder` | the one sort of thing that goes wrong in a behaviour |

Loading a link takes the whole page with it: `Leave` ends what was in flight, the cart and the poll;
what the server was sent it does all the same, and nobody hears the reply (the flight is `"left"`). Each `wonder` breaks something, as TLC showed, and is
excepted exactly there:

| `wonder` | Breaks |
|---|---|
| `slow`: answers take longer than what the member does | `ToldOnce`: the interval asks again before it knows, and both answers are told. `PaidIsTold`: an answer clears what is remembered by now, another order |
| `outlives`: the link opens a wallet's app, the page stays | `PaidOnce`: the cart is still there |
| `instant`: a card is charged at once, there is no link | `PaidOnce`, `PaidIsTold`: to the app this is an error |
| `lost`: replies to checkouts get lost | `PaidOnce`, `PaidIsTold` |
| `again`: the button is pressed while the link loads | `PaidOnce`, `PaidIsTold` |
| `switch`: the member leaves the shop's screens during a checkout | `PaidOnce`, `PaidIsTold`: the screens come back without `placingOrder` |
| `links`: the member also pays by links opened earlier | `ToldOnce`, `PaidIsTold` |
| `late`: a payment takes more than 30 minutes | `PaidIsTold`: it is no longer remembered |

- Left out: browsing, the choice of a promotion, carts handed over by moja-sites, the screens of
  the sign-in, and a second tab, which shares the localStorage.

## 3. Runs

The bento runs use `MCBentoCheckout`, which `payment` and `bento_checkout` extend; every attempt is for the same customer and
package, so each checkout meets the earlier ones. Deadlock is not checked: when all
attempts have settled, or the ledger is full, the system rests.

| Run | Bounds | Shows |
|---|---|---|
| `bento_checkout` | 2 attempts, 2 requests; without a promo code, with 2 mishaps, overlapping failure notices and second tries after a failed payment; or with a code of cap 1, with 1 mishap and neither of these | the properties of payments and plans; `SlotsBacked`, `ConfirmedOnlyIfPaid`, and that the rows implement `PromoSlots` |
| `payment` | 1 attempt, 2 requests, 2 mishaps, fairness; or the app: 2 orders, 2 baskets, 2 ends of a session, each wonder in turn, fairness | `PaidPlanSettles` and the properties of the member app |
| `bento_cancels_paid` | 2 attempts, 2 requests, no mishap | violated: a paid plan is cancelled |
| `bento_oversell` | 3 attempts, 2 requests, overlapping failure notices | violated: more redemptions than the cap |
| `bento_orphan` | 1 attempt, 1 mishap, fairness | violated: a paid plan never heals |
| `money` | 2 orders, 2 requests, 1 mishap, points for one reward, 1 point per order, nothing surprising allowed or all of it (then a mishap or a notice of failure, not both); or an account: 2 requests, 1 top-up, 1 approval, 1 legacy reference, amounts 1 and -1, begins up to 3 entries (2, and no mishap, for a wallet that nothing locks), 1 mishap | the properties of orders and of accounts |
| `shop_voucher` | 1 order, no mishap, instant capture allowed | violated: a paid order leaves its voucher ACTIVE |
| `bento_schedule` | 2 plans of 2 credits, 2 requests, 4 calls (3 with overlaps, staff or the settings form), 3 dates, capacity 2, lead time 1 day, window 2 days, each surprise in turn; or the calendar: up to 2 plans of at most 2 and together 3 credits, capacity 3, 1 change per draft, 2 saves, 1 event, answers of the fetches as in `FetchBound` | the properties of pickups and of the calendar |
| `schedule_credits` | the same, without surprises | violated: more meals delivered and scheduled than the plan has |
| `calendar_autofill` | the calendar, one date closed, plans of up to 3 credits | violated: what auto-fill offers is refused |
| `birthday_gift` | 1 phone, 2 requests, no mishap | violated: two gifts in a year |
| `background` | 1 campaign, 2 members, 2 dispatchers, 2 administrators' requests, batches of 1; 1 receipt, 1 credit note, 1 webhook, look-back of 2 days, 3 days and a half; 2 phones, 2 requests, 1 challenge, 2 tries for a pickup code; 1 product id in up to 2 records, 2 administrators, 2 changes; 1 mishap | the properties of campaigns, receipts, sign-ups and products |

One order with the promotion and a rival for it, or two for the referrer, are what the order
properties speak of; what one surprise permits, all three together permit too, so `allowed` is
nothing or everything. The points pay for one reward, so that two orders compete for it.
Two attempts are what a race between a checkout and an earlier one needs, cap 1 makes
them compete for a slot, two requests are any race of two, one mishap any single
failure, and two a failure in the handling of another; the theorems of section 4 cover every larger instance.
In the app two orders are what it takes to pay twice, or to forget one payment for another; two
ends of a session meet the page with and without a result in the address.
Three entries are an append, its reversal and a second try of either; an operation
begun below the bound still finishes, so the ledger grows to four. Where nothing locks a wallet, what is
still said is that what is finished is in the book, for which two entries do (`ShortIfUnlocked`). A mishap and a notice of
failure meet in the behaviours of orders without surprises, and each meets all the surprises (`OneTrouble`).
Requests and attempts are symmetric where no liveness property is checked. Two plans compete
for a day's capacity; two credits and two days are what it takes to move packs from one day to
another; four calls are a schedule, a collection, a change and a closing, three a schedule and any two requests that race after it. In the calendar two plans, equal or
not, are what there is to deal to, two saves are one and its correction, and the one event is what
somebody else does (time, the counter, a purchase and an extension come in addition). Rules and capacity
come while the member is at the draft and before anybody changes something (`FetchBound`): once the calendar
is stale every refusal is excused, and an answer during a save changes no request of it. Two dispatchers and
two administrators are any race for one campaign, batches of one make the outer loop turn, and
three days and a half let a record fall out of a window of two. Two phones compete for a pickup
code, and two tries are what two phones need; the code has twelve. Two administrators are a form
or a sync that another change overtakes; of the two changes one sets up (an edit, an upload, a new
version at moja-sites, a second record) and one disturbs, and neither opening a form nor a sync
counts as a change.

What the properties say:

- `SingleFinalizer`: one request at a time finalizes a payment.
- `PlanMatchesPayment`: an ACTIVE plan is paid for, or was forced (`ActiveOnlyIfPaid`), and a
  SUCCEEDED intent never leaves its plan waiting (`SucceededMeansActivated`).
- `ConfirmedOnlyIfPaid`: a redemption is final only when its payment is.
- `FinalStays` (`SettledIsFinal` and `PaymentNeverRevives`): what is settled, cancelled or
  refunded stays so, whatever arrives late.
- `SlotsBacked`, `SlotsImplemented`: rows in use and claims on the way are counted, and
  the count respects the cap. Both need that two failure notices of one payment are
  not handled at once (`OverlappingFailures`, else `bento_oversell`) and that a failed
  payment is not captured afterwards (`CaptureAfterFailure`).
- `PaidPlanSettles`: a captured payment without webhook is applied once the member
  opens the bento screen, unless its intent is `Orphaned`: claimed by a request that
  died.

- `Chained`: if the upsert locks, each entry starts where its predecessor ended and the
  cached balance is the last one: no append is lost.
- `CorrectedOnce`: an entry is reversed once (`ReversedOnce`) and a reference backfilled once
  (`BackfilledOnce`), also when two requests do it at once.
- `FinishedIsBooked`, of top-ups (`SettledIsCredited`): SUCCEEDED means captured and in the ledger,
  and a top-up found by webhook, poll and checkout is credited once. The latter excepts
  the top-ups in `unsettled`: after a failed settlement the intent is PENDING again and the
  next request credits it a second time. And of approvals (`ApprovedIsReversed`): an approval says
  what was done. (The converse does not hold: a
  rejection that read PENDING may overwrite it. Nothing in the code promises it.)

- `OneUse`: a campaign voucher pays for one order or one purchase at the till. Each of the
  three *surprises* breaks it: a lock that lapses during a payment, a capture before
  Xendit's answer, a failed payment captured on a second try. `allowed` says whether the behaviour has
  them; every other property holds with and without.
- `SettledIsDone`: an order is placed only if paid, and SUCCEEDED means that it is placed, the reward charged and (without
  surprises) the voucher used.
- `RewardedOnce` (`AwardedOnce` and `ReferrerRewardedOnce`), `OrderNeverReopens`: claims and retries of a payment do not
  award twice or bring a completed order back to the counter. `AwardedOnce`
  and `OrderNeverReopens` need that demo mode is off: there nothing claims the payment. Two first orders
  finalized at once reward the referrer once; what prevents it is not the look-up of an earlier
  reward, which neither would find, but the wallet's row, locked before the count.
- `PointsSpentOnce`: the reward of an order is charged once, except for orders in `retried`.

- `WithinLimits` (`ScheduledWithinCredits` and `WithinCapacity`), `NothingPastTheEnd`: what is still to be picked up
  respects the credits, the kitchen, and the date operations end on, the checks being made
  before the transaction and on what the request sends.
- `HandedOutOnce`: DELIVERED means handed out, once. A collection that races a schedule is
  safe because a row that was deleted loses its id, and the deletion looks at the status again.
- `DeliveredIsFinal`, `PickupKept`: no step changes a delivered row, or deletes one whose day has
  come.
- `SavedIsDrafted`: what the calendar says is saved is, plan by plan and meal by meal, in the rows.
- `OfferedIsAccepted`: the rules the browser has a second time agree with the server's, so that
  no request for it is refused; the exceptions (`Excused`) are above. The draft that fills itself in is
  the one that has a run against it: `AutoFillIsEligible` is violated (`calendar_autofill`).

- `OneMailOneGift`: however many dispatchers, and wherever one stops.
- `FinishedIsComplete`: SENT or FAILED means that nobody is PENDING and the counts are right.
- `DueCampaignEnds`: a campaign that is due is sent, unless it is `Abandoned`, moved or
  cancelled. The row of a member without address must be marked, else the loop never ends.
- `PointsExactlyOnce`: the three ways a receipt comes in award its points once; they are lost if,
  and only if, a request stops between the row and the award.
- `NothingMissed`: as long as fewer nights than the look-back go wrong.
- `PickupCodeSettles`: the code a profile answers with is the member's alone, however long it takes
  to answer; what protects it is the null in the update's condition and the unique column, not
  the maximum read before. The tries suffice for as many members as there are tries.
- `BirthdayGiftOnce`: a member gets one gift a year, as `birthdayRewardPoints` says. Violated
  (`birthday_gift`): profiles that load at the same time each look for a gift, find none, and give one.

- `EditsSurviveSync`: syncs in both modes never take what an administrator wrote, until it is
  written again or reset; this depends on the lock groups, as price and variants, or photo and
  gallery, must stay or go together.
- `NothingDangles`: photos of products exist, and lists name products that exist. It excepts the
  photos that an outdated form writes back after they were replaced (it sends every field).

- `PaidOnce`: a cart is gone once its order can be paid, as nothing else keeps a second order from
  being made of it (each click has a new `idempotencyKey`).
- `ToldOnce`: address, poll and alert do not tell the end of one payment twice.
- `PaidIsTold`: who has paid is told so in the end, however the page came back, also if the poll had
  given up or the session ended in between, unless a later order took the payment's place
  (localStorage remembers one).

### What does not hold

Seven statements of comments and docs are contradicted by a run, which shows how; each has an entry
under "findings" in `PROJECT.json`.

| Run | Said | Done |
|---|---|---|
| `bento_cancels_paid` | an attempt that was paid is never cancelled (`bento.service.ts:747`) | a capture after its reconcile is not seen |
| `bento_oversell` | the return of a promo slot is idempotent (`bento-voucher.service.ts:202`) | two failure notices at once return one slot twice |
| `bento_orphan` | opening the bento screen heals a paid plan (`bento.service.ts:156`) | not one whose intent was claimed by a request that died |
| `shop_voucher` | on success the voucher is USED (`docs/rewards-workflow-v2.md:64`) | the checkout has released its lock |
| `schedule_credits` | the pool of credits is enforced (`bento.service.ts:816`) | delivered days that a request leaves out are not counted |
| `birthday_gift` | one gift per calendar year (`customers.service.ts:157`) | one for each profile that loads at the same time |
| `calendar_autofill` | auto-fill is of eligible days (`CalendarScheduler.tsx:82`) | it is computed before the rules are there, and not again |

Five more are contradicted by what the models do, and no run is about them. The property that comes
nearest is named, and excepts them:

- `mailer.service.ts:565`: a crash in the middle of a campaign resumes where it left off. Nothing
  looks for campaigns that are SENDING, so one whose dispatcher stopped stays as it is
  (`Abandoned`, which `DueCampaignEnds` excepts).
- `shop-catalog.service.ts:80`: a sync skips the fields that were edited. The mode *full* drops the
  framing of the photo, locked or not, and the category is never locked (`TakenByFull`, which
  `EditsSurviveSync` leaves to it).
- `salesplay-pull.service.ts:102`: the reconcile runs once per Malaysia day. Between 0:00 and 8:00 it runs
  every hour; `NothingMissed` takes it as it is.
- `bento.service.ts:696`: the reservation of a promo code is released if anything after it fails. Not
  if the checkout fails before its `try`; `SlotsBacked` counts such a row, and what is lost is a slot.
- `CalendarScheduler.tsx:156`: all limits are on the combined total. The change of several days is
  limited by the smallest of them (`DealtUnevenly`, which `OfferedIsAccepted` excepts).

Many properties hold only with an exception, and often the exception is the very hazard that one would
look for under the property's name. The code does go wrong in these ways; the properties say that it
goes wrong in no other.

| Property | What it excepts, and what happens then |
|---|---|
| `PaidPlanSettles` | an intent claimed by a request that died: the plan is never activated (run `bento_orphan`) |
| `SlotsBacked`, `SlotsImplemented` | failure notices of one payment handled at once (run `bento_oversell`), and a capture after a failure: the counter is too low |
| `FinishedIsBooked` | a top-up whose settlement failed after the credit: it is credited again |
| `OneUse` | a lock that lapses during the payment, a capture before Xendit's answer, a capture after a failure: the voucher pays twice |
| `PointsSpentOnce` | a settlement that failed after the reward was charged: it is charged again |
| `SettledIsDone` | with these surprises, that the voucher is USED (run `shop_voucher`) |
| `Chained` | an upsert that does not lock the row of the wallet: an append is lost |
| `RewardedOnce`, `OrderNeverReopens` | demo mode, where nothing claims the payment: points twice, an order that comes back |
| `WithinLimits` | schedule requests that overlap: credits or the day's capacity are exceeded; staff, who are not limited by the day; delivered days that a request leaves out (run `schedule_credits`) |
| `NothingPastTheEnd` | a closing while requests are in flight, and the settings form, which takes the end back, and staff, who override it: pickups past it |
| `HandedOutOnce`, `PickupKept` | two counters that collect at once: both are told to hand out the pickup; two schedules of one plan, staff who override the lock, and, for the first, a closing while requests are in flight: the row of a pickup is rewritten |
| `DeliveredIsFinal` | a closing while requests are in flight: a pickup handed out becomes SKIPPED |
| `OfferedIsAccepted` | drafts for several plans, the kitchen's room, days filled in before the rules came: the request is refused (run `calendar_autofill` for the last) |
| `OneMailOneGift`, `FinishedIsComplete` | campaigns that an administrator wrote over after the claim: two mails, wrong counts |
| `DueCampaignEnds` | a dispatcher that stops: the campaign stays SENDING |
| `PointsExactlyOnce` | a stop between receipt and points: these points are lost |
| `EditsSurviveSync` | category and framing in the mode *full*: the sync takes them |
| `NothingDangles` | a form opened before the photo was replaced, a removal whose write fails: the photo shown is not there |
| `PaidOnce` | the five of `MemberApp` above: the basket is paid twice |
| `ToldOnce`, `PaidIsTold` | those of `MemberApp` above: told twice, or not at all |

### Fairness

`FairSpec`: a request in flight goes on (Node runs its continuation) and a
started confirmation is carried out: weak fairness. Auto-heal has strong fairness: a
member with an unpaid plan keeps opening the bento screen, within the window of
auto-heal. Nothing is assumed of webhooks, polls, admins or the payer. In the member app requests are answered
and links load, and a member who has left comes back, signs in and looks at the app again (weak
fairness); a poll asks as soon as it starts, before the five minutes or the end of a session can stop
it, so it has strong fairness. Nobody needs to pay. In `background` each
dispatcher has weak fairness: its timer fires again and again, and what it began goes on unless
it stops.

## 4. Proofs

For every set of attempts and requests, every cap, any number of mishaps, and with
overlapping failure notices and second tries allowed:

- `TypeCorrect`: `Spec => []TypeOK`. The part that is not obvious is that a
  request has an attempt whenever its step needs one, which depends on where every
  exception and every return lead (`ReturnIsStep`, `ErrorIsStep`).
- `ClaimInvariant`: `Spec => []ClaimInv`, from which `OneFinalizer`,
  `ActivePlansArePaid`, `SettledStays` and `NeverRevived` follow (the last two together are
  `FinalsStay`).

`SingleFinalizer` alone is not inductive. Nothing in it stops a second claim, which is
`ClaimHeld`: while a request finalizes an intent, the intent is PROCESSING (or FAILED, if
a failure notice overtook it), never PENDING. `ClaimHeld` could be broken by a checkout
that writes PENDING when it creates its intent; `FreshUntilCreated` says nobody has
touched that intent, and `OneOwner` that no other request checks out the same attempt.
`ActiveOnlyIfPaid` needs `ClaimPaid`: claims are taken only on captured payments,
because notices of capture are true and the other callers ask Xendit.

The proof sorts the steps of the system into kinds (`StepKind`): calm ones, which take no
claim and touch no payment; claims; settlements; and six named actions. Every part of
`ClaimInv` is then preserved kind by kind. The assumptions are those of the module
`BentoCheckout`: `NoAttempt` is not an attempt, the cap and the bound are naturals, and the
two switches are Booleans.

- `SettledInvariant`: `Spec => []SettledInv`, from which `PlansMatchPayments`
  and `ConfirmedArePaid` follow.

That a SUCCEEDED intent leaves no plan waiting has two parts. Only a finalization that has written
the plan goes on to write SUCCEEDED (`ActivatedFirst`, kept because only `Activate` leads to that
step, `StepBooks`); and no plan begins to wait afterwards, since it does so only when its checkout
creates it (`WaitingStep`), and then neither intent nor payment exist (`CreatedFresh`). A
redemption becomes CONFIRMED only by a confirmation nobody awaits, which is started only for a
SUCCEEDED intent (`ConfirmsSettled`), and SUCCEEDED is final.

- `SlotsInvariant`: `SlotsInv`, from which `SlotsAreBacked` follows; and `RedemptionsImplementSlots`:
  `Spec` implements `PromoSlots`. These three have two hypotheses, that failure notices are not
  handled at once and that a failed payment is not captured afterwards. Without either the
  theorems are false: the first is what `bento_oversell` needs, and with a second try after a
  failure a confirmation and a return of one slot overlap (TLC: `ReturnRead`, `ConfirmByPaymentIntent`, `ReturnWrite`).

A slot is taken back by two sorts of requests: a checkout that fails before its payer could be asked,
and a failure notice. `Unreplied` says that a payment whose checkout still runs has not failed, so
that no notice of failure is about it; `FailuresAreTrue` and `ReturnsFailed` that notices, one at a
time, take slots back for payments that failed, and `ConfirmsPaid` that confirmations are of those
that did not. So between the read that finds the slot held and the write that takes it back nobody
else touches it (`SlotsHeld`). With that every step is a `SlotsStep`: it adds one holder and one to the count, or
takes one from both, or leaves both alone, and cardinalities follow. The sets of requests and attempts may
be infinite; that holders are finitely many is part of the invariant (`FinitelyMany`). Each step
then maps to `Acquire`, `Release` or a stutter of `PromoSlots`.

For every set of requests, top-ups, approvals and references, every set of amounts and
ledgers of any length:

- `LedgerTypes`: `LedgerSpec => []BookTypes`, together with `OwnKind`: only a backfill carries a
  legacy reference, only a reversal an entry, and approvals belong to wallets.
- `LedgerInvariant`: `LedgerSpec => []LedgerInv`, from which `LedgerChained`,
  `ReversedAtMostOnce` and `BackfilledAtMostOnce` follow (the last two together are
  `CorrectedAtMostOnce`).

None of the three is inductive: they speak of the book, and what can break them is in the
hands of a transaction that has read it. `ReadFresh` says the balance read is still the
balance, `CheckHeld` that the duplicates not found still do not exist. Both are kept
because of `LockHeld`: a transaction that locks the row has the lock from its first check to
its end. The book changes only in `Commit`, which needs the lock or that nobody has it; so
at a commit no other transaction that locks is between check and end (`CommitAlone`), and
nobody's reads grow stale. The proof takes the steps in three kinds: those outside a
transaction or ending one (`OutsideTx`), those inside (`OpenLocked`, `CheckReadLocked`), and
the commit (`CommitLocked`, `CommitBooked`). It assumes that requests, top-ups, approvals,
references and `None` are distinct and that amounts are integers.

- `FinishedBooked`: `FinishedIsBooked` from `FinishInv`. One request at a time credits a top-up
  (`OnePayer`, by the claim on the intent), and each step of a request says what of it is in
  the book already (`Performs`); so what writes SUCCEEDED last has credited (`Credited`), twice
  only if the intent could not be settled after a credit, and an approval is EXECUTED only after its
  reversal (`ApprovedIsReversed`).

For every set of orders and requests, any number of points and failures, and with every
surprise allowed (`ShopOrderProofs`):

- `TypeCorrect`: `TypeOK`, with `Busy` (a request in flight has the order its step needs) and
  `DiscountInv` (only an order that wants the promotion comes to its discount).
- `ReferrerOnce`: `ReferrerRewardedOnce` from `WalletInv`. From `Place` to `Award` a finalization
  holds the row of the wallet, and nobody else is between these steps; so whoever counts the
  completed orders counts them all.
- `AwardsOnce` (with `ReferrerOnce`: `RewardsOnce`), `RewardPaidOnce`, `NeverReopened`: from `Owners`, `Spec => []OwnersInv`. The idea is
  `OneOwner`: of the requests that make an order or finalize it there is only one. To keep it,
  the rows must tell whether there is one (`RowsFit`: the intent of an order somebody finalizes
  is PROCESSING, or FAILED, or not there yet), callers must fit steps (`CallersFit`), and the
  history must agree with the rows (`Books`, `Unspent`). The steps come in kinds that change little of
  this (`CalmStep`, `OwnerStep`, `OrderStep`, `FailStep`, `StopStep`, `GoOnStep`, `BeginStep`,
  `NewStep`, `FinalizerStep`), one lemma for each kind; the actions are then sorted into them.
- `Settlements`: `SettledInv` and `VoucherInv` on top of it. What a finalization has passed it has
  done (`Backed`), and it writes SUCCEEDED after everything, so a settled payment is backed
  (`Settled`): `SettlementsAreDone`. Without surprises (`Plain`, where alone `OneUse` is promised) the
  voucher has one stake at most, the discounted order whose payment has not failed; it is locked
  for that order or gone (`VoucherRow`), one checkout of it runs (`OneCheckout`), and each step of a request knows
  what it waits for (`Waits`): `VoucherUsedOnce`.

For every set of plans and requests, any number of credits, days and calls, and any rules
about dates (`BentoScheduleProofs`):

- `TypeCorrect`: `TypeOK` with `Shape`: which steps go with which kind of request, and that who
  saves has a plan and a request that passed the checks.
- `DeliveredStays`: `DeliveredIsFinal`, unless operations are closed with requests in flight.
  The rows a transaction has deleted and not committed were SCHEDULED and belong to it alone
  (`Doomed`), so nobody can deliver them, and a closing is alone (`ClosesAlone`); so no writer
  touches a row that is DELIVERED.
- `DueDays`: `DueInv`, the invariant of what a request relies on between a read and its write. A row
  whose day will have come when the request ends was scheduled when it read it, then locked, and its id is kept
  (`KeepsDue`, up to the `Horizon` of the one change of hour it may see); so a counter finds what it has
  read (`Counters`), and a date past the end that a request wants is one it must not touch
  (`WantsInTime`, `Ends`). From it `HandedOut`, `NothingAfterTheEnd` and `DueRowsStay` (the action
  property `PickupKept`).
- `Limits`: `CreditsInv` and `CapacityInv`, from which `LimitsKept` (`WithinLimits`) follows. The request
  has as many packs as the plan has credits; but when it creates its rows, rows it did not
  create stay. `Covers` says that those have the packs it wants: at first what it has read is what there is,
  then the locked days are unchanged, and the rows it keeps are the rows it has
  compared. `Room` says that a day it has checked has room for it until it is done, since everybody else
  only takes packs off. That is why neither limit is in the rows alone, and where an
  overlapping request breaks both.

- `InstanceTypes`: `Types` of `MCBentoSchedule`: `TypeCorrect` while a behaviour is about the server, the
  types of the calendar (below) while it is about that; the hour and the end of operations belong to both.

For any number of plans, days, credits and meals and any capacity (`CalendarProofs`):

- `CalendarTypes`, from `World` and `Screen`: no count of meals leaves its range, because that of a day in
  the draft grows only while the pool has meals left, and a plan's row never has more than its credits. What a day, a draft or a pool adds
  up to is the size of a heap of things counted one by one (`SumOf`), so sums need no induction.
- `SavedIsDraftedAlways`: `SavedIsDrafted` from `Sent`: the requests sent so far are in the rows of their
  plans, frozen days excepted. Meals are dealt in turn, so the shares of all plans are the draft
  again: each meal has one remainder modulo the number of plans.
- `OfferedIsAcceptedAlways`: `OfferedIsAccepted` from `Fresh`, which says what a calendar that is not stale
  knows: its window is the server's, and so are the closed days once the rules are there (`Ruled`); a
  changed draft for one plan books new pickups only on days that fit the window and are open, or were in
  the draft before the rules closed them (`Fits`), and leaves locked ones alone (`Offered`); a draft that was
  filled in is `BuildAutoFill` of such days, and the rows there are by now are shares of it (`FilledIn`).
  When the rules come, the days they close are in `rules.early` (`FreshLoad`); operations taken up again
  close no day (`FitsKept`). What is refused is then stale, or too early, or dealt unevenly, or has no room
  (`RefusedIsExcused`). One plan gets the whole draft (`DealtToOne`); of equal plans each gets as many as it
  has credits (`EvenShares`, `FilledIsAccepted`), because all days but the last get a lunch and a dinner for
  each of them. TLC had refuted an earlier form, an invariant of the states after a refusal.

For any members, campaigns, instances, limits and mishaps (`BackgroundProofs`):

- `MailerInvariant`: `MailerInv`. A campaign that no late request has written has one dispatcher at
  most (`Alone`), which has claimed it and whose counts and batch fit the rows at each of its steps
  (`Engaged`, `Progress`); a mail was sent once and its row says so, unless the dispatcher is about to
  mark it, and a campaign that is not being sent is complete (`Sound`). From it `MailedOnce` and `FinishedComplete`.

For every set of receipts, credit notes and handlers, any length of the look-back:

- `ReceiptsEarnOnce`: `PointsExactlyOnce`. Who is about to award a record owns it (`AwardOwned`):
  the unique receipt number lets one of them create the row, and the award follows only that;
  a record that was lost between the two has neither an owner nor points (`PointsInv`).
- `ReconcileFindsAll`: `NothingMissed` from `ReconcileInv`. A record that is missing has cost a mishap
  on each daytime since its day, or today's reconcile still gets it (`UnstoredInv`); so it is
  missing only after as many mishaps as the window has days. This is arithmetic over the calendar of
  half days: which days a pull from `Lookback` days back to now reaches (`InReach`).

For any finite set of members and of requests and any number of tries:

- `PickupInvariant`: `PickupInv`, from which `PickupCodesSettle` follows. Codes are unique and a request
  knows its member's (`CodesInv`, `Knows`); it never has tried more often than codes were
  given, since each failed try was lost to a member who got a code meanwhile, and the maximum it reads
  next is beyond that. So who gives up had more members to compete with than tries (`Enough`).

The types of these three need invariants of their own, each on top of the ones above:

- `MailerTypesAlways` (`MailerBounds`): mails, calls and mishaps keep to their bounds.
- `SalesPlayTypesAlways` (`ReceiptBounds`): what is about to be awarded points is a receipt and no credit note,
  which `AwardOwned` says.
- `SignUpTypesAlways` (`EnrolInv`): that a token never belongs to somebody with a PIN is not inductive. `Rights`
  says that both need an address, `Asked` that only who has one is sent a code to recover, and `InHand`
  whose row a request has found or made at each of its steps, which is what it relies on later
  (`Placed`). Codes are no higher than the number of codes (`CodesAreLow`), as a candidate is at most one more.

For any number of products, administrators and changes (`CatalogProofs`), from `CatalogInv`:

- `EditsSurviveSyncAlways` from `KeepsInv`: what an administrator wrote is also locked, the category excepted, and
  a sync takes no field that is locked; an operation that unlocks a group forgets what was kept of it.
- `NothingDanglesAlways`: lists name records that are there (`Listed`), which the lemmas about positions give:
  `At` and `Sorted` move records and lose none, and the first record with an id exists if one does
  (`Least`, from the well-foundedness of the numbers, as an induction would need an operator). For the
  photos (`PhotoInv`): a file belongs to one id (`OneOwner`), no two records show one file (`Apart`), a shown
  file is on the disk (`OnDisk`), and what is uploaded next has a new name (`Stamps`). Every action is a
  `PhotoStep`, which says what a step may do to photos, and that keeps all four.

And of the joint specification `MCBackground`: `BackgroundTypes` and `BackgroundSafe`, `Spec => []` of all the
invariants of the run, from `BackgroundInv`. What is not a behaviour's `part` rests and keeps its invariant.

For any number of orders and baskets, whatever `wonder` happens (`MemberAppProofs`):

- `AppTypesKept`, and `BasketInvariant`: unless the cart outlives its order, the app does one thing
  at a time (`OneThing`), the cart holds a basket only while the app places its order, goes to its link or shows its
  demo (`Placed`, `CartIsAtWork`), and a basket has one order that is paid or can be
  (`PayableOnce`). So `BasketsPaidOnce`.
- `ToldInvariant`: the address, the poll, the alert and the demo are never two ways to tell the same
  payment (`Ways`), and none has a payment that was told (`Told`). So `MemberToldOnce`.

The assumptions are the named ones of the modules, which TLC evaluates on every run: `NoOrder`,
`NoPlan` and their like are not an order or a plan, prices, credits, look-back and bounds are naturals,
plans, phones and the requests of `SignUp` are finite (they are counted), members with a blank
address are members, there is a plan to schedule, and the surprises are those named. Only the theorems about slots have hypotheses of their own, the two above.

Each inductive invariant was checked by TLC on the run's instance before it was proved. No run repeats
them, since they are proved; what follows from them is checked by the runs too.

Only model-checked:

- liveness, which the prover does not do (`PaidPlanSettles`, `DueCampaignEnds`, `PaidIsTold`);
- the seven violations, which are counterexamples.

## 5. Plan

Every safety property that a passing run checks is proved. What would come next:

1. `OneFinalizer`, `OneOwner` and `OnePayer` are one argument about an intent that is claimed; it might be
   stated once, as an abstract specification that all three implement.
2. A request of the calendar is one step, its statements are in `BentoSchedule`. That the one implements
   the other needs lunches and dinners in the rows of `BentoSchedule`, or without them in `Calendar`.
3. The two hazards without a property: a checkout that stops between the reservation of the promo code and
   its plan, and newcomers, who are counted and not made unique.

## 6. Not modelled

- Gift codes, and rewards that staff claim for a member's points: a read of a counter or a balance
  and an increment after it. Two gift-code redemptions at once may pass the limit
  (`rewards-workflow.service.ts:74`); there is nothing else in it that the modules above do not show
  of other counters.
- The administration of promo codes: a new cap is compared with a count read earlier
  (`bento-voucher.service.ts:335`), so it can end below what is redeemed. `redeemedCount`, the
  claims and the returns are in `BentoCheckout`, where the cap is fixed.
- The newcomer check and the purchase capacity of packages: counts that are read before a plan is
  written, and nothing makes them unique. No property of the code's own could hold of them
  (see the hazards).
- Reports, finance, metrics, audit, segmentation, import and export: they read, or write rows
  nobody else writes.
- Home ads, master data, employees, the layout of pages: one row or file, one operation each.
- Admin dashboard, mobile and ops-queue-web, and of client-web and bento-web all but checkout and
  calendar: rendering, and requests whose effects are modelled where the server handles them.
- Xendit, SalesPlay, moja-sites and the mail service, except as the code uses them.
