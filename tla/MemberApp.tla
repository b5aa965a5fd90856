----------------------------- MODULE MemberApp ------------------------------
(***************************************************************************)
(* The member app at the checkout of a shop order: one page in a browser,    *)
(* which may be left for the page of a wallet and come back in other ways    *)
(* than it went, and the payment it remembers in localStorage and asks the   *)
(* server about.  What the server does with a checkout is one action here;   *)
(* ShopOrder has its statements.                                             *)
(***************************************************************************)
EXTENDS Integers

CONSTANTS
  Orders,     \* calls of createShopOrderCheckout
  MaxBaskets, \* bound: how often the member fills a cart
  MaxLogouts, \* bound: how often the session ends
  Wonders,    \* bound: what may go wrong, see "wonder"
  NoOrder     \* no order

ASSUME AppAssumption == NoOrder \notin Orders /\ MaxBaskets \in Nat /\ MaxLogouts \in Nat

VARIABLES
  wonder,    \* the one sort of thing that goes wrong in a behaviour:
             \*   "slow"     answers to status queries take longer than what the member does
             \*   "outlives" the link opens a wallet's app and the page stays as it is
             \*   "instant"  a card is charged at once, and there is no link
             \*   "lost"     replies to checkouts get lost
             \*   "again"    the member presses the button again while the link loads
             \*   "switch"   the member leaves the shop's screens during a checkout
             \*   "links"    the member also pays by links opened earlier
             \*   "late"     a payment takes more than 30 minutes
  page,      \* "member", "phone" (not signed in) or "away" (at a payment page)
  url,       \* the order whose result the address of the page has
  cart,      \* the basket in the shop's store, 0 for none
  filled,    \* how many baskets there have been
  placing,   \* the order the shop's screen is placing (placingOrder)
  flight,    \* progress of a handlePlaceOrder
  holds,     \* the basket of an order
  demo,      \* demoCheckout
  leaving,   \* the order whose link was assigned to window.location
  link,      \* the order whose link was opened last
  opened,    \* history: orders whose link was opened
  pending,   \* the payment in localStorage
  polling,   \* whether the poll's interval runs
  asked,     \* status queries without answer
  payment,   \* what the server says of an order's payment
  told,      \* history: how often the member was told how a payment ended
  forgotten, \* history: orders that were remembered when another took their place
  logouts    \* how often the session has ended

shop  == <<cart, filled, placing, holds, demo>>
poll  == <<pending, polling, asked, told, forgotten>>
links == <<url, leaving, link, opened>>
appVars  == <<wonder, page, flight, payment, logouts, shop, poll, links>>

Replies == {"redirect", "free", "demo", "noLink", "refused"}
Flight == {"new", "tokenize", "asked", "left", "over"} \cup Replies \* "left": by the page
MaybeOrder == Orders \cup {NoOrder}

AppTypes ==
  /\ wonder \in Wonders /\ page \in {"member", "phone", "away"}
  /\ {url, placing, demo, leaving, link, pending} \subseteq MaybeOrder
  /\ cart \in 0..filled /\ filled \in 0..MaxBaskets
  /\ flight \in [Orders -> Flight] /\ holds \in [Orders -> 0..filled]
  /\ opened \subseteq Orders /\ forgotten \subseteq Orders
  /\ polling \in BOOLEAN /\ asked \in [Orders -> 0..2] /\ told \in [Orders -> Nat]
  /\ payment \in [Orders -> {"none", "OPEN", "SUCCEEDED", "FAILED"}]
  /\ logouts \in 0..MaxLogouts

AppInit ==
  /\ wonder \in Wonders /\ page = "member"
  /\ cart = 0 /\ filled = 0 /\ placing = NoOrder /\ demo = NoOrder
  /\ flight = [o \in Orders |-> "new"] /\ holds = [o \in Orders |-> 0]
  /\ url = NoOrder /\ leaving = NoOrder /\ link = NoOrder /\ opened = {}
  /\ pending = NoOrder /\ polling = FALSE /\ asked = [o \in Orders |-> 0]
  /\ payment = [o \in Orders |-> "none"]
  /\ told = [o \in Orders |-> 0] /\ forgotten = {} /\ logouts = 0

Open == page = "member"
Settled(o) == payment[o] \in {"SUCCEEDED", "FAILED"}

---------------------------------------------------------------------------
(* The shop's screens *)

FillCart ==
  /\ Open /\ cart = 0 /\ filled < MaxBaskets
  /\ filled' = filled + 1 /\ cart' = filled'
  /\ UNCHANGED <<wonder, page, flight, payment, logouts, placing, holds, demo, poll, links>>

\* handlePlaceOrder.  A card may have to be turned into a token first.
PlaceOrder(o) ==
  /\ Open /\ cart # 0 /\ placing = NoOrder /\ demo = NoOrder
  /\ flight[o] = "new" /\ (leaving # NoOrder => wonder = "again")
  /\ placing' = o /\ holds' = [holds EXCEPT ![o] = cart]
  /\ \E s \in {"tokenize", "asked"} : flight' = [flight EXCEPT ![o] = s]
  /\ UNCHANGED <<wonder, page, payment, logouts, cart, filled, demo, poll, links>>

\* The button can be pressed again, if it is still the same screen.
Release(o) == placing' = IF placing = o THEN NoOrder ELSE placing

\* tokenizeCard: the card form has a token, or refuses (600 ms after the submission ended).
Tokenize(o) ==
  /\ flight[o] = "tokenize" /\ page # "away"
  /\ \/ flight' = [flight EXCEPT ![o] = "asked"] /\ UNCHANGED placing
     \/ flight' = [flight EXCEPT ![o] = "over"] /\ Release(o)
  /\ UNCHANGED <<wonder, page, payment, logouts, cart, filled, holds, demo, poll, links>>

\* createShopOrderCheckout on the server.  Nobody hears the reply if the page is gone.
Serve(o) ==
  /\ flight[o] \in {"asked", "left"}
  /\ \E s \in Replies :
       /\ s = "noLink" => wonder = "instant"
       /\ flight' = [flight EXCEPT ![o] = IF @ = "asked" THEN s ELSE "over"]
       /\ payment' = [payment EXCEPT ![o] = CASE s \in {"redirect", "demo"} -> "OPEN"
                                              [] s \in {"free", "noLink"} -> "SUCCEEDED"
                                              [] OTHER -> "none"]
  /\ UNCHANGED <<wonder, page, logouts, shop, poll, links>>

\* The request fails on the way: the server may have done its work.
LoseReply(o) ==
  /\ wonder = "lost" /\ flight[o] \in {"asked"} \cup Replies /\ page # "away"
  /\ flight' = [flight EXCEPT ![o] = "over"] /\ Release(o)
  /\ UNCHANGED <<wonder, page, payment, logouts, cart, filled, holds, demo, poll, links>>

Replied(o, s) ==
  /\ flight[o] = s /\ page # "away"
  /\ flight' = [flight EXCEPT ![o] = "over"] /\ Release(o)
  /\ UNCHANGED <<wonder, page, payment, logouts, filled, holds>>

\* Mutant: the payment is not remembered, the redirect will tell.
ReplyRedirectOnly(o) ==
  /\ Replied(o, "redirect")
  /\ leaving' = o
  /\ UNCHANGED <<cart, demo, poll, url, link, opened>>

\* savePendingPayment keeps one payment.  The cart stays: it goes with the page.
ReplyRedirect(o) ==
  /\ Replied(o, "redirect")
  /\ pending' = o /\ forgotten' = (forgotten \cup {pending}) \ {NoOrder}
  /\ leaving' = o
  /\ UNCHANGED <<cart, demo, polling, asked, told, url, link, opened>>

\* Mutant: the cart is not reset.
ReplyFreeKeeps(o) ==
  /\ Replied(o, "free")
  /\ told' = [told EXCEPT ![o] = @ + 1]
  /\ UNCHANGED <<cart, demo, pending, polling, asked, forgotten, links>>

\* Nothing to pay: resetAfterOrder, and an alert says so.
ReplyFree(o) ==
  /\ Replied(o, "free")
  /\ cart' = 0 /\ told' = [told EXCEPT ![o] = @ + 1]
  /\ UNCHANGED <<demo, pending, polling, asked, forgotten, links>>

\* The demo's screen belongs to the shop's screens: if they are gone, so is it.
ReplyDemo(o) ==
  /\ Replied(o, "demo")
  /\ demo' = IF placing = o THEN o ELSE demo
  /\ UNCHANGED <<cart, poll, links>>

\* A reply without link is an error to the app, whether the card was charged or not.
ReplyError(o) ==
  /\ Replied(o, "noLink") \/ Replied(o, "refused")
  /\ UNCHANGED <<cart, demo, poll, links>>

\* handleCompleteDemoPayment
CompleteDemoPayment(o) ==
  /\ Open /\ demo = o /\ payment[o] = "OPEN"
  /\ payment' = [payment EXCEPT ![o] = "SUCCEEDED"]
  /\ \/ demo' = NoOrder /\ cart' = 0 /\ told' = [told EXCEPT ![o] = @ + 1]
     \/ wonder = "lost" /\ UNCHANGED <<demo, cart, told>>
  /\ UNCHANGED <<wonder, page, flight, logouts, filled, placing, holds, pending, polling, asked,
                 forgotten, links>>

\* Back from the demo's screen, or to another tab of the app: the screens are unmounted,
\* what they were waiting for is not.
LeaveShop ==
  /\ Open /\ (demo # NoOrder \/ (wonder = "switch" /\ placing # NoOrder))
  /\ placing' = NoOrder /\ demo' = NoOrder
  /\ UNCHANGED <<wonder, page, flight, payment, logouts, cart, filled, holds, poll, links>>

---------------------------------------------------------------------------
(* To the payment page and back *)

NoQueries == [o \in Orders |-> 0]

\* The browser loads the link: the page, with all it had not stored, is gone.  A request
\* that was sent is served all the same.
Leave ==
  /\ leaving # NoOrder /\ wonder # "outlives"
  /\ page' = "away" /\ leaving' = NoOrder /\ link' = leaving /\ opened' = opened \cup {leaving}
  /\ cart' = 0 /\ placing' = NoOrder /\ demo' = NoOrder
  /\ polling' = FALSE /\ asked' = NoQueries
  /\ flight' = [o \in Orders |-> CASE flight[o] = "new" -> "new"
                                   [] flight[o] \in {"asked", "left"} -> "left"
                                   [] OTHER -> "over"]
  /\ UNCHANGED <<wonder, payment, logouts, filled, holds, url, pending, told, forgotten>>

\* The link opens the wallet's app.
OpenWallet ==
  /\ leaving # NoOrder /\ wonder = "outlives"
  /\ leaving' = NoOrder /\ link' = leaving /\ opened' = opened \cup {leaving}
  /\ UNCHANGED <<wonder, page, flight, payment, logouts, shop, poll, url>>

\* The member pays, or fails to.
PayByLink(o) ==
  /\ o = link \/ (wonder = "links" /\ o \in opened)
  /\ payment[o] = "OPEN"
  /\ \E s \in {"SUCCEEDED", "FAILED"} : payment' = [payment EXCEPT ![o] = s]
  /\ UNCHANGED <<wonder, page, flight, logouts, shop, poll, links>>

\* Back to the app: sent by the payment page with the result in the address, or, as wallets
\* often do not, on one's own.
Return ==
  /\ page = "away"
  /\ page' = "phone"
  /\ \E o \in MaybeOrder :
       /\ o # NoOrder => Settled(o) /\ (o = link \/ (wonder = "links" /\ o \in opened))
       /\ url' = o /\ opened' = opened \ {o}
       /\ link' = IF o = link THEN NoOrder ELSE link
  /\ UNCHANGED <<wonder, flight, payment, logouts, shop, poll, leaving>>

---------------------------------------------------------------------------
(* The effects of App.tsx *)

\* Mutant: the result in the address leaves the remembered payment to the poll.
SignInKeeps ==
  /\ page = "phone"
  /\ page' = "member" /\ url' = NoOrder
  /\ told' = IF url # NoOrder THEN [told EXCEPT ![url] = @ + 1] ELSE told
  /\ polling' = (pending # NoOrder)
  /\ UNCHANGED <<wonder, flight, payment, logouts, shop, leaving, link, opened, pending, asked,
                 forgotten>>

\* Mutant: what is remembered is taken for a flag.
SignInTruthy ==
  /\ page = "phone"
  /\ page' = "member" /\ url' = NoOrder
  /\ IF url # NoOrder
     THEN pending' = NoOrder /\ told' = [told EXCEPT ![url] = @ + 1]
     ELSE UNCHANGED <<pending, told>>
  /\ polling' = pending'
  /\ UNCHANGED <<wonder, flight, payment, logouts, shop, leaving, link, opened, asked, forgotten>>

\* The member is signed in, with the stored token or a code: first the effect that reads
\* the address, which clears whatever is remembered, then the one that starts to poll.
SignIn ==
  /\ page = "phone"
  /\ page' = "member" /\ url' = NoOrder
  /\ IF url # NoOrder
     THEN pending' = NoOrder /\ told' = [told EXCEPT ![url] = @ + 1]
     ELSE UNCHANGED <<pending, told>>
  /\ polling' = (pending' # NoOrder)
  /\ UNCHANGED <<wonder, flight, payment, logouts, shop, leaving, link, opened, asked, forgotten>>

\* A request is answered with 401, and what is in flight no longer counts.
EndSession ==
  /\ Open /\ logouts < MaxLogouts
  /\ placing # NoOrder => wonder = "switch"
  /\ page' = "phone" /\ logouts' = logouts + 1
  /\ polling' = FALSE /\ asked' = NoQueries
  /\ placing' = NoOrder /\ demo' = NoOrder
  /\ UNCHANGED <<wonder, flight, payment, cart, filled, holds, pending, told, forgotten, links>>

\* The answer to a query says that the payment has ended: it is told, and whatever is
\* remembered now is cleared.
Tell(o) == told' = [told EXCEPT ![o] = @ + 1] /\ polling' = FALSE /\ pending' = NoOrder

\* tick, with an answer that comes at once.
Tick ==
  /\ Open /\ polling /\ wonder # "slow"
  /\ IF pending = NoOrder THEN polling' = FALSE /\ UNCHANGED <<pending, told>>
                          ELSE Settled(pending) /\ Tell(pending)
  /\ UNCHANGED <<wonder, page, flight, payment, logouts, shop, asked, forgotten, links>>

\* tick, up to the answer; the interval does not wait for it.
Ask ==
  /\ Open /\ polling /\ wonder = "slow"
  /\ pending # NoOrder /\ asked[pending] < 2
  /\ asked' = [asked EXCEPT ![pending] = @ + 1]
  /\ UNCHANGED <<wonder, page, flight, payment, logouts, shop, pending, polling, told, forgotten,
                 links>>

Answer(o) ==
  /\ Open /\ asked[o] > 0
  /\ asked' = [asked EXCEPT ![o] = @ - 1]
  /\ IF Settled(o) THEN Tell(o) ELSE UNCHANGED <<told, polling, pending>>
  /\ UNCHANGED <<wonder, page, flight, payment, logouts, shop, forgotten, links>>

\* Five minutes have passed.
StopPolling ==
  /\ Open /\ polling
  /\ polling' = FALSE
  /\ UNCHANGED <<wonder, page, flight, payment, logouts, shop, pending, asked, told, forgotten,
                 links>>

\* start, when the app is shown again.
Focus ==
  /\ Open /\ ~polling /\ pending # NoOrder
  /\ polling' = TRUE
  /\ UNCHANGED <<wonder, page, flight, payment, logouts, shop, pending, asked, told, forgotten,
                 links>>

\* readPendingPayment drops what is older than 30 minutes.
Expire ==
  /\ wonder = "late" /\ pending # NoOrder
  /\ pending' = NoOrder
  /\ UNCHANGED <<wonder, page, flight, payment, logouts, shop, polling, asked, told, forgotten,
                 links>>

---------------------------------------------------------------------------
AppNext ==
  \/ FillCart \/ LeaveShop \/ Leave \/ OpenWallet \/ Return
  \/ SignIn \/ EndSession \/ Tick \/ Ask \/ StopPolling \/ Focus \/ Expire
  \/ \E o \in Orders :
       \/ PlaceOrder(o) \/ Tokenize(o) \/ Serve(o) \/ LoseReply(o) \/ CompleteDemoPayment(o)
       \/ ReplyRedirect(o) \/ ReplyFree(o) \/ ReplyDemo(o) \/ ReplyError(o)
       \/ PayByLink(o) \/ Answer(o)

\* Requests are answered and links load; a member who has left comes back, signs in, and
\* looks at the app again.  A poll asks whenever it starts, so that it cannot be stopped
\* every time before it does.
AppFairness ==
  /\ \A o \in Orders : WF_appVars(Serve(o)) /\ WF_appVars(ReplyFree(o)) /\ WF_appVars(Answer(o))
  /\ WF_appVars(Leave) /\ WF_appVars(Return) /\ WF_appVars(SignIn) /\ WF_appVars(Focus)
  /\ SF_appVars(Tick) /\ SF_appVars(Ask)

AppSpec == AppInit /\ [][AppNext]_appVars /\ AppFairness

---------------------------------------------------------------------------
(* Properties *)

\* A basket is not paid for twice: the cart is gone once its order can be paid, because the
\* page was left or the app reset it.  Each exception leaves it there with a button that can
\* be pressed, and every click is a new order to the server, its idempotencyKey is new
\* (handlePlaceOrder).
PaidOnce ==
  wonder \notin {"outlives", "instant", "lost", "again", "switch"} =>
    \A o, p \in Orders : holds[o] = holds[p] /\ {payment[o], payment[p]} = {"SUCCEEDED"} => o = p

\* The member is told once how a payment ended, by the address, by the poll or by an alert,
\* unless queries overlap, or a link opened earlier is paid while the poll asks about a later
\* one (the effects of App.tsx).
ToldOnce == wonder \notin {"slow", "links"} => \A o \in Orders : told[o] <= 1

\* Who has paid is told so in the end, on whatever way the page came back, also if the poll
\* had given up or the session ended, unless a later order took the payment's place
\* (pendingPayment.ts remembers one; the poll and the address clear it).
PaidIsTold ==
  wonder \notin {"slow", "instant", "lost", "again", "late", "switch", "links"} =>
    \A o \in Orders :
      payment[o] = "SUCCEEDED" ~> told[o] > 0 \/ o \in forgotten
============================================================================
