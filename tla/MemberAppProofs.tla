--------------------------- MODULE MemberAppProofs ---------------------------
(***************************************************************************)
(* Proofs about MemberApp, for any number of orders, baskets and logouts,   *)
(* and whatever goes wrong.                                                 *)
(***************************************************************************)
EXTENDS MemberApp, TLAPS

---------------------------------------------------------------------------
(* Types *)

\* Every step keeps the types.
LEMMA TypeKept ==
  ASSUME MaxBaskets \in Nat, MaxLogouts \in Nat, AppTypes, [AppNext]_appVars
  PROVE  AppTypes'
  <1> USE DEF AppTypes, shop, poll, links, MaybeOrder, Flight, Replies
  <1>1. CASE FillCart
    BY <1>1 DEF FillCart
  <1>2. CASE LeaveShop
    BY <1>2 DEF LeaveShop
  <1>3. CASE Leave
    <2>1. flight' \in [Orders -> Flight] /\ asked' \in [Orders -> 0..2]
      BY <1>3 DEF Leave, NoQueries
    <2>2. {url, placing, demo, leaving, link, pending}' \subseteq MaybeOrder
      BY <1>3 DEF Leave
    <2>3. cart' \in 0..filled' /\ opened' \subseteq Orders
      BY <1>3 DEF Leave
    <2>4. QED BY <1>3, <2>1, <2>2, <2>3 DEF Leave
  <1>4. CASE OpenWallet
    BY <1>4 DEF OpenWallet
  <1>5. CASE Return
    BY <1>5 DEF Return
  <1>6. CASE SignIn
    <2>1. url \in Orders => [told EXCEPT ![url] = @ + 1] \in [Orders -> Nat]
      OBVIOUS
    <2>2. told' \in [Orders -> Nat] /\ pending' \in MaybeOrder
      BY <1>6, <2>1 DEF SignIn
    <2>3. QED BY <1>6, <2>2 DEF SignIn
  <1>7. CASE EndSession
    <2>1. asked' \in [Orders -> 0..2] /\ logouts' \in 0..MaxLogouts
      BY <1>7 DEF EndSession, NoQueries
    <2>2. QED BY <1>7, <2>1 DEF EndSession
  <1>8. CASE Tick \/ Ask \/ StopPolling \/ Focus \/ Expire
    <2>1. CASE Tick
      <3>1. pending \in Orders => [told EXCEPT ![pending] = @ + 1] \in [Orders -> Nat]
        OBVIOUS
      <3>2. told' \in [Orders -> Nat] /\ pending' \in MaybeOrder /\ polling' \in BOOLEAN
        BY <2>1, <3>1 DEF Tick, Tell
      <3>3. QED BY <2>1, <3>2 DEF Tick
    <2>2. CASE Ask
      BY <2>2 DEF Ask
    <2>3. CASE StopPolling \/ Focus \/ Expire
      BY <2>3 DEF StopPolling, Focus, Expire
    <2>4. QED BY <1>8, <2>1, <2>2, <2>3
  <1>9. ASSUME NEW o \in Orders, PlaceOrder(o) PROVE AppTypes'
    BY <1>9 DEF PlaceOrder
  <1>10. ASSUME NEW o \in Orders, Tokenize(o) \/ LoseReply(o) PROVE AppTypes'
    BY <1>10 DEF Tokenize, LoseReply, Release
  <1>11. ASSUME NEW o \in Orders, Serve(o) PROVE AppTypes'
    BY <1>11 DEF Serve
  <1>12. ASSUME NEW o \in Orders, CompleteDemoPayment(o) PROVE AppTypes'
    BY <1>12 DEF CompleteDemoPayment
  <1>13. ASSUME NEW o \in Orders,
                ReplyRedirect(o) \/ ReplyFree(o) \/ ReplyDemo(o) \/ ReplyError(o)
         PROVE  AppTypes'
    BY <1>13 DEF ReplyRedirect, ReplyFree, ReplyDemo, ReplyError, Replied, Release
  <1>14. ASSUME NEW o \in Orders, PayByLink(o) PROVE AppTypes'
    BY <1>14 DEF PayByLink
  <1>15. ASSUME NEW o \in Orders, Answer(o) PROVE AppTypes'
    <2>1. asked' \in [Orders -> 0..2]
      BY <1>15 DEF Answer
    <2>2. [told EXCEPT ![o] = @ + 1] \in [Orders -> Nat]
      OBVIOUS
    <2>3. told' \in [Orders -> Nat] /\ pending' \in MaybeOrder /\ polling' \in BOOLEAN
      BY <1>15, <2>2 DEF Answer, Tell
    <2>4. QED BY <1>15, <2>1, <2>3 DEF Answer
  <1>16. CASE UNCHANGED appVars
    BY <1>16 DEF appVars
  <1>17. QED BY <1>1, <1>2, <1>3, <1>4, <1>5, <1>6, <1>7, <1>8, <1>9, <1>10, <1>11, <1>12,
                <1>13, <1>14, <1>15, <1>16 DEF AppNext

\* The app keeps its types, whatever goes wrong (ShopFlow, App.tsx, pendingPayment.ts).
THEOREM AppTypesKept == AppSpec => []AppTypes
  <1>. USE AppAssumption
  <1>1. AppInit => AppTypes
    <2> SUFFICES ASSUME AppInit PROVE AppTypes
      OBVIOUS
    <2>1. /\ flight \in [Orders -> Flight] /\ holds \in [Orders -> 0..filled]
          /\ asked \in [Orders -> 0..2] /\ told \in [Orders -> Nat]
          /\ payment \in [Orders -> {"none", "OPEN", "SUCCEEDED", "FAILED"}]
      BY DEF AppInit, Flight
    <2>2. cart \in 0..filled /\ filled \in 0..MaxBaskets /\ logouts \in 0..MaxLogouts
      BY DEF AppInit
    <2>3. QED BY <2>1, <2>2 DEF AppInit, AppTypes, MaybeOrder
  <1>2. QED BY <1>1, TypeKept, PTL DEF AppSpec

---------------------------------------------------------------------------
(* A basket is not paid for twice *)

\* What may leave the cart where it is while its order is paid, see PaidOnce.
KeepsCart == {"outlives", "instant", "lost", "again", "switch"}

\* A handlePlaceOrder that has not ended.
InFlight(o) == flight[o] \notin {"new", "over"}

\* The app does one thing at a time: it places the cart's order, goes to a link, or shows the
\* demo's screen.
OneThing ==
  /\ placing # NoOrder => leaving = NoOrder /\ demo = NoOrder
  /\ leaving # NoOrder => demo = NoOrder
  /\ \A o \in Orders : InFlight(o) => placing = o /\ holds[o] = cart /\ cart # 0

\* What an order has been through: no payment before it is served, no link before the reply,
\* and the demo's orders have none.
Placed ==
  \A o \in Orders :
    /\ flight[o] \in {"new", "tokenize", "asked", "refused"} => payment[o] = "none"
    /\ flight[o] \notin {"noLink", "left"}
    /\ o \in opened \cup {leaving, link, demo} => flight[o] = "over"
    /\ o \in opened \cup {leaving, link} => o # demo
    /\ flight[o] = "demo" \/ demo = o => payment[o] = "OPEN"

\* An order that is paid, or that the member has, or will have, a way to pay.
Payable(o) == o \in opened \cup {leaving, link, demo} \/ flight[o] \in {"redirect", "demo"}
PaidOrPayable(o) == payment[o] = "SUCCEEDED" \/ (payment[o] = "OPEN" /\ Payable(o))

\* The cart is that of a payable order only while the app is at it.
CartIsAtWork ==
  cart # 0 => \A o \in Orders :
    PaidOrPayable(o) /\ holds[o] = cart => o \in {placing, leaving, demo}

PayableOnce ==
  \A o, p \in Orders : PaidOrPayable(o) /\ PaidOrPayable(p) /\ holds[o] = holds[p] => o = p

BasketParts == OneThing /\ Placed /\ CartIsAtWork /\ PayableOnce
BasketInv == wonder \notin KeepsCart => BasketParts

\* One sort of thing goes wrong in a behaviour.
LEMMA WonderStays ==
  ASSUME [AppNext]_appVars
  PROVE  wonder' = wonder
  BY DEF AppNext, appVars, FillCart, LeaveShop, Leave, OpenWallet, Return, SignIn, EndSession, Tick, Ask,
         StopPolling, Focus, Expire, PlaceOrder, Tokenize, Serve, LoseReply, CompleteDemoPayment,
         ReplyRedirect, ReplyFree, ReplyDemo, ReplyError, Replied, PayByLink, Answer

\* No basket becomes payable twice while no order becomes payable.
LEMMA FewerPayable ==
  ASSUME PayableOnce, holds' = holds,
         \A o \in Orders : PaidOrPayable(o)' => PaidOrPayable(o)
  PROVE  PayableOnce'
  BY DEF PayableOnce

\* Nothing happens to the baskets: links may be given up.
Apart ==
  /\ UNCHANGED <<flight, holds, cart, placing, leaving, demo, payment>>
  /\ opened' \subseteq opened /\ link' \in {link, NoOrder}

\* Such a step keeps the invariant.
LEMMA ApartKept ==
  ASSUME NoOrder \notin Orders, BasketParts, Apart
  PROVE  BasketParts'
  <1>1. \A o \in Orders : PaidOrPayable(o)' => PaidOrPayable(o)
    BY DEF Apart, PaidOrPayable, Payable
  <1>2. OneThing' /\ Placed'
    BY DEF Apart, BasketParts, OneThing, Placed, InFlight
  <1>3. CartIsAtWork'
    BY <1>1 DEF Apart, BasketParts, CartIsAtWork
  <1>4. PayableOnce'
    BY <1>1, FewerPayable DEF Apart, BasketParts
  <1>5. QED BY <1>2, <1>3, <1>4 DEF BasketParts

\* The shop's screens go, and with them the demo's.
\* The order of a demo that is left can no longer be paid, so its basket is free again.
LEMMA ScreensKept ==
  ASSUME NoOrder \notin Orders, BasketParts, placing = NoOrder, placing' = NoOrder, demo' = NoOrder,
         UNCHANGED <<flight, holds, cart, leaving, payment, opened, link>>
  PROVE  BasketParts'
  <1>1. \A o \in Orders : PaidOrPayable(o)' => PaidOrPayable(o) /\ o # demo
    BY DEF PaidOrPayable, Payable, BasketParts, Placed, OneThing, CartIsAtWork
  <1>2. OneThing' /\ Placed'
    BY DEF BasketParts, OneThing, Placed, InFlight
  <1>3. CartIsAtWork'
    BY <1>1 DEF BasketParts, CartIsAtWork
  <1>4. PayableOnce'
    BY <1>1, FewerPayable DEF BasketParts
  <1>5. QED BY <1>2, <1>3, <1>4 DEF BasketParts

\* With the reply the cart goes, or the app goes on with its order, or it cannot be paid.
LEMMA ReplyKept ==
  ASSUME NoOrder \notin Orders, AppTypes, BasketParts, NEW o \in Orders,
         ReplyRedirect(o) \/ ReplyFree(o) \/ ReplyDemo(o) \/ ReplyError(o)
  PROVE  BasketParts'
  <1> USE DEF AppTypes, shop, poll, links, Replied, Release, BasketParts
  <1>0. InFlight(o) /\ placing = o /\ placing' = NoOrder /\ flight' = [flight EXCEPT ![o] = "over"]
        /\ \A p \in Orders : p # o => ~InFlight(p)
    BY DEF ReplyRedirect, ReplyFree, ReplyDemo, ReplyError, InFlight, OneThing
  <1>1. \A p \in Orders : PaidOrPayable(p)' => PaidOrPayable(p)
    BY <1>0 DEF ReplyRedirect, ReplyFree, ReplyDemo, ReplyError, PaidOrPayable, Payable
  <1>2. OneThing'
    BY <1>0 DEF ReplyRedirect, ReplyFree, ReplyDemo, ReplyError, OneThing, InFlight
  <1>3. Placed'
    BY <1>0 DEF ReplyRedirect, ReplyFree, ReplyDemo, ReplyError, Placed, InFlight
  <1>4. CartIsAtWork'
    <2>1. CASE ReplyFree(o)
      BY <2>1 DEF ReplyFree, CartIsAtWork
    <2>2. CASE ReplyRedirect(o) \/ ReplyDemo(o)
      <3>1. cart' = cart /\ o \in {leaving', demo'}
        BY <1>0, <2>2 DEF ReplyRedirect, ReplyDemo
      <3>2. leaving = NoOrder /\ demo = NoOrder /\ holds' = holds
        BY <1>0, <2>2 DEF ReplyRedirect, ReplyDemo, OneThing
      <3>3. QED BY <1>0, <1>1, <3>1, <3>2 DEF CartIsAtWork
    <2>3. CASE ReplyError(o)
      <3>1. ~PaidOrPayable(o)'
        BY <1>0, <2>3 DEF ReplyError, PaidOrPayable, Payable, Placed
      <3>2. QED BY <1>0, <1>1, <2>3, <3>1 DEF ReplyError, CartIsAtWork
    <2>4. QED BY <2>1, <2>2, <2>3
  <1>5. PayableOnce'
    BY <1>1, FewerPayable DEF ReplyRedirect, ReplyFree, ReplyDemo, ReplyError
  <1>6. QED BY <1>2, <1>3, <1>4, <1>5

\* An order is placed, and served, only while no other order of its basket can be paid.
LEMMA PlacingKept ==
  ASSUME NoOrder \notin Orders, AppTypes, BasketParts, NEW o \in Orders, wonder \notin KeepsCart,
         PlaceOrder(o) \/ Tokenize(o) \/ Serve(o)
  PROVE  BasketParts'
  <1> USE DEF AppTypes, shop, poll, links, BasketParts
  <1>1. CASE PlaceOrder(o)
    <2>1. leaving = NoOrder /\ placing = NoOrder /\ demo = NoOrder /\ cart # 0
          /\ flight[o] = "new" /\ flight'[o] \in {"tokenize", "asked"} /\ holds'[o] = cart
          /\ placing' = o /\ (\A p \in Orders : p # o => flight'[p] = flight[p] /\ holds'[p] = holds[p])
          /\ UNCHANGED <<cart, demo, leaving, link, opened, payment>>
      BY <1>1 DEF PlaceOrder, KeepsCart
    <2>2. OneThing' /\ Placed'
      BY <2>1 DEF OneThing, Placed, InFlight
    <2>3. ~PaidOrPayable(o)'
      BY <2>1 DEF PaidOrPayable, Payable, Placed
    <2>4. \A p \in Orders : p # o /\ PaidOrPayable(p)' => PaidOrPayable(p)
      BY <2>1 DEF PaidOrPayable, Payable
    <2>5. CartIsAtWork'
      BY <2>1, <2>3, <2>4 DEF CartIsAtWork
    <2>6. PayableOnce'
      BY <2>1, <2>3, <2>4 DEF PayableOnce
    <2>7. QED BY <2>2, <2>5, <2>6
  <1>2. CASE Tokenize(o)
    <2>1. InFlight(o) /\ payment[o] = "none"
      BY <1>2 DEF Tokenize, InFlight, Placed
    <2>2. placing = o /\ \A p \in Orders : p # o => ~InFlight(p)
      BY <2>1 DEF OneThing
    <2>3. OneThing' /\ Placed'
      BY <1>2, <2>1, <2>2 DEF Tokenize, Release, OneThing, Placed, InFlight
    <2>4. \A p \in Orders : PaidOrPayable(p)' => PaidOrPayable(p) /\ p # o
      BY <1>2, <2>1 DEF Tokenize, PaidOrPayable, Payable
    <2>5. CartIsAtWork'
      BY <1>2, <2>2, <2>4 DEF Tokenize, Release, CartIsAtWork
    <2>6. PayableOnce'
      BY <1>2, <2>4, FewerPayable DEF Tokenize
    <2>7. QED BY <2>3, <2>5, <2>6
  <1>3. CASE Serve(o)
    <2>1. flight[o] = "asked" /\ placing = o /\ holds[o] = cart /\ cart # 0
          /\ UNCHANGED <<cart, placing, leaving, demo, link, opened, holds>>
      BY <1>3 DEF Serve, InFlight, Placed, OneThing
    <2>2. PICK s \in {"redirect", "free", "demo", "refused"} :
            /\ s = "demo" => payment' = [payment EXCEPT ![o] = "OPEN"]
            /\ flight' = [flight EXCEPT ![o] = s]
            /\ s = "refused" => payment' = [payment EXCEPT ![o] = "none"]
            /\ \A p \in Orders : p # o => payment'[p] = payment[p]
      <3>1. PICK s \in Replies :
              /\ s = "noLink" => wonder = "instant"
              /\ flight' = [flight EXCEPT ![o] = IF @ = "asked" THEN s ELSE "over"]
              /\ payment' = [payment EXCEPT ![o] = CASE s \in {"redirect", "demo"} -> "OPEN"
                                                     [] s \in {"free", "noLink"} -> "SUCCEEDED"
                                                     [] OTHER -> "none"]
        BY <1>3 DEF Serve
      <3>2. s # "noLink" /\ flight' = [flight EXCEPT ![o] = s]
        BY <2>1, <3>1 DEF KeepsCart
      <3>3. /\ s = "refused" => payment' = [payment EXCEPT ![o] = "none"]
            /\ s = "demo" => payment' = [payment EXCEPT ![o] = "OPEN"]
        BY <3>1
      <3>4. QED BY <3>1, <3>2, <3>3 DEF Replies
    <2>3. OneThing'
      BY <2>1, <2>2 DEF OneThing, InFlight
    <2>4. Placed'
      BY <2>1, <2>2 DEF Placed
    <2>5. \A p \in Orders : p # o => (PaidOrPayable(p)' => PaidOrPayable(p)) /\ holds[p] = holds'[p]
      BY <2>1, <2>2 DEF PaidOrPayable, Payable
    <2>6. CartIsAtWork'
      BY <2>1, <2>5 DEF CartIsAtWork
    <2>7. \A p \in Orders : p # o /\ PaidOrPayable(p) => holds[p] # holds[o]
      BY <2>1 DEF CartIsAtWork, OneThing
    <2>8. PayableOnce'
      BY <2>1, <2>5, <2>7 DEF PayableOnce
    <2>9. QED BY <2>3, <2>4, <2>6, <2>8
  <1>4. QED BY <1>1, <1>2, <1>3

\* The cart goes with the page.
LEMMA LeaveKept ==
  ASSUME NoOrder \notin Orders, AppTypes, BasketParts, Leave
  PROVE  BasketParts'
  <1> USE DEF AppTypes, shop, poll, links, BasketParts
  <1>1. placing = NoOrder /\ demo = NoOrder /\ \A o \in Orders : ~InFlight(o)
    BY DEF Leave, OneThing
  <1>2. \A o \in Orders : flight'[o] = flight[o]
    BY <1>1 DEF Leave, InFlight
  <1>3. OneThing'
    BY <1>1, <1>2 DEF Leave, OneThing, InFlight
  <1>4. Placed'
    BY <1>1, <1>2 DEF Leave, Placed
  <1>5. \A o \in Orders : PaidOrPayable(o)' => PaidOrPayable(o)
    BY <1>2 DEF Leave, PaidOrPayable, Payable
  <1>6. PayableOnce'
    BY <1>5, FewerPayable DEF Leave
  <1>7. CartIsAtWork'
    BY DEF Leave, CartIsAtWork
  <1>8. QED BY <1>3, <1>4, <1>6, <1>7

\* Only what can be paid is paid.
LEMMA PaysKept ==
  ASSUME NoOrder \notin Orders, AppTypes, BasketParts, NEW o \in Orders, wonder \notin KeepsCart,
         PayByLink(o) \/ CompleteDemoPayment(o)
  PROVE  BasketParts'
  <1> USE DEF AppTypes, shop, poll, links, BasketParts
  <1>1. payment[o] = "OPEN" /\ Payable(o) /\ flight[o] = "over"
    BY DEF PayByLink, CompleteDemoPayment, Payable, Placed
  <1>2. \A p \in Orders : p # o => payment'[p] = payment[p]
    BY DEF PayByLink, CompleteDemoPayment
  <1>3. UNCHANGED <<flight, holds, placing, leaving, link, opened>>
    BY DEF PayByLink, CompleteDemoPayment
  <1>4. demo' \in {demo, NoOrder} /\ ((cart' = cart /\ demo' = demo) \/ cart' = 0)
    BY DEF PayByLink, CompleteDemoPayment, KeepsCart
  <1>5. \A p \in Orders : PaidOrPayable(p)' => PaidOrPayable(p)
    BY <1>1, <1>2, <1>3, <1>4 DEF PaidOrPayable, Payable
  <1>6. CartIsAtWork'
    BY <1>3, <1>4, <1>5 DEF CartIsAtWork
  <1>7. PayableOnce'
    BY <1>3, <1>5, FewerPayable
  <1>8. OneThing'
    <2>1. CASE PayByLink(o)
      BY <2>1, <1>3 DEF PayByLink, OneThing, InFlight
    <2>2. CASE CompleteDemoPayment(o)
      <3>1. placing = NoOrder /\ \A p \in Orders : ~InFlight(p)
        BY <2>2 DEF CompleteDemoPayment, OneThing
      <3>2. QED BY <1>3, <1>4, <3>1 DEF OneThing, InFlight
    <2>3. QED BY <2>1, <2>2
  <1>9. Placed'
    <2>1. o # demo'
      BY DEF PayByLink, CompleteDemoPayment, KeepsCart, Placed
    <2>2. QED BY <1>1, <1>2, <1>3, <1>4, <2>1 DEF Placed
  <1>10. QED BY <1>6, <1>7, <1>8, <1>9

\* A new basket is nobody's.
LEMMA FillKept ==
  ASSUME NoOrder \notin Orders, MaxBaskets \in Nat, AppTypes, BasketParts, FillCart
  PROVE  BasketParts'
  <1> USE DEF AppTypes, shop, poll, links, BasketParts
  <1>1. cart = 0 /\ cart' = filled + 1 /\ filled \in Nat
        /\ UNCHANGED <<flight, holds, payment, placing, leaving, link, demo, opened>>
    BY DEF FillCart
  <1>2. \A o \in Orders : holds[o] # filled + 1
    BY <1>1
  <1>3. \A o \in Orders : PaidOrPayable(o)' => PaidOrPayable(o)
    BY <1>1 DEF PaidOrPayable, Payable
  <1>4. OneThing' /\ Placed'
    BY <1>1 DEF OneThing, Placed, InFlight
  <1>5. CartIsAtWork'
    BY <1>1, <1>2 DEF CartIsAtWork
  <1>6. PayableOnce'
    BY <1>1, <1>3, FewerPayable
  <1>7. QED BY <1>4, <1>5, <1>6

\* Every step keeps BasketInv.
LEMMA BasketKept ==
  ASSUME NoOrder \notin Orders, MaxBaskets \in Nat
  PROVE  AppTypes /\ BasketInv /\ [AppNext]_appVars => BasketInv'
  <1> SUFFICES ASSUME AppTypes, [AppNext]_appVars, wonder \notin KeepsCart, BasketParts
               PROVE  BasketParts'
    BY WonderStays DEF BasketInv
  <1> USE DEF shop, poll, links
  <1>1. CASE Return \/ SignIn \/ Tick \/ Ask \/ StopPolling \/ Focus \/ Expire
    BY <1>1, ApartKept DEF Apart, Return, SignIn, Tick, Ask, StopPolling, Focus, Expire
  <1>2. ASSUME NEW o \in Orders, Answer(o) PROVE BasketParts'
    BY <1>2, ApartKept DEF Apart, Answer
  <1>3. CASE UNCHANGED appVars
    BY <1>3, ApartKept DEF Apart, appVars
  <1>4. CASE LeaveShop \/ EndSession
    <2>1. placing = NoOrder
      BY <1>4 DEF LeaveShop, EndSession, KeepsCart, BasketParts, OneThing
    <2>2. QED BY <1>4, <2>1, ScreensKept DEF LeaveShop, EndSession
  <1>5. CASE FillCart
    BY <1>5, FillKept
  <1>6. CASE Leave
    BY <1>6, LeaveKept
  <1>7. CASE OpenWallet
    BY <1>7 DEF OpenWallet, KeepsCart
  <1>8. ASSUME NEW o \in Orders, LoseReply(o) PROVE FALSE
    BY <1>8 DEF LoseReply, KeepsCart
  <1>9. QED BY <1>1, <1>2, <1>3, <1>4, <1>5, <1>6, <1>7, <1>8, PlacingKept, ReplyKept, PaysKept
        DEF AppNext

\* The inductive invariant of handlePlaceOrder: a basket has at most one order that is paid or
\* can be, and the cart holds it only while the app places that order, goes to its link or
\* shows its demo.
THEOREM BasketInvariant == AppSpec => []BasketInv
  <1>. USE AppAssumption
  <1>1. AppInit => BasketInv
    BY DEF AppInit, BasketInv, BasketParts, OneThing, Placed, InFlight, CartIsAtWork, PayableOnce,
           PaidOrPayable, Payable
  <1>2. QED BY <1>1, BasketKept, AppTypesKept, PTL DEF AppSpec

\* A basket is not paid for twice unless the cart outlives its order in one of the ways that
\* PaidOnce names (handlePlaceOrder).
THEOREM BasketsPaidOnce == AppSpec => []PaidOnce
  <1>. USE AppAssumption
  <1>1. BasketInv => PaidOnce
    BY DEF BasketInv, BasketParts, PaidOnce, KeepsCart, PayableOnce, PaidOrPayable
  <1>2. QED BY <1>1, BasketInvariant, PTL

---------------------------------------------------------------------------
(* The member is told once *)

\* What a payment has been through, so that there is one way at a time to tell how it ended.
Ways ==
  \A o \in Orders :
    /\ flight[o] # "over" => o \notin {pending, url, link, leaving, demo}
    /\ demo = o => o \notin {pending, url, link, leaving}
    /\ leaving = o => o \notin {link, url}
    /\ flight[o] = "free" => payment[o] = "SUCCEEDED"
    /\ flight[o] = "redirect" \/ leaving = o => payment[o] = "OPEN"
    /\ url = o => Settled(o)
    /\ asked[o] = 0

\* Who was told of a payment will not be told again.
Told ==
  \A o \in Orders :
    told[o] # 0 => /\ told[o] = 1 /\ flight[o] = "over" /\ payment[o] # "OPEN"
                   /\ o \notin {pending, url, leaving}
                   /\ page = "away" => link # o

ToldParts == /\ page = "member" => url = NoOrder
             /\ Ways /\ Told
ToldInv == wonder \notin {"slow", "links"} => ToldParts

\* Every step keeps ToldInv.
LEMMA ToldKept ==
  ASSUME NoOrder \notin Orders
  PROVE  AppTypes /\ ToldInv /\ [AppNext]_appVars => ToldInv'
  <1> SUFFICES ASSUME AppTypes, [AppNext]_appVars, wonder \notin {"slow", "links"}, ToldParts
               PROVE  ToldParts'
    BY WonderStays DEF ToldInv
  <1> USE DEF AppTypes, shop, poll, links, ToldParts, Settled
  <1>1. CASE FillCart \/ LeaveShop \/ StopPolling \/ Focus \/ Expire
    BY <1>1 DEF FillCart, LeaveShop, StopPolling, Focus, Expire, Ways, Told
  <1>2. CASE Leave
    <2>1. leaving \in Orders /\ told[leaving] = 0
      BY <1>2 DEF Leave, Told, MaybeOrder
    <2>2. \A o \in Orders : /\ flight[o] = "over" => flight'[o] = "over"
                            /\ flight'[o] \notin {"free", "redirect"} /\ asked'[o] = 0
      BY <1>2 DEF Leave, NoQueries
    <2>3. UNCHANGED <<payment, url, pending, told>> /\ link' = leaving
          /\ leaving' = NoOrder /\ demo' = NoOrder /\ page' = "away"
      BY <1>2 DEF Leave
    <2>4. Ways'
      BY <2>2, <2>3 DEF Ways
    <2>5. Told'
      BY <2>1, <2>2, <2>3 DEF Told
    <2>6. QED BY <2>3, <2>4, <2>5
  <1>3. CASE OpenWallet
    <2>1. leaving \in Orders /\ told[leaving] = 0
      BY <1>3 DEF OpenWallet, Told, MaybeOrder
    <2>2. QED BY <1>3, <2>1 DEF OpenWallet, Ways, Told
  <1>4. CASE Return
    <2>1. url' \in {NoOrder, link} /\ (url' # NoOrder => Settled(url'))
          /\ UNCHANGED <<flight, payment, told, pending, leaving, demo, asked>>
          /\ link' \in {link, NoOrder} /\ page = "away" /\ page' = "phone"
      BY <1>4 DEF Return
    <2>2. Ways'
      BY <2>1 DEF Ways
    <2>3. Told'
      BY <2>1 DEF Told
    <2>4. QED BY <2>1, <2>2, <2>3
  <1>5. CASE SignIn
    BY <1>5 DEF SignIn, Ways, Told, MaybeOrder
  <1>6. CASE EndSession
    BY <1>6 DEF EndSession, NoQueries, Ways, Told
  <1>7. CASE Tick
    <2>1. page = "member" /\ UNCHANGED <<page, flight, payment, url, link, leaving, demo, asked>>
      BY <1>7 DEF Tick, Open
    <2>2. CASE UNCHANGED <<pending, told>>
      BY <2>1, <2>2 DEF Ways, Told
    <2>3. CASE pending \in Orders /\ Settled(pending) /\ Tell(pending)
      <3>1. told[pending] = 0 /\ flight[pending] = "over" /\ pending \notin {url, leaving}
        BY <2>1, <2>3 DEF Ways, Told
      <3>2. told' = [told EXCEPT ![pending] = 1] /\ pending' = NoOrder
        BY <2>3, <3>1 DEF Tell
      <3>3. Ways'
        BY <2>1, <3>2 DEF Ways
      <3>4. Told'
        BY <2>1, <2>3, <3>1, <3>2 DEF Told
      <3>5. QED BY <2>1, <3>3, <3>4
    <2>4. QED BY <1>7, <2>2, <2>3 DEF Tick, MaybeOrder
  <1>8. CASE Ask
    BY <1>8 DEF Ask
  <1>9. ASSUME NEW o \in Orders, PlaceOrder(o) \/ Tokenize(o) PROVE ToldParts'
    BY <1>9 DEF PlaceOrder, Tokenize, Release, Ways, Told
  <1>10. ASSUME NEW o \in Orders, Serve(o) PROVE ToldParts'
    <2>1. told[o] = 0
      BY <1>10 DEF Serve, Told
    <2>2. PICK s \in Replies :
            /\ flight' = [flight EXCEPT ![o] = IF @ = "asked" THEN s ELSE "over"]
            /\ payment' = [payment EXCEPT ![o] = CASE s \in {"redirect", "demo"} -> "OPEN"
                                                   [] s \in {"free", "noLink"} -> "SUCCEEDED"
                                                   [] OTHER -> "none"]
      BY <1>10 DEF Serve
    <2>3. /\ flight'[o] = "free" => payment'[o] = "SUCCEEDED"
          /\ flight'[o] = "redirect" => payment'[o] = "OPEN"
      BY <2>2
    <2>4. \A p \in Orders : p # o => flight'[p] = flight[p] /\ payment'[p] = payment[p]
      BY <2>2
    <2>5. flight[o] # "over" /\ UNCHANGED <<told, pending, url, link, leaving, demo, asked, page>>
      BY <1>10 DEF Serve
    <2>6. Ways'
      BY <2>3, <2>4, <2>5 DEF Ways
    <2>7. Told'
      BY <2>1, <2>4, <2>5 DEF Told
    <2>8. QED BY <2>5, <2>6, <2>7
  <1>11. ASSUME NEW o \in Orders, LoseReply(o) \/ ReplyDemo(o) \/ ReplyError(o) PROVE ToldParts'
    BY <1>11 DEF LoseReply, ReplyDemo, ReplyError, Replied, Release, Ways, Told
  <1>12. ASSUME NEW o \in Orders, ReplyRedirect(o) PROVE ToldParts'
    BY <1>12 DEF ReplyRedirect, Replied, Release, Ways, Told
  <1>13. ASSUME NEW o \in Orders, ReplyFree(o) PROVE ToldParts'
    BY <1>13 DEF ReplyFree, Replied, Release, Ways, Told
  <1>14. ASSUME NEW o \in Orders, CompleteDemoPayment(o) PROVE ToldParts'
    BY <1>14 DEF CompleteDemoPayment, Ways, Told
  <1>15. ASSUME NEW o \in Orders, PayByLink(o) PROVE ToldParts'
    BY <1>15 DEF PayByLink, Ways, Told
  <1>16. ASSUME NEW o \in Orders, Answer(o) PROVE ToldParts'
    BY <1>16 DEF Answer, Ways
  <1>17. CASE UNCHANGED appVars
    BY <1>17 DEF appVars, Ways, Told
  <1>18. QED BY <1>1, <1>2, <1>3, <1>4, <1>5, <1>6, <1>7, <1>8, <1>9, <1>10, <1>11, <1>12,
                <1>13, <1>14, <1>15, <1>16, <1>17 DEF AppNext

\* The inductive invariant of the effects of App.tsx: the address, the poll, the alert and the
\* demo's screen are never two ways to tell the same payment, and none of them has a
\* payment that was told.
THEOREM ToldInvariant == AppSpec => []ToldInv
  <1>. USE AppAssumption
  <1>1. AppInit => ToldInv
    BY DEF AppInit, ToldInv, ToldParts, Ways, Told
  <1>2. QED BY <1>1, ToldKept, AppTypesKept, PTL DEF AppSpec

\* The member is told once how a payment ended, unless queries overlap or earlier links are
\* paid (the effects of App.tsx).
THEOREM MemberToldOnce == AppSpec => []ToldOnce
  <1>. USE AppAssumption
  <1>1. AppTypes /\ ToldInv => ToldOnce
    <2> SUFFICES ASSUME AppTypes, ToldInv, wonder \notin {"slow", "links"}, NEW o \in Orders
                 PROVE  told[o] <= 1
      BY DEF ToldOnce
    <2>1. told[o] \in Nat /\ told[o] \in {0, 1}
      BY DEF AppTypes, ToldInv, ToldParts, Told
    <2>2. QED BY <2>1
  <1>2. QED BY <1>1, ToldInvariant, AppTypesKept, PTL
=============================================================================
