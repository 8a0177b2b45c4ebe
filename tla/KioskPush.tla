------------------------------ MODULE KioskPush ------------------------------
(***************************************************************************)
(* The recommendation bar of the kiosk: aiRecommendationController of      *)
(* frontend/kiosk/app.js with recommendationContinuity.js, the screens     *)
(* that hide it, and the item that modules/recommendation picks for it.    *)
(* A handler runs to its end or to its await; what it awaits comes back    *)
(* after any number of other handlers, whatever has been stopped since.    *)
(* The features and the menu do not change, and every item has a price.    *)
(***************************************************************************)
EXTENDS Naturals, Sequences

CONSTANTS
  Items,        \* items of the menu with a price
  Default,      \* the item that pickDefaultRecommendation finds
  NoItem,       \* no current recommendation
  Slots,        \* requests in flight; bound
  MaxOrders,    \* orders begun at the kiosk; bound
  LeavesRequest \* TRUE: customers go home while a request or a start is under way

ASSUME KioskPushAssumption ==
  /\ Default \in Items /\ NoItem \notin Items
  /\ MaxOrders \in Nat
  /\ LeavesRequest \in BOOLEAN

VARIABLES
  order,    \* orders begun so far: the last is the one of the customer
  ui,       \* what the eligibility of the bar asks of the page
  due,      \* starts of the controller that wait for their 600 ms
  started,  \* history: the controller was started in this order
  push,     \* the locals of the controller, and its bar
  net       \* requests that were sent, each in its slot

kioskPush == <<order, ui, due, started, push, net>>

\* A candidate, with the order it was asked for.
Candidate == [item : Items, order : 0..MaxOrders]
Request == [kind : {"fetch", "prefetch"}, exclude : SUBSET Items, anew : BOOLEAN,
            order : 0..MaxOrders]
Free == [kind |-> "none"]

StartPage == [running |-> FALSE, completed |-> FALSE, cart |-> FALSE, payment |-> FALSE,
              visible |-> TRUE]
Stopped == [timer |-> FALSE, flight |-> FALSE, current |-> NoItem, seen |-> {},
            ready |-> <<>>, bar |-> FALSE]

KioskPushTypeOK ==
  /\ order \in 0..MaxOrders /\ due \in Nat /\ started \in BOOLEAN
  /\ ui \in [{"running", "completed", "cart", "payment", "visible"} -> BOOLEAN]
  /\ push.timer \in BOOLEAN /\ push.flight \in BOOLEAN /\ push.bar \in BOOLEAN
  /\ push.current \in Items \cup {NoItem}
  /\ push.seen \subseteq Candidate /\ push.ready \in Seq(Candidate)
  /\ net \in [Slots -> Request \cup {Free}]

KioskPushInit ==
  /\ order = 0 /\ ui = StartPage /\ due = 0 /\ started = FALSE
  /\ push = Stopped /\ net = [s \in Slots |-> Free]

-----------------------------------------------------------------------------
(* The controller.  Each operator gives its locals p, on the page u, their *)
(* next values and the request that is sent meanwhile, if any.             *)

BarEligible(u) == u.running /\ ~ u.completed /\ ~ u.payment /\ ~ u.cart /\ u.visible

Result(p, sent) == [push |-> p, sent |-> sent]
Own(item) == [item |-> item, order |-> order]
ItemsOf(candidates) == {c.item : c \in candidates}

Asking(p, kind, anew) ==
  {[kind |-> kind, exclude |-> ItemsOf(p.seen), anew |-> anew, order |-> order]}

\* renderRecommendation
Render(p, u, c) ==
  [p EXCEPT !.current = c.item, !.seen = @ \cup {c}, !.bar = BarEligible(u)]

Hide(p) == [p EXCEPT !.bar = FALSE, !.timer = TRUE]

PrefetchNext(p, u) ==
  Result(p, IF p.ready = <<>> /\ BarEligible(u) THEN Asking(p, "prefetch", TRUE) ELSE {})

\* anew is excludeCurrentItem.
Fetch(p, u, anew) ==
  CASE ~ BarEligible(u) -> Result(Hide(p), {})
    [] BarEligible(u) /\ p.flight ->
         Result([p EXCEPT !.bar = @ \/ p.current # NoItem, !.timer = TRUE], {})
    [] BarEligible(u) /\ ~ p.flight /\ anew /\ p.ready # <<>> ->
         PrefetchNext([Render([p EXCEPT !.ready = Tail(@)], u, Head(p.ready))
                         EXCEPT !.timer = TRUE], u)
    [] OTHER -> Result([p EXCEPT !.flight = TRUE], Asking(p, "fetch", anew))

StartController(p, u) ==
  LET shown == Render(p, u, Own(Default))
  IN IF BarEligible(u) THEN Fetch(shown, u, FALSE) ELSE Result([shown EXCEPT !.timer = TRUE], {})

\* Mutant of Stop: what the customer has seen is kept.
StopKeepsSeen(p) == [Stopped EXCEPT !.seen = p.seen]

Stop(p) == Stopped

\* syncVisibility
Sync(p, u) ==
  CASE ~ BarEligible(u) -> Result(Hide(p), {})
    [] BarEligible(u) /\ p.current # NoItem -> Result([p EXCEPT !.bar = TRUE, !.timer = TRUE], {})
    [] OTHER -> LET shown == Render(p, u, Own(Default))
                IN IF p.flight THEN Result(shown, {}) ELSE Fetch(shown, u, FALSE)

\* The result takes effect; what is sent takes a slot that is free in slots.
Take(result, slots) ==
  /\ push' = result.push
  /\ IF result.sent = {}
     THEN net' = slots
     ELSE \E s \in Slots, request \in result.sent :
            slots[s] = Free /\ net' = [slots EXCEPT ![s] = request]

-----------------------------------------------------------------------------
(* Timers and answers.                                                     *)

StartFires ==
  /\ due > 0
  /\ due' = due - 1
  /\ started' = ui.running
  /\ Take(StartController(push, ui), net)
  /\ UNCHANGED <<order, ui>>

PushTimerFires ==
  /\ push.timer
  /\ LET p == [push EXCEPT !.timer = FALSE]
     IN Take(IF ~ BarEligible(ui) THEN Result(Hide(p), {})
             ELSE Fetch([p EXCEPT !.bar = @ \/ p.current # NoItem], ui, TRUE), net)
  /\ UNCHANGED <<order, ui, due, started>>

\* generate picks among the items that are not excluded; when none is left it
\* falls back to one that is.
Generated(exclude) == IF Items \ exclude = {} THEN Items ELSE Items \ exclude

\* pickRandomRecommendation
Local(anew) == IF anew /\ Items # {push.current} THEN Items \ {push.current} ELSE Items

\* The item of an answer, or one of the kiosk's own when the request fails, is
\* shown whatever happened since the request.
FetchReturns(s) ==
  /\ net[s].kind = "fetch"
  /\ \E item \in Generated(net[s].exclude) \cup Local(net[s].anew) :
       Take(PrefetchNext([Render(push, ui, [item |-> item, order |-> net[s].order])
                            EXCEPT !.flight = FALSE, !.timer = TRUE], ui),
            [net EXCEPT ![s] = Free])
  /\ UNCHANGED <<order, ui, due, started>>

\* A prefetch that fails, or brings what was seen by now, is forgotten.
PrefetchReturns(s) ==
  /\ net[s].kind = "prefetch"
  /\ net' = [net EXCEPT ![s] = Free]
  /\ \/ UNCHANGED push
     \/ \E item \in Generated(net[s].exclude) \ ItemsOf(push.seen) :
          push' = [push EXCEPT !.ready = Append(@, [item |-> item, order |-> net[s].order])]
  /\ UNCHANGED <<order, ui, due, started>>

-----------------------------------------------------------------------------
(* The customer.                                                           *)

\* runPosStartup
BeginOrder ==
  /\ ~ ui.running /\ order < MaxOrders
  /\ order' = order + 1
  /\ ui' = [StartPage EXCEPT !.running = TRUE, !.visible = ui.visible]
  /\ due' = due + 1
  /\ started' = FALSE
  /\ UNCHANGED <<push, net>>

Refresh ==
  /\ push.bar
  /\ Take(Fetch(push, ui, TRUE), net)
  /\ UNCHANGED <<order, ui, due, started>>

\* aiPushPickBtn
Pick ==
  /\ push.bar
  /\ push' = [push EXCEPT !.timer = TRUE]
  /\ UNCHANGED <<order, ui, due, started, net>>

\* hideVoiceAssistOverlay and the end of a voice turn, at any moment.
VoiceEvent ==
  /\ Take(Sync(push, ui), net)
  /\ UNCHANGED <<order, ui, due, started>>

InOrder == ui.running /\ ~ ui.completed /\ ~ ui.payment
OnMenu == InOrder /\ ~ ui.cart

\* onRecommendationTarget: a banner of the menu or of the cart.
PressBanner ==
  /\ InOrder
  /\ Take(StartController(push, ui), net)
  /\ UNCHANGED <<order, ui, due, started>>

OpenCart ==
  /\ OnMenu
  /\ ui' = [ui EXCEPT !.cart = TRUE]
  /\ push' = [push EXCEPT !.bar = FALSE]
  /\ UNCHANGED <<order, due, started, net>>

\* hideCartScreen: the customer goes on or empties the cart.
HideCartScreen ==
  /\ ui.cart
  /\ ui' = [ui EXCEPT !.cart = FALSE]
  /\ Take(Sync(push, ui'), net)
  /\ UNCHANGED <<order, due, started>>

\* showPaymentScreen, once the checkout is prepared and wherever the customer
\* is by then: it hides the cart before it shows itself, stops, and sends the
\* event of the voice overlay.  What the first call sends is on its way.
ShowPaymentScreen ==
  /\ InOrder
  /\ ui' = [ui EXCEPT !.cart = FALSE, !.payment = TRUE]
  /\ LET closed == Sync(push, [ui EXCEPT !.cart = FALSE])
     IN Take(Result(Hide(Stop(closed.push)), closed.sent), net)
  /\ UNCHANGED <<order, due, started>>

BackToCart ==
  /\ ui.payment /\ ~ ui.completed
  /\ ui' = [ui EXCEPT !.cart = TRUE, !.payment = FALSE]
  /\ push' = [push EXCEPT !.bar = FALSE]
  /\ UNCHANGED <<order, due, started, net>>

\* The order is cancelled and begins again on the menu, as the same session.
CancelOrder ==
  /\ ui.payment /\ ~ ui.completed
  /\ ui' = [ui EXCEPT !.payment = FALSE]
  /\ Take(StartController(push, ui'), net)
  /\ UNCHANGED <<order, due, started>>

OrderFinishes ==
  /\ ui.payment /\ ~ ui.completed
  /\ ui' = [ui EXCEPT !.completed = TRUE]
  /\ push' = Stop(push)
  /\ UNCHANGED <<order, due, started, net>>

FinishFails ==
  /\ ui.completed
  /\ ui' = [ui EXCEPT !.completed = FALSE]
  /\ UNCHANGED <<order, due, started, push, net>>

\* The page of the completed order is loaded again: nothing is left of it.
LoadedAgain ==
  /\ ui.completed
  /\ ui' = StartPage /\ due' = 0 /\ started' = FALSE
  /\ push' = Stopped /\ net' = [s \in Slots |-> Free]
  /\ UNCHANGED order

\* Nothing of the order is under way.
Quiet == due = 0 /\ \A s \in Slots : net[s] = Free

\* The button is on the menu only, and the page stays: hideCartScreen, stop.
GoHome ==
  /\ OnMenu
  /\ ui' = [StartPage EXCEPT !.visible = ui.visible]
  /\ LET closed == Sync(push, ui)
     IN Take(Result(Stop(closed.push), closed.sent), net)
  /\ UNCHANGED <<order, due, started>>
  /\ LeavesRequest \/ Quiet'

\* visibilitychange
Turn ==
  /\ ui' = [ui EXCEPT !.visible = ~ @]
  /\ Take(Sync(push, ui'), net)
  /\ UNCHANGED <<order, due, started>>

KioskPushNext ==
  \/ StartFires \/ PushTimerFires \/ BeginOrder
  \/ Refresh \/ Pick \/ VoiceEvent \/ PressBanner
  \/ \E s \in Slots : FetchReturns(s) \/ PrefetchReturns(s)
  \/ OpenCart \/ HideCartScreen \/ ShowPaymentScreen \/ BackToCart \/ CancelOrder
  \/ OrderFinishes \/ FinishFails \/ LoadedAgain \/ GoHome \/ Turn

KioskPushSpec == KioskPushInit /\ [][KioskPushNext]_kioskPush

-----------------------------------------------------------------------------
(* Properties.                                                             *)

\* Nothing is recommended over the cart, the payment or the start page.
BarIsInPlace == push.bar => BarEligible(ui) /\ push.current # NoItem

\* Passive recommendation continuity: on the menu of an order that was started
\* a recommendation is shown, and another one will be looked for.
MenuIsAttended ==
  started /\ BarEligible(ui) => push.bar /\ (push.timer \/ push.flight)

\* The flag that holds back further requests is of a request that will return.
FlightIsReal == push.flight => \E s \in Slots : net[s].kind = "fetch"

\* What counts as seen, and what was fetched in advance, is of this order: no
\* customer inherits the exclusions or the candidates of another.  The default
\* is for all: an order begins with it.
PushIsOfThisOrder ==
  ui.running => \A c \in push.seen \cup {push.ready[i] : i \in DOMAIN push.ready} :
                  c.order = order \/ c.item = Default

\* However requests overlap, return late or fail while the customer goes
\* through the screens, the bar shows what it should, where it should.
RecommendationIsInPlace ==
  BarIsInPlace /\ MenuIsAttended /\ FlightIsReal /\ PushIsOfThisOrder
=============================================================================
