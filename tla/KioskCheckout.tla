---------------------------- MODULE KioskCheckout ---------------------------
(***************************************************************************)
(* The browser of a kiosk from the cart to the completion screen:          *)
(* frontend/kiosk/app.js and cart.js on shared/apiClient.js, against the   *)
(* answers of the cart and checkout stores.                                *)
(*                                                                         *)
(* JavaScript runs one handler at a time, up to its next await: an action  *)
(* is what runs between two awaits, and the customer, timers, other runs   *)
(* of a handler and late answers come in between.  A request reaches the   *)
(* server in one step; what happens between the transactions of one        *)
(* request is the subject of the module Checkout.                          *)
(***************************************************************************)
EXTENDS Naturals, Sequences

CONSTANTS
  Lines,         \* what a cart can hold, other than nothing
  Empty,         \* a cart without lines
  MaxSessions,   \* bound on the ordering sessions, one after another
  MaxSequence,   \* bound on cartQuoteSequence between two reloads
  MaxCarts,      \* bound on the revision of a cart
  MaxQuotes,     \* bound on the checkout quotes
  Presses,       \* overlapping runs of the handler of the checkout button
  Payments,      \* overlapping runs of finishOrder
  Timeouts,      \* TRUE: a confirmation meets the 15 s bound of the client, or a 5xx
  LeavesCheckout \* TRUE: the customer goes home while a checkout is prepared

ASSUME KioskCheckoutAssumption ==
  /\ Empty \notin Lines
  /\ {MaxSessions, MaxSequence, MaxCarts, MaxQuotes} \subseteq Nat
  /\ {Timeouts, LeavesCheckout} \subseteq BOOLEAN

VARIABLES
  sessionId,  \* numbered; 0 before the first one
  cartLines,  \* the lines of cartManager
  quoted,     \* quoteState: its status, and the lines its total is of
  sequence,   \* cartQuoteSequence
  timer,      \* the sequence cartQuoteTimer is armed for, 0 if it is not
  priceAsked, \* requests for a price under way
  press,      \* what each run of checkoutBtn.onclick is doing
  offer,      \* activeCheckoutQuote, a quote or 0
  screen,     \* what is open, which buttons are enabled
  pay,        \* what each run of finishOrder is doing
  carts,      \* ordering_carts of the server
  quotes,     \* checkout_quotes with the outcome of their confirmation
  arriving,   \* quotes whose confirmation is on its way to the server
  failed      \* history: quotes whose checkout the customer was told had failed

prices == <<cartLines, quoted, sequence, timer, priceAsked>>
server == <<carts, quotes, arriving>>
kioskCheckout == <<sessionId, prices, press, offer, screen, pay, server, failed>>

SessionIds == 1..MaxSessions
QuoteIds == 1..Len(quotes)
Status == {"idle", "pending", "ready", "failed"}
Cart == [revision : Nat, open : BOOLEAN, lines : Lines \cup {Empty}]
Quote == [session : SessionIds, revision : Nat, active : BOOLEAN,
          outcome : {"none", "confirmed", "rejected"}]

KioskCheckoutTypeOK ==
  /\ sessionId \in 0..MaxSessions
  /\ cartLines \in Lines \cup {Empty}
  /\ quoted \in [status : Status, of : Lines \cup {Empty}]
  /\ sequence \in Nat /\ timer \in {0, sequence}
  /\ priceAsked \subseteq [sequence : 1..sequence, of : Lines]
  /\ press \in [Presses -> [at : {"off", "get", "replace", "prepare", "answer"},
                            session : 0..MaxSessions, lines : Lines \cup {Empty},
                            revision : Nat, quote : 0..MaxQuotes]]
  /\ offer \in 0..Len(quotes)
  /\ screen \in [started : BOOLEAN, payment : BOOLEAN, guide : BOOLEAN, checkout : BOOLEAN,
                 buttons : BOOLEAN, cancelled : BOOLEAN, shown : 0..MaxQuotes]
  /\ pay \in [Payments -> [at : {"off", "confirm", "resolve"}, quote : 0..MaxQuotes]]
  /\ carts \in [SessionIds -> Cart]
  /\ quotes \in Seq(Quote)
  /\ arriving \subseteq QuoteIds
  /\ failed \subseteq QuoteIds

Idle == [status |-> "idle", of |-> Empty]
NoPress == [at |-> "off", session |-> 0, lines |-> Empty, revision |-> 0, quote |-> 0]
NoPay == [at |-> "off", quote |-> 0]
StartScreen == [started |-> FALSE, payment |-> FALSE, guide |-> FALSE, checkout |-> FALSE,
                buttons |-> TRUE, cancelled |-> FALSE, shown |-> 0]

KioskCheckoutInit ==
  /\ cartLines = Empty /\ quoted = Idle /\ sequence = 0 /\ timer = 0 /\ priceAsked = {}
  /\ press = [p \in Presses |-> NoPress]
  /\ offer = 0
  /\ screen = StartScreen
  /\ pay = [w \in Payments |-> NoPay]
  /\ sessionId = 0
  /\ carts = [s \in SessionIds |-> [revision |-> 0, open |-> TRUE, lines |-> Empty]]
  /\ quotes = <<>>
  /\ arriving = {}
  /\ failed = {}

\* The customer is at the menu or the cart, with nothing on top of it.
AtMenu == screen.started /\ ~screen.payment /\ ~screen.guide /\ screen.shown = 0
AtPayment == screen.payment /\ ~screen.guide /\ screen.buttons /\ screen.shown = 0

-----------------------------------------------------------------------------
(* The cart and its price.                                                 *)

\* Every change of the cart invalidates the price and asks for another one, 120
\* ms after the last change.
CartChanged(lines) ==
  /\ sequence < MaxSequence
  /\ cartLines' = lines
  /\ sequence' = sequence + 1
  /\ timer' = IF lines = Empty THEN 0 ELSE sequence + 1
  /\ quoted' = IF lines = Empty THEN Idle ELSE [Idle EXCEPT !.status = "pending"]
  /\ UNCHANGED priceAsked

Edit ==
  /\ AtMenu
  /\ \E lines \in (Lines \cup {Empty}) \ {cartLines} : CartChanged(lines)
  /\ screen' = [screen EXCEPT !.checkout = FALSE]
  /\ UNCHANGED <<sessionId, press, offer, pay, server, failed>>

CartQuoteTimerFires ==
  /\ timer # 0
  /\ timer' = 0
  /\ priceAsked' = priceAsked \cup {[sequence |-> timer, of |-> cartLines]}
  /\ UNCHANGED <<sessionId, cartLines, quoted, sequence, press, offer, screen, pay, server, failed>>

\* Mutant of Current: an answer is applied whatever changed since it was asked.
CurrentAlways(request) == TRUE

Current(request) == request.sequence = sequence

\* The answer of quoteCart, or its failure, is ignored if the cart changed.
PriceArrives ==
  /\ \E request \in priceAsked, status \in {"ready", "failed"} :
       /\ priceAsked' = priceAsked \ {request}
       /\ IF Current(request)
          THEN /\ quoted' = [status |-> status,
                             of |-> IF status = "ready" THEN request.of ELSE Empty]
               /\ screen' = [screen EXCEPT !.checkout = (status = "ready" /\ cartLines # Empty)]
          ELSE UNCHANGED <<quoted, screen>>
  /\ UNCHANGED <<sessionId, cartLines, sequence, timer, press, offer, pay, server, failed>>

-----------------------------------------------------------------------------
(* The checkout button.                                                    *)

\* The lines are taken before the first await.
Press(p) ==
  /\ AtMenu
  /\ screen.checkout
  /\ cartLines # Empty
  /\ press[p] = NoPress
  /\ press' = [press EXCEPT ![p] =
                 [NoPress EXCEPT !.at = "get", !.session = sessionId, !.lines = cartLines]]
  /\ screen' = [screen EXCEPT !.checkout = FALSE]
  /\ UNCHANGED <<sessionId, prices, offer, pay, server, failed>>

GetCart(p) ==
  /\ press[p].at = "get"
  /\ press' = [press EXCEPT ![p] =
                 [@ EXCEPT !.at = "replace", !.revision = carts[press[p].session].revision]]
  /\ UNCHANGED <<sessionId, prices, offer, screen, pay, server, failed>>

\* The server replaces the lines of an open cart at the expected revision.
ReplaceCart(p) ==
  LET s == press[p].session
  IN /\ press[p].at = "replace"
     /\ carts[s].open
     /\ carts[s].revision = press[p].revision
     /\ carts[s].revision < MaxCarts
     /\ carts' = [carts EXCEPT ![s] =
                    [@ EXCEPT !.revision = press[p].revision + 1, !.lines = press[p].lines]]
     /\ press' = [press EXCEPT ![p] = [@ EXCEPT !.at = "prepare"]]
     /\ UNCHANGED <<sessionId, prices, offer, screen, pay, quotes, arriving, failed>>

\* prepareCheckout is called with the session of that moment.  The server hands
\* out the active quote of the revision, or replaces it.
Prepare(p) ==
  /\ press[p].at = "prepare"
  /\ sessionId # 0
  /\ carts[sessionId].open
  /\ carts[sessionId].lines # Empty
  /\ LET revision == carts[sessionId].revision
         Active(q) == quotes[q].session = sessionId /\ quotes[q].active
     IN \/ \E q \in QuoteIds :
             /\ Active(q) /\ quotes[q].revision = revision
             /\ press' = [press EXCEPT ![p] = [@ EXCEPT !.at = "answer", !.quote = q]]
             /\ UNCHANGED quotes
        \/ /\ \A q \in QuoteIds : Active(q) => quotes[q].revision # revision
           /\ Len(quotes) < MaxQuotes
           /\ quotes' = Append(
                [q \in QuoteIds |-> IF Active(q) THEN [quotes[q] EXCEPT !.active = FALSE]
                                                 ELSE quotes[q]],
                [session |-> sessionId, revision |-> revision, active |-> TRUE,
                 outcome |-> "none"])
           /\ press' = [press EXCEPT ![p] =
                          [@ EXCEPT !.at = "answer", !.quote = Len(quotes) + 1]]
  /\ UNCHANGED <<sessionId, prices, offer, screen, pay, carts, arriving, failed>>

\* The payment screen opens, whatever the customer did meanwhile; the finally
\* block enables the button.
PrepareArrives(p) ==
  /\ press[p].at = "answer"
  /\ offer' = press[p].quote
  /\ screen' = [screen EXCEPT !.payment = TRUE, !.checkout = TRUE]
  /\ press' = [press EXCEPT ![p] = NoPress]
  /\ UNCHANGED <<sessionId, prices, pay, server, failed>>

\* A request is refused or lost, or runs into the bound of the client.
PressFails(p) ==
  /\ press[p].at # "off"
  /\ press' = [press EXCEPT ![p] = NoPress]
  /\ screen' = [screen EXCEPT !.checkout = TRUE]
  /\ UNCHANGED <<sessionId, prices, offer, pay, server, failed>>

-----------------------------------------------------------------------------
(* Payment.                                                                *)

\* finishOrder disables the buttons and confirms activeCheckoutQuote, under a key
\* that session and quote determine.
FinishOrder(w, next) ==
  /\ cartLines # Empty
  /\ pay[w] = NoPay
  /\ pay' = [pay EXCEPT ![w] = [at |-> "confirm", quote |-> offer]]
  /\ arriving' = arriving \cup {offer}
  /\ screen' = [next EXCEPT !.buttons = FALSE, !.checkout = FALSE]
  /\ UNCHANGED <<sessionId, prices, press, offer, carts, quotes, failed>>

CounterPay(w) == AtPayment /\ FinishOrder(w, screen)

\* The guide is not among the buttons that a payment disables.
GuidePay(w) ==
  /\ screen.guide
  /\ FinishOrder(w, [screen EXCEPT !.guide = FALSE, !.cancelled = FALSE])

\* The confirmation at the server: its outcome is stored under the key.  An
\* active quote can be refused because it expired or an item is unavailable.
Confirm(q) ==
  LET s == quotes[q].session
      settled == quotes[q].outcome # "none"
      Store(outcome, active) ==
        quotes' = [quotes EXCEPT ![q] = [@ EXCEPT !.outcome = outcome, !.active = active]]
  IN /\ q \in arriving
     /\ arriving' = arriving \ {q}
     /\ \/ settled /\ UNCHANGED <<quotes, carts>>
        \/ /\ ~settled
           /\ quotes[q].active
           /\ carts[s].open /\ carts[s].revision = quotes[q].revision
           /\ Store("confirmed", FALSE)
           /\ carts' = [carts EXCEPT ![s] = [@ EXCEPT !.open = FALSE]]
        \/ /\ ~settled
           /\ \E active \in {FALSE, quotes[q].active} : Store("rejected", active)
           /\ UNCHANGED carts
     /\ UNCHANGED <<sessionId, prices, press, offer, screen, pay, failed>>

\* The customer is told that the checkout failed and can try again.
TellFailure(w) ==
  /\ pay' = [pay EXCEPT ![w] = NoPay]
  /\ screen' = [screen EXCEPT !.buttons = TRUE, !.checkout = TRUE]
  /\ failed' = failed \cup {pay[w].quote}

\* The outcome the server has for the key: the completion screen, or a failure.
TellOutcome(w) ==
  \/ /\ quotes[pay[w].quote].outcome = "confirmed"
     /\ pay' = [pay EXCEPT ![w] = NoPay]
     /\ screen' = [screen EXCEPT !.payment = FALSE, !.shown = pay[w].quote]
     /\ UNCHANGED failed
  \/ /\ quotes[pay[w].quote].outcome = "rejected"
     /\ TellFailure(w)

ConfirmationArrives(w) ==
  /\ pay[w].at = "confirm"
  /\ pay[w].quote \notin arriving
  /\ TellOutcome(w)
  /\ UNCHANGED <<sessionId, prices, press, offer, server>>

\* Mutant of Unknown: an error of the network is a failed checkout.
UnknownNever(error) == FALSE

\* What writeCheckoutLog takes for an unknown outcome: a TypeError of fetch.
\* request of v1Client rejects with a plain Error after 15 s, before the bound of
\* 20 s of writeCheckoutLog, and with an ApiV1Error after a 5xx.
Unknown(error) == error = "network"

\* The confirmation gets no answer, before or after the server ran it: either
\* resolveUnknownConfirmation asks for the outcome, or the checkout has failed.
ConnectionBreaks(w) ==
  /\ pay[w].at = "confirm"
  /\ \E error \in {"network"} \cup (IF Timeouts THEN {"timeout", "server"} ELSE {}) :
       IF Unknown(error)
       THEN /\ pay' = [pay EXCEPT ![w] = [@ EXCEPT !.at = "resolve"]]
            /\ UNCHANGED <<screen, failed>>
       ELSE TellFailure(w)
  /\ UNCHANGED <<sessionId, prices, press, offer, server>>

\* A poll that finds no outcome is repeated.
Poll(w) ==
  /\ pay[w].at = "resolve"
  /\ TellOutcome(w)
  /\ UNCHANGED <<sessionId, prices, press, offer, server>>

\* After 60 s the notice stays, with every button of the payment disabled.
GiveUp(w) ==
  /\ pay[w].at = "resolve"
  /\ pay' = [pay EXCEPT ![w] = NoPay]
  /\ UNCHANGED <<sessionId, prices, press, offer, screen, server, failed>>

-----------------------------------------------------------------------------
(* Ways back.                                                              *)

\* To the cart, whose summary decides about the checkout button.
Back ==
  /\ AtPayment
  /\ screen' = [screen EXCEPT !.payment = FALSE,
                              !.checkout = (quoted.status = "ready" /\ cartLines # Empty)]
  /\ UNCHANGED <<sessionId, prices, press, offer, pay, server, failed>>

\* The order is dropped and the menu is shown; offer stays as it is.
Drop(next) ==
  /\ CartChanged(Empty)
  /\ screen' = [next EXCEPT !.payment = FALSE, !.guide = FALSE, !.checkout = FALSE]
  /\ UNCHANGED <<sessionId, press, offer, pay, server, failed>>

\* The second click opens the guide instead; the count outlives the customer.
Cancel ==
  /\ AtPayment
  /\ IF screen.cancelled
     THEN /\ screen' = [screen EXCEPT !.guide = TRUE]
          /\ UNCHANGED <<sessionId, prices, press, offer, pay, server, failed>>
     ELSE Drop([screen EXCEPT !.cancelled = TRUE])

GuideCancel == screen.guide /\ Drop([screen EXCEPT !.cancelled = FALSE])

\* Closing keeps the count, fast pay of the guide resets it.
GuideClose ==
  /\ screen.guide
  /\ \E cancelled \in BOOLEAN :
       screen' = [screen EXCEPT !.guide = FALSE, !.cancelled = cancelled]
  /\ UNCHANGED <<sessionId, prices, press, offer, pay, server, failed>>

\* The bottom bar with the home button is hidden below the payment screen.
Home ==
  /\ AtMenu
  /\ LeavesCheckout \/ \A p \in Presses : press[p] = NoPress
  /\ Drop([screen EXCEPT !.started = FALSE])

\* The entry flow of the next customer ends at the menu with a session.
BeginSession ==
  /\ ~screen.started /\ ~screen.payment /\ screen.shown = 0
  /\ sessionId < MaxSessions
  /\ sessionId' = sessionId + 1
  /\ screen' = [screen EXCEPT !.started = TRUE]
  /\ UNCHANGED <<prices, press, offer, pay, server, failed>>

\* The home button of the completion screen loads the page again.
Reload ==
  /\ screen.shown # 0
  /\ cartLines' = Empty /\ quoted' = Idle /\ sequence' = 0 /\ timer' = 0 /\ priceAsked' = {}
  /\ press' = [p \in Presses |-> NoPress]
  /\ offer' = 0
  /\ screen' = StartScreen
  /\ pay' = [w \in Payments |-> NoPay]
  /\ UNCHANGED <<sessionId, server, failed>>

KioskCheckoutNext ==
  \/ Edit \/ CartQuoteTimerFires \/ PriceArrives
  \/ \E p \in Presses : \/ Press(p) \/ GetCart(p) \/ ReplaceCart(p) \/ Prepare(p)
                        \/ PrepareArrives(p) \/ PressFails(p)
  \/ \E w \in Payments : \/ CounterPay(w) \/ GuidePay(w) \/ ConfirmationArrives(w)
                         \/ ConnectionBreaks(w) \/ Poll(w) \/ GiveUp(w)
  \/ \E q \in QuoteIds : Confirm(q)
  \/ Back \/ Cancel \/ GuideCancel \/ GuideClose \/ Home \/ BeginSession \/ Reload

KioskCheckoutSpec == KioskCheckoutInit /\ [][KioskCheckoutNext]_kioskCheckout

-----------------------------------------------------------------------------
(* Properties.                                                             *)

\* A price that counts as confirmed is the price of the cart as it is, however
\* the answers to earlier carts are delayed and overtaken.
PriceIsOfTheCart == quoted.status = "ready" => quoted.of = cartLines

\* A checkout that the customer is told has failed has no order, then or later.
FailureIsCertain == \A q \in failed : quotes[q].outcome # "confirmed"

\* The completion screen shows an order, and one of the session of the customer.
CompletionIsEarned ==
  screen.shown # 0 => /\ quotes[screen.shown].outcome = "confirmed"
                      /\ quotes[screen.shown].session = sessionId

\* The customer is told the truth about the order, through broken connections,
\* payments that overlap, and quotes that were superseded or rejected.
OutcomeIsTold == FailureIsCertain /\ CompletionIsEarned

=============================================================================
