---------------------------- MODULE KioskProofs -----------------------------
(***************************************************************************)
(* Proofs about the browser of a kiosk: its checkout, its voice, its       *)
(* recommendations and what it shows of prices, for any number of          *)
(* handlers, requests, items and quotes; and, with those about the entry   *)
(* flow, about the types of all five components.                           *)
(***************************************************************************)
EXTENDS MCKiosk, EntryFlowProofs, SequenceTheorems, WellFoundedInduction, TLAPS

(* The checkout of the kiosk.                                              *)

\* What refers to a session or a quote refers to one there is, and a payment is
\* asked for only where a checkout was prepared.
CheckoutInv ==
  /\ KioskCheckoutTypeOK
  /\ Len(quotes) <= MaxQuotes
  /\ screen.started => sessionId # 0
  /\ timer # 0 => cartLines # Empty
  /\ \A p \in Presses : /\ press[p].at # "off" => press[p].session # 0
                        /\ press[p].at = "answer" => press[p].quote \in QuoteIds
  /\ screen.payment \/ screen.guide => offer # 0
  /\ \A w \in Payments : pay[w].at # "off" => pay[w].quote \in QuoteIds

\* A request that is not outdated is of the cart.
PriceInv ==
  /\ CheckoutInv
  /\ \A request \in priceAsked : request.sequence = sequence => request.of = cartLines
  /\ PriceIsOfTheCart

\* Nothing outlives its session: a checkout is prepared, offered and paid for in
\* the session that it is of, and one payment at a time.
TruthInv ==
  /\ CheckoutInv
  /\ \A q \in failed : quotes[q].outcome = "rejected"
  /\ ~screen.started => \A p \in Presses : press[p].at = "off"
  /\ \A p \in Presses : press[p].at = "answer" => quotes[press[p].quote].session = sessionId
  /\ screen.payment => quotes[offer].session = sessionId
  /\ screen.guide => screen.payment /\ screen.buttons
  /\ \A w \in Payments : pay[w].at # "off" =>
       /\ screen.payment /\ ~screen.buttons /\ ~screen.guide
       /\ quotes[pay[w].quote].session = sessionId
       /\ \A v \in Payments : pay[v].at # "off" => v = w
  /\ screen.shown \in 0..Len(quotes)
  /\ CompletionIsEarned

-----------------------------------------------------------------------------
(* Types and references.                                                   *)

LEMMA CheckoutBounds ==
  /\ MaxSessions \in Nat /\ MaxSequence \in Nat /\ MaxCarts \in Nat /\ MaxQuotes \in Nat
  /\ Empty \notin Lines
  BY KioskCheckoutAssumption

\* A function from the first numbers is a sequence.
LEMMA FirstNumbers ==
  ASSUME NEW S, NEW n \in Nat, NEW f \in [1..n -> S]
  PROVE  f \in Seq(S) /\ Len(f) = n
<1>1. f \in Seq(S)
  BY SeqDef
<1>2. DOMAIN f = 1..Len(f) /\ Len(f) \in Nat
  BY <1>1, LenProperties
<1> QED
  BY <1>1, <1>2

LEMMA CheckoutInvInit == KioskCheckoutInit => CheckoutInv
<1> SUFFICES ASSUME KioskCheckoutInit PROVE CheckoutInv
  OBVIOUS
<1> USE CheckoutBounds
<1>1. carts \in [SessionIds -> Cart]
  BY DEF KioskCheckoutInit, Cart
<1>2. quotes \in Seq(Quote) /\ Len(quotes) = 0
  BY DEF KioskCheckoutInit
<1>3. press \in [Presses -> [at : {"off", "get", "replace", "prepare", "answer"},
                             session : 0..MaxSessions, lines : Lines \cup {Empty},
                             revision : Nat, quote : 0..MaxQuotes]]
  BY DEF KioskCheckoutInit, NoPress
<1>4. pay \in [Payments -> [at : {"off", "confirm", "resolve"}, quote : 0..MaxQuotes]]
  BY DEF KioskCheckoutInit, NoPay
<1>5. screen \in [started : BOOLEAN, payment : BOOLEAN, guide : BOOLEAN, checkout : BOOLEAN,
                  buttons : BOOLEAN, cancelled : BOOLEAN, shown : 0..MaxQuotes]
  BY DEF KioskCheckoutInit, StartScreen
<1>6. quoted \in [status : Status, of : Lines \cup {Empty}]
  BY DEF KioskCheckoutInit, Idle, Status
<1>7. /\ sessionId = 0 /\ cartLines = Empty /\ sequence = 0 /\ timer = 0 /\ priceAsked = {}
      /\ offer = 0 /\ arriving = {} /\ failed = {}
      /\ screen.started = FALSE /\ screen.payment = FALSE /\ screen.guide = FALSE
      /\ \A p \in Presses : press[p].at = "off"
      /\ \A w \in Payments : pay[w].at = "off"
  BY DEF KioskCheckoutInit, NoPress, NoPay, StartScreen
<1>8. KioskCheckoutTypeOK
  BY <1>1, <1>2, <1>3, <1>4, <1>5, <1>6, <1>7 DEF KioskCheckoutTypeOK
<1> QED
  BY <1>2, <1>7, <1>8 DEF CheckoutInv

\* The quotes stay what they are, of the session they are of, with the outcome
\* they have.
QuotesLast ==
  /\ Len(quotes) <= Len(quotes')
  /\ \A q \in QuoteIds : /\ quotes'[q].session = quotes[q].session
                         /\ quotes[q].outcome # "none" => quotes'[q].outcome = quotes[q].outcome

LEMMA QuoteTyped ==
  ASSUME CheckoutInv
  PROVE  /\ Len(quotes) \in Nat /\ Len(quotes) <= MaxQuotes
         /\ \A q \in QuoteIds : quotes[q] \in Quote
  BY DEF CheckoutInv, KioskCheckoutTypeOK, QuoteIds

\* prepareCheckout hands out a quote of the session of that moment.
LEMMA PrepareGives ==
  ASSUME CheckoutInv, NEW p \in Presses, Prepare(p)
  PROVE  /\ quotes' \in Seq(Quote) /\ Len(quotes') <= MaxQuotes
         /\ QuotesLast
         /\ \E q \in 1..Len(quotes') :
              /\ press' = [press EXCEPT ![p] = [@ EXCEPT !.at = "answer", !.quote = q]]
              /\ quotes'[q].session = sessionId
<1> DEFINE revision == carts[sessionId].revision
           Live(q) == quotes[q].session = sessionId /\ quotes[q].active
           old == [q \in QuoteIds |-> IF Live(q) THEN [quotes[q] EXCEPT !.active = FALSE]
                                                 ELSE quotes[q]]
           new == [session |-> sessionId, revision |-> revision, active |-> TRUE,
                   outcome |-> "none"]
<1>1. /\ Len(quotes) \in Nat /\ Len(quotes) <= MaxQuotes
      /\ \A q \in QuoteIds : quotes[q] \in Quote
  BY QuoteTyped
<1>2. sessionId \in SessionIds /\ revision \in Nat
  <2>1. sessionId \in SessionIds
    <3>1. sessionId \in 0..MaxSessions
      BY DEF CheckoutInv, KioskCheckoutTypeOK
    <3>2. sessionId # 0
      BY DEF Prepare
    <3> QED
      BY <3>1, <3>2, CheckoutBounds DEF SessionIds
  <2>2. carts[sessionId] \in Cart
    BY <2>1 DEF CheckoutInv, KioskCheckoutTypeOK
  <2> QED
    BY <2>1, <2>2 DEF Cart
<1>0. /\ old \in Seq(Quote) /\ Len(old) = Len(quotes)
      /\ \A q \in QuoteIds : /\ old[q].session = quotes[q].session
                             /\ old[q].outcome = quotes[q].outcome
  <2>1. \A q \in QuoteIds : [quotes[q] EXCEPT !.active = FALSE] \in Quote
    BY <1>1 DEF Quote
  <2>2. old \in [1..Len(quotes) -> Quote]
    BY <1>1, <2>1 DEF QuoteIds
  <2>3. old \in Seq(Quote) /\ Len(old) = Len(quotes)
    BY <1>1, <2>2, FirstNumbers
  <2>4. \A q \in QuoteIds : /\ [quotes[q] EXCEPT !.active = FALSE].session = quotes[q].session
                            /\ [quotes[q] EXCEPT !.active = FALSE].outcome = quotes[q].outcome
    BY <1>1 DEF Quote
  <2> QED
    BY <2>3, <2>4
<1>3. CASE UNCHANGED quotes
  <2>1. PICK q \in QuoteIds :
          /\ Live(q)
          /\ press' = [press EXCEPT ![p] = [@ EXCEPT !.at = "answer", !.quote = q]]
    <3>1. ~(quotes' = Append(old, new))
      <4> HIDE DEF old, new
      <4>1. Len(Append(old, new)) = Len(old) + 1
        BY <1>0, AppendProperties
      <4> QED
        BY <1>0, <1>1, <1>3, <4>1
    <3> QED
      BY <3>1 DEF Prepare
  <2>2. quotes \in Seq(Quote)
    BY DEF CheckoutInv, KioskCheckoutTypeOK
  <2>3. QuotesLast
    BY <1>1, <1>3 DEF QuotesLast
  <2> QED
    BY <1>1, <1>3, <2>1, <2>2, <2>3 DEF QuoteIds
<1>4. CASE /\ Len(quotes) < MaxQuotes
           /\ quotes' = Append(old, new)
           /\ press' = [press EXCEPT ![p] = [@ EXCEPT !.at = "answer",
                                                      !.quote = Len(quotes) + 1]]
  <2>1. new \in Quote
    BY <1>2 DEF Quote
  <2> HIDE DEF old, new
  <2>3. /\ quotes' \in Seq(Quote) /\ Len(quotes') = Len(quotes) + 1
        /\ quotes'[Len(quotes) + 1] = new
        /\ \A q \in QuoteIds : quotes'[q] = old[q]
    BY <1>0, <1>1, <1>4, <2>1 DEF QuoteIds
  <2>4. new.session = sessionId
    BY DEF new
  <2>5. QuotesLast
    BY <1>0, <1>1, <2>3 DEF QuotesLast, QuoteIds
  <2>6. Len(quotes) + 1 \in 1..Len(quotes') /\ Len(quotes') <= MaxQuotes
    BY <1>1, <1>4, <2>3, CheckoutBounds
  <2> QED
    BY <1>4, <2>3, <2>4, <2>5, <2>6
<1> QED
  BY <1>3, <1>4 DEF Prepare

\* A confirmation stores an outcome where there was none.
LEMMA ConfirmGives ==
  ASSUME CheckoutInv, NEW q \in QuoteIds, Confirm(q)
  PROVE  /\ quotes' \in Seq(Quote) /\ Len(quotes') = Len(quotes)
         /\ QuotesLast
         /\ carts' \in [SessionIds -> Cart]
<1>1. /\ Len(quotes) \in Nat /\ Len(quotes) <= MaxQuotes
      /\ \A r \in QuoteIds : quotes[r] \in Quote
  BY QuoteTyped
<1>2. carts \in [SessionIds -> Cart] /\ quotes \in Seq(Quote)
  BY DEF CheckoutInv, KioskCheckoutTypeOK
<1>3. ASSUME NEW outcome \in {"confirmed", "rejected"}, NEW live \in BOOLEAN,
             quotes[q].outcome = "none",
             quotes' = [quotes EXCEPT ![q] = [@ EXCEPT !.outcome = outcome, !.active = live]]
      PROVE  /\ quotes' \in Seq(Quote) /\ Len(quotes') = Len(quotes)
             /\ QuotesLast
  <2> DEFINE row == [quotes[q] EXCEPT !.outcome = outcome, !.active = live]
  <2>1. row \in Quote /\ row.session = quotes[q].session
    BY <1>1 DEF Quote
  <2>2. quotes' = [quotes EXCEPT ![q] = row]
    BY <1>3
  <2> HIDE DEF row
  <2>3. /\ quotes' \in Seq(Quote) /\ Len(quotes') = Len(quotes)
        /\ \A r \in QuoteIds : quotes'[r] = IF r = q THEN row ELSE quotes[r]
    BY <1>1, <1>2, <2>1, <2>2 DEF QuoteIds
  <2> QED
    BY <1>1, <1>3, <2>1, <2>3 DEF QuotesLast, QuoteIds
<1>4. quotes[q].active \in BOOLEAN
  BY <1>1 DEF Quote
<1>5. CASE UNCHANGED <<quotes, carts>>
  BY <1>1, <1>2, <1>5 DEF QuotesLast
<1>6. CASE /\ quotes[q].outcome = "none"
           /\ quotes' = [quotes EXCEPT ![q] = [@ EXCEPT !.outcome = "confirmed", !.active = FALSE]]
           /\ carts' = [carts EXCEPT ![quotes[q].session] = [@ EXCEPT !.open = FALSE]]
  <2>1. quotes[q].session \in SessionIds
    BY <1>1 DEF Quote
  <2>2. carts' \in [SessionIds -> Cart]
    BY <1>2, <1>6, <2>1 DEF Cart
  <2> QED
    BY <1>3, <1>6, <2>2
<1>7. CASE /\ quotes[q].outcome = "none"
           /\ \E live \in {FALSE, quotes[q].active} :
                quotes' = [quotes EXCEPT ![q] = [@ EXCEPT !.outcome = "rejected", !.active = live]]
           /\ UNCHANGED carts
  BY <1>2, <1>3, <1>4, <1>7
<1> QED
  BY <1>5, <1>6, <1>7 DEF Confirm

\* The parts of CheckoutInv, by the variables they are about.
PressRow == [at : {"off", "get", "replace", "prepare", "answer"}, session : 0..MaxSessions,
             lines : Lines \cup {Empty}, revision : Nat, quote : 0..MaxQuotes]
ScreenRow == [started : BOOLEAN, payment : BOOLEAN, guide : BOOLEAN, checkout : BOOLEAN,
              buttons : BOOLEAN, cancelled : BOOLEAN, shown : 0..MaxQuotes]
PayRow == [at : {"off", "confirm", "resolve"}, quote : 0..MaxQuotes]

PricePart ==
  /\ cartLines \in Lines \cup {Empty}
  /\ quoted \in [status : Status, of : Lines \cup {Empty}]
  /\ sequence \in Nat /\ timer \in {0, sequence}
  /\ priceAsked \subseteq [sequence : 1..sequence, of : Lines]
  /\ timer # 0 => cartLines # Empty
PressPart ==
  /\ press \in [Presses -> PressRow]
  /\ \A p \in Presses : /\ press[p].at # "off" => press[p].session # 0
                        /\ press[p].at = "answer" => press[p].quote \in QuoteIds
ScreenPart ==
  /\ sessionId \in 0..MaxSessions
  /\ screen \in ScreenRow
  /\ screen.started => sessionId # 0
OfferPart ==
  /\ offer \in 0..Len(quotes)
  /\ screen.payment \/ screen.guide => offer # 0
PayPart ==
  /\ pay \in [Payments -> PayRow]
  /\ \A w \in Payments : pay[w].at # "off" => pay[w].quote \in QuoteIds
ServerPart ==
  /\ carts \in [SessionIds -> Cart]
  /\ quotes \in Seq(Quote) /\ Len(quotes) <= MaxQuotes
  /\ arriving \subseteq QuoteIds

LEMMA CheckoutParts ==
  CheckoutInv <=> /\ PricePart /\ PressPart /\ ScreenPart /\ OfferPart /\ PayPart /\ ServerPart
                  /\ failed \subseteq QuoteIds
  BY DEF CheckoutInv, KioskCheckoutTypeOK, PricePart, PressPart, ScreenPart, OfferPart, PayPart,
         ServerPart, PressRow, ScreenRow, PayRow

LEMMA CheckoutPartsNext ==
  CheckoutInv' <=> /\ PricePart' /\ PressPart' /\ ScreenPart' /\ OfferPart' /\ PayPart'
                   /\ ServerPart' /\ failed' \subseteq QuoteIds'
  BY DEF CheckoutInv, KioskCheckoutTypeOK, PricePart, PressPart, ScreenPart, OfferPart, PayPart,
         ServerPart, PressRow, ScreenRow, PayRow

\* What a part is about stays: the quotes only grow.
LEMMA PressStays ==
  ASSUME PressPart, QuotesLast, Len(quotes) \in Nat, Len(quotes') \in Nat, UNCHANGED press
  PROVE  PressPart'
  BY DEF PressPart, QuotesLast, QuoteIds
LEMMA PayStays ==
  ASSUME PayPart, QuotesLast, Len(quotes) \in Nat, Len(quotes') \in Nat, UNCHANGED pay
  PROVE  PayPart'
  BY DEF PayPart, QuotesLast, QuoteIds
LEMMA OfferStays ==
  ASSUME OfferPart, QuotesLast, Len(quotes) \in Nat, Len(quotes') \in Nat,
         UNCHANGED <<offer, screen>>
  PROVE  OfferPart'
  BY DEF OfferPart, QuotesLast
LEMMA PriceStays ==
  ASSUME PricePart, UNCHANGED prices
  PROVE  PricePart'
  BY DEF PricePart, prices
LEMMA ScreenStays ==
  ASSUME ScreenPart, UNCHANGED <<sessionId, screen>>
  PROVE  ScreenPart'
  BY DEF ScreenPart
LEMMA ServerStays ==
  ASSUME CheckoutInv, UNCHANGED server
  PROVE  ServerPart' /\ QuotesLast /\ Len(quotes') = Len(quotes)
<1>1. ServerPart /\ Len(quotes) \in Nat
  BY CheckoutParts, QuoteTyped
<1> QED
  BY <1>1 DEF ServerPart, server, QuotesLast, QuoteIds

\* handleCartChange
LEMMA CartChanges ==
  ASSUME PricePart, NEW lines \in Lines \cup {Empty}, CartChanged(lines)
  PROVE  PricePart'
<1>1. sequence' \in Nat /\ timer' \in {0, sequence'} /\ sequence' = sequence + 1 /\ sequence \in Nat
  BY DEF PricePart, CartChanged
<1>2. \A request \in priceAsked' : request \in [sequence : 1..sequence', of : Lines]
  <2> SUFFICES ASSUME NEW request \in priceAsked'
               PROVE  request \in [sequence : 1..sequence', of : Lines]
    OBVIOUS
  <2>1. request \in [sequence : 1..sequence, of : Lines]
    BY DEF PricePart, CartChanged
  <2> QED
    BY <1>1, <2>1
<1>3. quoted' \in [status : Status, of : Lines \cup {Empty}]
  BY DEF CartChanged, Idle, Status
<1>4. timer' # 0 => cartLines' # Empty
  BY DEF CartChanged
<1> QED
  BY <1>1, <1>2, <1>3, <1>4 DEF PricePart, CartChanged

LEMMA TimerKeepsPrice ==
  ASSUME PricePart, CartQuoteTimerFires
  PROVE  PricePart'
<1>1. [sequence |-> timer, of |-> cartLines] \in [sequence : 1..sequence, of : Lines]
  <2>1. timer = sequence /\ timer # 0 /\ sequence \in Nat /\ cartLines \in Lines
    BY DEF PricePart, CartQuoteTimerFires
  <2>2. timer \in 1..sequence
    BY <2>1
  <2> QED
    BY <2>1, <2>2
<1> QED
  BY <1>1 DEF PricePart, CartQuoteTimerFires

LEMMA ArrivalKeepsPrice ==
  ASSUME PricePart, PriceArrives
  PROVE  PricePart'
<1>1. PICK request \in priceAsked, status \in {"ready", "failed"} :
        /\ priceAsked' = priceAsked \ {request}
        /\ \/ /\ Current(request)
              /\ quoted' = [status |-> status,
                            of |-> IF status = "ready" THEN request.of ELSE Empty]
           \/ UNCHANGED quoted
  BY DEF PriceArrives
<1>2. request.of \in Lines
  BY DEF PricePart
<1>3. quoted' \in [status : Status, of : Lines \cup {Empty}]
  BY <1>1, <1>2 DEF PricePart, Status
<1> QED
  BY <1>1, <1>3 DEF PricePart, PriceArrives

\* The screen keeps its type: what is started stays so, but on the ways back.
LEMMA ScreenChanges ==
  ASSUME ScreenPart, NEW next \in ScreenRow,
         next.started => screen.started, screen' = next, UNCHANGED sessionId
  PROVE  ScreenPart'
  BY DEF ScreenPart

LEMMA OfferShown ==
  ASSUME OfferPart, QuotesLast, Len(quotes) \in Nat, Len(quotes') \in Nat, UNCHANGED offer,
         screen'.payment \/ screen'.guide => screen.payment \/ screen.guide
  PROVE  OfferPart'
  BY DEF OfferPart, QuotesLast

LEMMA PressChanges ==
  ASSUME PressPart, QuotesLast, Len(quotes) \in Nat, Len(quotes') \in Nat,
         NEW p \in Presses, NEW row \in PressRow,
         press' = [press EXCEPT ![p] = row],
         row.at # "off" => row.session # 0,
         row.at = "answer" => row.quote \in 1..Len(quotes')
  PROVE  PressPart'
<1>1. press' \in [Presses -> PressRow]
  BY DEF PressPart
<1>2. \A r \in Presses : press'[r] = IF r = p THEN row ELSE press[r]
  BY DEF PressPart
<1>3. ASSUME NEW r \in Presses
      PROVE  /\ press'[r].at # "off" => press'[r].session # 0
             /\ press'[r].at = "answer" => press'[r].quote \in 1..Len(quotes')
  <2>1. CASE r = p
    BY <1>2, <2>1
  <2>2. CASE r # p
    BY <1>2, <2>2 DEF PressPart, QuotesLast, QuoteIds
  <2> QED
    BY <2>1, <2>2
<1> QED
  BY <1>1, <1>3 DEF PressPart, QuoteIds

LEMMA PayChanges ==
  ASSUME PayPart, QuotesLast, Len(quotes) \in Nat, Len(quotes') \in Nat,
         NEW w \in Payments, NEW row \in PayRow,
         pay' = [pay EXCEPT ![w] = row],
         row.at # "off" => row.quote \in QuoteIds
  PROVE  PayPart'
<1>1. pay' \in [Payments -> PayRow]
  BY DEF PayPart
<1>2. \A v \in Payments : pay'[v] = IF v = w THEN row ELSE pay[v]
  BY DEF PayPart
<1>3. ASSUME NEW v \in Payments, pay'[v].at # "off"
      PROVE  pay'[v].quote \in QuoteIds'
  <2>1. pay'[v].quote \in QuoteIds
    BY <1>2, <1>3 DEF PayPart
  <2> QED
    BY <2>1 DEF QuotesLast, QuoteIds
<1> QED
  BY <1>1, <1>3 DEF PayPart

LEMMA NoRows ==
  /\ NoPress \in PressRow /\ NoPress.at = "off" /\ NoPay \in PayRow /\ NoPay.at = "off"
  /\ StartScreen \in ScreenRow
  /\ ~StartScreen.started /\ ~StartScreen.payment /\ ~StartScreen.guide
  /\ StartScreen.shown = 0
  BY CheckoutBounds DEF NoPress, PressRow, NoPay, PayRow, StartScreen, ScreenRow

\* TellFailure and TellOutcome: the payment is over.
LEMMA OutcomeKeeps ==
  ASSUME CheckoutInv, NEW w \in Payments, pay[w].at # "off", TellOutcome(w),
         UNCHANGED <<sessionId, prices, press, offer, server>>
  PROVE  CheckoutInv'
<1>1. /\ PricePart /\ PressPart /\ ScreenPart /\ OfferPart /\ PayPart /\ ServerPart
      /\ failed \subseteq QuoteIds
  BY CheckoutParts
<1>2. ServerPart' /\ QuotesLast /\ Len(quotes') = Len(quotes) /\ Len(quotes) \in Nat
  BY ServerStays, QuoteTyped
<1>3. PricePart' /\ PressPart'
  BY <1>1, <1>2, PriceStays, PressStays
<1>4. PayPart'
  <2>1. pay' = [pay EXCEPT ![w] = NoPay]
    BY DEF TellOutcome, TellFailure
  <2> QED
    BY <1>1, <1>2, <2>1, NoRows, PayChanges
<1>5. pay[w].quote \in QuoteIds /\ pay[w].quote \in 0..MaxQuotes
  BY <1>1 DEF PayPart, PayRow
<1>6. failed' \subseteq QuoteIds'
  BY <1>1, <1>2, <1>5 DEF TellOutcome, TellFailure, QuoteIds
<1>7. ScreenPart' /\ OfferPart'
  <2>1. CASE screen' = [screen EXCEPT !.payment = FALSE, !.shown = pay[w].quote]
    <3>1. screen' \in ScreenRow /\ screen'.started = screen.started /\ ~screen'.payment
          /\ screen'.guide = screen.guide
      BY <1>1, <1>5, <2>1 DEF ScreenPart, ScreenRow
    <3> QED
      BY <1>1, <1>2, <3>1, ScreenChanges, OfferShown
  <2>2. CASE screen' = [screen EXCEPT !.buttons = TRUE, !.checkout = TRUE]
    <3>1. screen' \in ScreenRow /\ screen'.started = screen.started
          /\ screen'.payment = screen.payment /\ screen'.guide = screen.guide
      BY <1>1, <2>2 DEF ScreenPart, ScreenRow
    <3> QED
      BY <1>1, <1>2, <3>1, ScreenChanges, OfferShown
  <2> QED
    BY <2>1, <2>2 DEF TellOutcome, TellFailure
<1> QED
  BY <1>2, <1>3, <1>4, <1>6, <1>7, CheckoutPartsNext

\* finishOrder
LEMMA FinishKeeps ==
  ASSUME CheckoutInv, NEW w \in Payments, NEW next \in ScreenRow,
         screen.payment \/ screen.guide,
         next.started = screen.started, next.payment = screen.payment,
         next.guide => screen.guide, FinishOrder(w, next)
  PROVE  CheckoutInv'
<1>1. /\ PricePart /\ PressPart /\ ScreenPart /\ OfferPart /\ PayPart /\ ServerPart
      /\ failed \subseteq QuoteIds
  BY CheckoutParts
<1>2. Len(quotes') = Len(quotes) /\ QuotesLast /\ Len(quotes) \in Nat /\ UNCHANGED <<quotes, carts>>
  BY QuoteTyped DEF FinishOrder, QuotesLast
<1>3. PricePart' /\ PressPart'
  BY <1>1, <1>2, PriceStays, PressStays DEF FinishOrder
<1>4. offer \in QuoteIds /\ offer \in 0..MaxQuotes
  BY <1>1, <1>2, CheckoutBounds DEF OfferPart, QuoteIds, ServerPart
<1>5. PayPart'
  <2> DEFINE row == [at |-> "confirm", quote |-> offer]
  <2>1. row \in PayRow /\ row.quote \in QuoteIds
    BY <1>4 DEF PayRow
  <2>2. pay' = [pay EXCEPT ![w] = row]
    BY DEF FinishOrder
  <2> HIDE DEF row
  <2> QED
    BY <1>1, <1>2, <2>1, <2>2, PayChanges
<1>6. ServerPart'
  BY <1>1, <1>2, <1>4 DEF FinishOrder, ServerPart, QuoteIds
<1>7. ScreenPart' /\ OfferPart'
  <2>1. screen' \in ScreenRow /\ screen'.started = screen.started
        /\ screen'.payment = screen.payment /\ (screen'.guide => screen.guide)
    BY DEF FinishOrder, ScreenRow
  <2> QED
    BY <1>1, <1>2, <2>1, ScreenChanges, OfferShown DEF FinishOrder
<1>8. failed' \subseteq QuoteIds'
  BY <1>1, <1>2 DEF FinishOrder, QuoteIds
<1> QED
  BY <1>3, <1>5, <1>6, <1>7, <1>8, CheckoutPartsNext

\* The customer and the browser, without the server: nothing but the cart, its
\* price and the screen changes.
LEMMA ScreenKeeps ==
  ASSUME CheckoutInv, PricePart', NEW next \in ScreenRow, screen' = next,
         next.started => screen.started,
         next.payment \/ next.guide => screen.payment \/ screen.guide,
         UNCHANGED <<sessionId, press, offer, pay, server, failed>>
  PROVE  CheckoutInv'
<1>1. /\ PressPart /\ ScreenPart /\ OfferPart /\ PayPart /\ ServerPart
      /\ failed \subseteq QuoteIds
  BY CheckoutParts
<1>2. ServerPart' /\ QuotesLast /\ Len(quotes') = Len(quotes) /\ Len(quotes) \in Nat
  BY ServerStays, QuoteTyped
<1>3. PressPart' /\ PayPart' /\ ScreenPart' /\ OfferPart'
  BY <1>1, <1>2, PressStays, PayStays, ScreenChanges, OfferShown
<1>4. failed' \subseteq QuoteIds'
  BY <1>1, <1>2 DEF QuoteIds
<1> QED
  BY <1>2, <1>3, <1>4, CheckoutPartsNext

\* A run of the checkout button takes a step at the browser.
LEMMA PressKeeps ==
  ASSUME CheckoutInv, QuotesLast, ServerPart', UNCHANGED <<sessionId, prices, offer, pay, failed>>,
         NEW p \in Presses, NEW row \in PressRow,
         press' = [press EXCEPT ![p] = row],
         row.at # "off" => row.session # 0,
         row.at = "answer" => row.quote \in 1..Len(quotes'),
         NEW next \in ScreenRow, screen' = next, next.started = screen.started,
         next.payment = screen.payment, next.guide = screen.guide
  PROVE  CheckoutInv'
<1>1. /\ PricePart /\ PressPart /\ ScreenPart /\ OfferPart /\ PayPart /\ ServerPart
      /\ failed \subseteq QuoteIds
  BY CheckoutParts
<1>2. Len(quotes) \in Nat /\ Len(quotes') \in Nat
  BY <1>1 DEF ServerPart
<1>3. PricePart' /\ PressPart' /\ PayPart' /\ ScreenPart' /\ OfferPart'
  BY <1>1, <1>2, PriceStays, PressChanges, PayStays, ScreenChanges, OfferShown
<1>4. failed' \subseteq QuoteIds'
  BY <1>1, <1>2 DEF QuoteIds, QuotesLast
<1> QED
  BY <1>3, <1>4, CheckoutPartsNext

LEMMA CheckoutInvStep ==
  ASSUME CheckoutInv, [KioskCheckoutNext]_kioskCheckout
  PROVE  CheckoutInv'
<1>1. /\ PricePart /\ PressPart /\ ScreenPart /\ OfferPart /\ PayPart /\ ServerPart
      /\ failed \subseteq QuoteIds
  BY CheckoutParts
<1>2. /\ Len(quotes) \in Nat /\ screen \in ScreenRow
      /\ press \in [Presses -> PressRow] /\ pay \in [Payments -> PayRow]
  BY <1>1, QuoteTyped DEF ScreenPart, PressPart, PayPart
<1>3. CASE Edit
  <2>1. PICK lines \in Lines \cup {Empty} : CartChanged(lines)
    BY <1>3 DEF Edit
  <2>2. PricePart'
    BY <1>1, <2>1, CartChanges
  <2> DEFINE next == [screen EXCEPT !.checkout = FALSE]
  <2>3. next \in ScreenRow /\ next.started = screen.started /\ next.payment = screen.payment
        /\ next.guide = screen.guide
    BY <1>2 DEF ScreenRow
  <2> HIDE DEF next
  <2>4. screen' = next
    BY <1>3 DEF Edit, next
  <2> QED
    BY <1>3, <2>2, <2>3, <2>4, ScreenKeeps DEF Edit
<1>4. CASE CartQuoteTimerFires
  BY <1>1, <1>2, <1>4, TimerKeepsPrice, ScreenKeeps DEF CartQuoteTimerFires
<1>5. CASE PriceArrives
  <2>1. /\ screen' \in ScreenRow /\ screen'.started = screen.started
        /\ screen'.payment = screen.payment /\ screen'.guide = screen.guide
    BY <1>2, <1>5 DEF PriceArrives, ScreenRow
  <2> QED
    BY <1>1, <1>5, <2>1, ArrivalKeepsPrice, ScreenKeeps DEF PriceArrives
<1>6. ASSUME NEW p \in Presses, Press(p)
      PROVE  CheckoutInv'
  <2> DEFINE row == [NoPress EXCEPT !.at = "get", !.session = sessionId, !.lines = cartLines]
             next == [screen EXCEPT !.checkout = FALSE]
  <2>1. sessionId # 0 /\ sessionId \in 0..MaxSessions /\ cartLines \in Lines \cup {Empty}
    BY <1>1, <1>6 DEF Press, AtMenu, ScreenPart, PricePart
  <2>2. row \in PressRow /\ row.at = "get" /\ row.session = sessionId
    BY <2>1, NoRows DEF NoPress, PressRow
  <2>3. next \in ScreenRow /\ next.started = screen.started /\ next.payment = screen.payment
        /\ next.guide = screen.guide
    BY <1>2 DEF ScreenRow
  <2>4. press' = [press EXCEPT ![p] = row] /\ screen' = next
    BY <1>6 DEF Press
  <2> HIDE DEF row, next
  <2>5. ServerPart' /\ QuotesLast
    BY <1>6, ServerStays DEF Press
  <2> QED
    BY <1>6, <2>1, <2>2, <2>3, <2>4, <2>5, PressKeeps DEF Press
<1>7. ASSUME NEW p \in Presses, GetCart(p)
      PROVE  CheckoutInv'
  <2> DEFINE row == [press[p] EXCEPT !.at = "replace",
                                     !.revision = carts[press[p].session].revision]
  <2>1. press[p].session \in SessionIds /\ press[p] \in PressRow
    <3>1. press[p] \in PressRow /\ press[p].session # 0
      BY <1>1, <1>7 DEF PressPart, GetCart
    <3> QED
      BY <3>1, CheckoutBounds DEF PressRow, SessionIds
  <2>2. carts[press[p].session].revision \in Nat
    BY <1>1, <2>1 DEF ServerPart, Cart
  <2>3. row \in PressRow /\ row.at = "replace" /\ row.session # 0
    <3>1. press[p].session # 0
      BY <1>1, <1>7 DEF PressPart, GetCart
    <3>2. row \in PressRow
      BY <2>1, <2>2 DEF PressRow
    <3> QED
      BY <2>1, <3>1, <3>2 DEF PressRow
  <2>4. press' = [press EXCEPT ![p] = row]
    BY <1>7 DEF GetCart
  <2> HIDE DEF row
  <2>5. ServerPart' /\ QuotesLast
    BY <1>7, ServerStays DEF GetCart
  <2> QED
    BY <1>2, <1>7, <2>3, <2>4, <2>5, PressKeeps DEF GetCart
<1>8. ASSUME NEW p \in Presses, ReplaceCart(p)
      PROVE  CheckoutInv'
  <2> DEFINE row == [press[p] EXCEPT !.at = "prepare"]
             s == press[p].session
             taken == [carts[s] EXCEPT !.revision = press[p].revision + 1, !.lines = press[p].lines]
  <2>1. s \in SessionIds /\ press[p] \in PressRow
    <3>1. press[p] \in PressRow /\ press[p].session # 0
      BY <1>1, <1>8 DEF PressPart, ReplaceCart
    <3> QED
      BY <3>1, CheckoutBounds DEF PressRow, SessionIds
  <2>2. carts' = [carts EXCEPT ![s] = taken] /\ press' = [press EXCEPT ![p] = row]
        /\ UNCHANGED <<quotes, arriving>>
    BY <1>8 DEF ReplaceCart
  <2>3. row \in PressRow /\ row.at = "prepare" /\ row.session # 0
    BY <2>1 DEF PressRow, SessionIds
  <2>4. taken \in Cart
    <3>1. carts[s] \in Cart /\ press[p].revision + 1 \in Nat
          /\ press[p].lines \in Lines \cup {Empty}
      BY <1>1, <2>1 DEF ServerPart, PressRow
    <3> QED
      BY <3>1 DEF Cart
  <2> HIDE DEF row, taken, s
  <2>5. ServerPart'
    BY <1>1, <2>1, <2>2, <2>4 DEF ServerPart, QuoteIds
  <2>6. QuotesLast
    BY <1>2, <2>2 DEF QuotesLast
  <2> QED
    BY <1>2, <1>8, <2>2, <2>3, <2>5, <2>6, PressKeeps DEF ReplaceCart
<1>9. ASSUME NEW p \in Presses, Prepare(p)
      PROVE  CheckoutInv'
  <2>1. /\ quotes' \in Seq(Quote) /\ Len(quotes') <= MaxQuotes /\ QuotesLast
    BY <1>9, PrepareGives
  <2>2. PICK q \in 1..Len(quotes') :
          press' = [press EXCEPT ![p] = [@ EXCEPT !.at = "answer", !.quote = q]]
    BY <1>9, PrepareGives
  <2> DEFINE row == [press[p] EXCEPT !.at = "answer", !.quote = q]
  <2>3. press[p] \in PressRow /\ press[p].session # 0
    BY <1>1, <1>9 DEF PressPart, Prepare
  <2>4. q \in 0..MaxQuotes
    BY <2>1, CheckoutBounds
  <2>5. row \in PressRow /\ row.session # 0 /\ row.quote = q
    BY <2>3, <2>4 DEF PressRow
  <2>6. press' = [press EXCEPT ![p] = row]
    BY <2>2
  <2> HIDE DEF row
  <2>7. ServerPart'
    <3>1. UNCHANGED <<carts, arriving>>
      BY <1>9 DEF Prepare
    <3>2. arriving \subseteq 1..Len(quotes')
      BY <1>1, <1>2, <2>1 DEF ServerPart, QuotesLast, QuoteIds
    <3> QED
      BY <1>1, <2>1, <3>1, <3>2 DEF ServerPart, QuoteIds, SessionIds
  <2> QED
    BY <1>2, <1>9, <2>1, <2>5, <2>6, <2>7, PressKeeps DEF Prepare
<1>10. ASSUME NEW p \in Presses, PrepareArrives(p)
       PROVE  CheckoutInv'
  <2>1. press' = [press EXCEPT ![p] = NoPress] /\ offer' = press[p].quote
        /\ screen' = [screen EXCEPT !.payment = TRUE, !.checkout = TRUE]
        /\ UNCHANGED <<sessionId, prices, pay, server, failed>>
    BY <1>10 DEF PrepareArrives
  <2>2. offer' \in QuoteIds
    BY <1>1, <1>10, <2>1 DEF PressPart, PrepareArrives
  <2>3. ServerPart' /\ QuotesLast /\ Len(quotes') = Len(quotes)
    BY <2>1, ServerStays
  <2>4. PricePart' /\ PressPart' /\ PayPart'
    BY <1>1, <1>2, <2>1, <2>3, NoRows, PriceStays, PressChanges, PayStays
  <2>5. screen' \in ScreenRow /\ screen'.started = screen.started
    BY <1>2, <2>1 DEF ScreenRow
  <2>6. ScreenPart'
    BY <1>1, <2>1, <2>5, ScreenChanges
  <2>7. OfferPart'
    BY <1>2, <2>2, <2>3 DEF OfferPart, QuoteIds
  <2>8. failed' \subseteq QuoteIds'
    BY <1>1, <2>1, <2>3 DEF QuoteIds
  <2> QED
    BY <2>3, <2>4, <2>6, <2>7, <2>8, CheckoutPartsNext
<1>11. ASSUME NEW p \in Presses, PressFails(p)
       PROVE  CheckoutInv'
  <2>1. press' = [press EXCEPT ![p] = NoPress] /\ screen' = [screen EXCEPT !.checkout = TRUE]
        /\ UNCHANGED <<sessionId, prices, offer, pay, server, failed>>
    BY <1>11 DEF PressFails
  <2>2. screen' \in ScreenRow /\ screen'.started = screen.started
        /\ screen'.payment = screen.payment /\ screen'.guide = screen.guide
    BY <1>2, <2>1 DEF ScreenRow
  <2>3. ServerPart' /\ QuotesLast
    BY <2>1, ServerStays
  <2> QED
    BY <2>1, <2>2, <2>3, NoRows, PressKeeps
<1>12. ASSUME NEW w \in Payments, CounterPay(w)
       PROVE  CheckoutInv'
  BY <1>2, <1>12, FinishKeeps DEF CounterPay, AtPayment
<1>13. ASSUME NEW w \in Payments, GuidePay(w)
       PROVE  CheckoutInv'
  <2> DEFINE next == [screen EXCEPT !.guide = FALSE, !.cancelled = FALSE]
  <2>1. next \in ScreenRow /\ next.started = screen.started /\ next.payment = screen.payment
        /\ ~next.guide
    BY <1>2 DEF ScreenRow
  <2>2. FinishOrder(w, next) /\ screen.guide
    BY <1>13 DEF GuidePay
  <2> HIDE DEF next
  <2> QED
    BY <2>1, <2>2, FinishKeeps
<1>14. ASSUME NEW w \in Payments, ConfirmationArrives(w)
       PROVE  CheckoutInv'
  BY <1>14, OutcomeKeeps DEF ConfirmationArrives
<1>15. ASSUME NEW w \in Payments, ConnectionBreaks(w)
       PROVE  CheckoutInv'
  <2>1. CASE /\ pay' = [pay EXCEPT ![w] = [@ EXCEPT !.at = "resolve"]]
             /\ UNCHANGED <<screen, failed>>
    <3> DEFINE row == [pay[w] EXCEPT !.at = "resolve"]
    <3>1. row \in PayRow /\ row.quote \in QuoteIds
      BY <1>1, <1>2, <1>15 DEF PayPart, PayRow, ConnectionBreaks
    <3>2. pay' = [pay EXCEPT ![w] = row]
      BY <2>1
    <3> HIDE DEF row
    <3>3. ServerPart' /\ QuotesLast /\ Len(quotes') = Len(quotes)
          /\ UNCHANGED <<sessionId, prices, press, offer, server>>
      BY <1>15, ServerStays DEF ConnectionBreaks
    <3>4. PayPart'
      BY <1>1, <1>2, <3>1, <3>2, <3>3, PayChanges
    <3>5. PricePart' /\ PressPart' /\ ScreenPart' /\ OfferPart'
      BY <1>1, <1>2, <2>1, <3>3, PriceStays, PressStays, ScreenStays, OfferStays
    <3>6. failed' \subseteq QuoteIds'
      BY <1>1, <2>1, <3>3 DEF QuoteIds
    <3> QED
      BY <3>3, <3>4, <3>5, <3>6, CheckoutPartsNext
  <2>2. CASE TellFailure(w)
    <3>1. /\ pay[w].at # "off" /\ UNCHANGED <<sessionId, prices, press, offer, server>>
          /\ pay' = [pay EXCEPT ![w] = NoPay]
          /\ screen' = [screen EXCEPT !.buttons = TRUE, !.checkout = TRUE]
          /\ failed' = failed \cup {pay[w].quote}
      BY <1>15, <2>2 DEF ConnectionBreaks, TellFailure
    <3>2. ServerPart' /\ QuotesLast /\ Len(quotes') = Len(quotes)
      BY <3>1, ServerStays
    <3>3. PayPart' /\ PricePart' /\ PressPart'
      BY <1>1, <1>2, <3>1, <3>2, NoRows, PayChanges, PriceStays, PressStays
    <3>4. screen' \in ScreenRow /\ screen'.started = screen.started
          /\ screen'.payment = screen.payment /\ screen'.guide = screen.guide
      BY <1>2, <3>1 DEF ScreenRow
    <3>5. ScreenPart' /\ OfferPart'
      BY <1>1, <1>2, <3>1, <3>2, <3>4, ScreenChanges, OfferShown
    <3>6. failed' \subseteq QuoteIds'
      BY <1>1, <3>1, <3>2 DEF QuoteIds, PayPart
    <3> QED
      BY <3>2, <3>3, <3>5, <3>6, CheckoutPartsNext
  <2> QED
    BY <1>15, <2>1, <2>2 DEF ConnectionBreaks
<1>16. ASSUME NEW w \in Payments, Poll(w)
       PROVE  CheckoutInv'
  BY <1>16, OutcomeKeeps DEF Poll
<1>17. ASSUME NEW w \in Payments, GiveUp(w)
       PROVE  CheckoutInv'
  <2>1. /\ UNCHANGED <<sessionId, prices, press, offer, screen, server, failed>>
        /\ pay' = [pay EXCEPT ![w] = NoPay]
    BY <1>17 DEF GiveUp
  <2>2. ServerPart' /\ QuotesLast /\ Len(quotes') = Len(quotes)
    BY <2>1, ServerStays
  <2>3. PayPart' /\ PricePart' /\ PressPart' /\ ScreenPart' /\ OfferPart'
    BY <1>1, <1>2, <2>1, <2>2, NoRows, PayChanges, PriceStays, PressStays, ScreenStays, OfferStays
  <2>4. failed' \subseteq QuoteIds'
    BY <1>1, <2>1, <2>2 DEF QuoteIds
  <2> QED
    BY <2>2, <2>3, <2>4, CheckoutPartsNext
<1>18. ASSUME NEW q \in QuoteIds, Confirm(q)
       PROVE  CheckoutInv'
  <2>1. /\ quotes' \in Seq(Quote) /\ Len(quotes') = Len(quotes) /\ QuotesLast
        /\ carts' \in [SessionIds -> Cart]
    BY <1>18, ConfirmGives
  <2>2. /\ UNCHANGED <<sessionId, prices, press, offer, screen, pay, failed>>
        /\ arriving' \subseteq arriving
    BY <1>18 DEF Confirm
  <2>3. ServerPart'
    BY <1>1, <2>1, <2>2 DEF ServerPart, QuoteIds
  <2>4. PayPart' /\ PricePart' /\ PressPart' /\ ScreenPart' /\ OfferPart'
    BY <1>1, <1>2, <2>1, <2>2, PayStays, PriceStays, PressStays, ScreenStays, OfferStays
  <2>5. failed' \subseteq QuoteIds'
    BY <1>1, <2>1, <2>2 DEF QuoteIds
  <2> QED
    BY <2>3, <2>4, <2>5, CheckoutPartsNext
<1>19. CASE Back \/ GuideClose
  <2>1. /\ screen' \in ScreenRow /\ screen'.started = screen.started
        /\ (screen'.payment => screen.payment) /\ (screen'.guide => screen.guide)
    BY <1>2, <1>19 DEF Back, GuideClose, ScreenRow
  <2>2. UNCHANGED <<sessionId, prices, press, offer, pay, server, failed>>
    BY <1>19 DEF Back, GuideClose
  <2> QED
    BY <1>1, <2>1, <2>2, PriceStays, ScreenKeeps
<1>20. ASSUME NEW next \in ScreenRow, next.started => screen.started, Drop(next)
       PROVE  CheckoutInv'
  <2>1. PricePart'
    BY <1>1, <1>20, CartChanges DEF Drop
  <2>2. screen' \in ScreenRow /\ (screen'.started => screen.started) /\ ~screen'.payment
        /\ ~screen'.guide
    BY <1>20 DEF Drop, ScreenRow
  <2> QED
    BY <1>20, <2>1, <2>2, ScreenKeeps DEF Drop
<1>21. CASE Cancel
  <2>1. CASE /\ screen' = [screen EXCEPT !.guide = TRUE]
             /\ UNCHANGED <<sessionId, prices, press, offer, pay, server, failed>>
    <3>1. screen' \in ScreenRow /\ screen'.started = screen.started
      BY <1>2, <2>1 DEF ScreenRow
    <3>2. screen.payment
      BY <1>21 DEF Cancel, AtPayment
    <3> QED
      BY <1>1, <2>1, <3>1, <3>2, PriceStays, ScreenKeeps
  <2>2. CASE Drop([screen EXCEPT !.cancelled = TRUE])
    <3> DEFINE next == [screen EXCEPT !.cancelled = TRUE]
    <3>1. next \in ScreenRow /\ next.started = screen.started
      BY <1>2 DEF ScreenRow
    <3> HIDE DEF next
    <3> QED
      BY <1>20, <2>2, <3>1 DEF next
  <2> QED
    BY <1>21, <2>1, <2>2 DEF Cancel
<1>22. CASE GuideCancel
  <2> DEFINE next == [screen EXCEPT !.cancelled = FALSE]
  <2>1. next \in ScreenRow /\ next.started = screen.started
    BY <1>2 DEF ScreenRow
  <2>2. Drop(next)
    BY <1>22 DEF GuideCancel
  <2> HIDE DEF next
  <2> QED
    BY <1>20, <2>1, <2>2
<1>23. CASE Home
  <2> DEFINE next == [screen EXCEPT !.started = FALSE]
  <2>1. next \in ScreenRow /\ ~next.started
    BY <1>2 DEF ScreenRow
  <2>2. Drop(next)
    BY <1>23 DEF Home
  <2> HIDE DEF next
  <2> QED
    BY <1>20, <2>1, <2>2
<1>24. CASE BeginSession
  <2>1. /\ UNCHANGED <<prices, press, offer, pay, server, failed>>
        /\ sessionId' = sessionId + 1 /\ sessionId < MaxSessions
        /\ screen' = [screen EXCEPT !.started = TRUE]
    BY <1>24 DEF BeginSession
  <2>2. ServerPart' /\ QuotesLast /\ Len(quotes') = Len(quotes)
    BY <2>1, ServerStays
  <2>3. screen' \in ScreenRow /\ screen'.payment = screen.payment /\ screen'.guide = screen.guide
    BY <1>2, <2>1 DEF ScreenRow
  <2>4. PayPart' /\ PricePart' /\ PressPart' /\ OfferPart'
    BY <1>1, <1>2, <2>1, <2>2, <2>3, PayStays, PriceStays, PressStays, OfferShown
  <2>5. ScreenPart'
    BY <1>1, <2>1, <2>3, CheckoutBounds DEF ScreenPart
  <2>6. failed' \subseteq QuoteIds'
    BY <1>1, <2>1, <2>2 DEF QuoteIds
  <2> QED
    BY <2>2, <2>4, <2>5, <2>6, CheckoutPartsNext
<1>25. CASE Reload
  <2>1. /\ UNCHANGED <<sessionId, server, failed>>
        /\ offer' = 0 /\ screen' = StartScreen
        /\ press' = [p \in Presses |-> NoPress] /\ pay' = [w \in Payments |-> NoPay]
    BY <1>25 DEF Reload
  <2>2. ServerPart' /\ QuotesLast /\ Len(quotes') = Len(quotes)
    BY <2>1, ServerStays
  <2>3. PricePart'
    BY <1>25 DEF Reload, PricePart, Idle, Status
  <2>4. PressPart' /\ PayPart'
    BY <2>1, NoRows DEF PressPart, PayPart
  <2>5. ScreenPart' /\ OfferPart'
    BY <1>1, <1>2, <2>1, <2>2, NoRows DEF ScreenPart, OfferPart
  <2>6. failed' \subseteq QuoteIds'
    BY <1>1, <2>1, <2>2 DEF QuoteIds
  <2> QED
    BY <2>2, <2>3, <2>4, <2>5, <2>6, CheckoutPartsNext
<1>26. CASE UNCHANGED kioskCheckout
  <2>1. UNCHANGED <<sessionId, prices, press, offer, screen, pay, server, failed>>
    BY <1>26 DEF kioskCheckout
  <2> QED
    BY <1>1, <1>2, <2>1, PriceStays, ScreenKeeps
<1> QED
  BY <1>3, <1>4, <1>5, <1>6, <1>7, <1>8, <1>9, <1>10, <1>11, <1>12, <1>13, <1>14, <1>15, <1>16,
     <1>17, <1>18, <1>19, <1>21, <1>22, <1>23, <1>24, <1>25, <1>26 DEF KioskCheckoutNext

-----------------------------------------------------------------------------
(* The price.                                                              *)

LEMMA PriceInvStep ==
  ASSUME PriceInv, [KioskCheckoutNext]_kioskCheckout
  PROVE  PriceInv'
<1>1. CheckoutInv /\ CheckoutInv' /\ PricePart /\ PricePart'
  BY CheckoutInvStep, CheckoutParts, CheckoutPartsNext DEF PriceInv
<1>2. CASE \E lines \in Lines \cup {Empty} : CartChanged(lines)
  <2>1. \A request \in priceAsked' : request.sequence # sequence'
    <3>1. \A request \in priceAsked : request.sequence \in 1..sequence
      BY <1>1 DEF PricePart
    <3>2. sequence' = sequence + 1 /\ UNCHANGED priceAsked /\ sequence \in Nat
      BY <1>1, <1>2 DEF CartChanged, PricePart
    <3> QED
      BY <3>1, <3>2
  <2>2. quoted'.status # "ready"
    BY <1>2 DEF CartChanged, Idle
  <2> QED
    BY <1>1, <2>1, <2>2 DEF PriceInv, PriceIsOfTheCart
<1>3. CASE CartQuoteTimerFires
  BY <1>1, <1>3 DEF PriceInv, PriceIsOfTheCart, CartQuoteTimerFires, PricePart
<1>4. CASE PriceArrives
  <2>1. PICK request \in priceAsked, status \in {"ready", "failed"} :
          /\ priceAsked' = priceAsked \ {request}
          /\ \/ /\ Current(request)
                /\ quoted' = [status |-> status,
                              of |-> IF status = "ready" THEN request.of ELSE Empty]
             \/ UNCHANGED quoted
    BY <1>4 DEF PriceArrives
  <2>2. UNCHANGED <<cartLines, sequence>>
    BY <1>4 DEF PriceArrives
  <2>3. Current(request) => request.of = cartLines
    BY DEF PriceInv, Current
  <2>4. PriceIsOfTheCart'
    BY <2>1, <2>2, <2>3 DEF PriceInv, PriceIsOfTheCart
  <2> QED
    BY <1>1, <2>1, <2>2, <2>4 DEF PriceInv
<1>5. CASE Reload
  BY <1>1, <1>5 DEF PriceInv, PriceIsOfTheCart, Reload, Idle
<1>6. CASE UNCHANGED prices
  BY <1>1, <1>6 DEF PriceInv, PriceIsOfTheCart, prices
<1>7. ASSUME NEW next, Drop(next)
      PROVE  \E lines \in Lines \cup {Empty} : CartChanged(lines)
  BY <1>7 DEF Drop
<1>8. \/ \E lines \in Lines \cup {Empty} : CartChanged(lines)
      \/ CartQuoteTimerFires \/ PriceArrives \/ Reload \/ UNCHANGED prices
  <2>1. CASE Edit
    BY <2>1 DEF Edit
  <2>2. CASE Cancel \/ GuideCancel \/ Home
    BY <1>7, <2>2 DEF Cancel, GuideCancel, Home
  <2>3. CASE \/ Back \/ GuideClose \/ BeginSession \/ UNCHANGED kioskCheckout
    BY <2>3 DEF Back, GuideClose, BeginSession, kioskCheckout
  <2>4. CASE \E p \in Presses : \/ Press(p) \/ GetCart(p) \/ ReplaceCart(p) \/ Prepare(p)
                                \/ PrepareArrives(p) \/ PressFails(p)
    BY <2>4 DEF Press, GetCart, ReplaceCart, Prepare, PrepareArrives, PressFails
  <2>5. CASE \E w \in Payments : \/ CounterPay(w) \/ GuidePay(w) \/ ConfirmationArrives(w)
                                 \/ ConnectionBreaks(w) \/ Poll(w) \/ GiveUp(w)
    BY <2>5 DEF CounterPay, GuidePay, FinishOrder, ConfirmationArrives, ConnectionBreaks, Poll,
                GiveUp
  <2>6. CASE \E q \in QuoteIds : Confirm(q)
    BY <2>6 DEF Confirm
  <2> QED
    BY <2>1, <2>2, <2>3, <2>4, <2>5, <2>6 DEF KioskCheckoutNext
<1> QED
  BY <1>2, <1>3, <1>4, <1>5, <1>6, <1>8

LEMMA PriceInvInit == KioskCheckoutInit => PriceInv
BY CheckoutInvInit DEF KioskCheckoutInit, PriceInv, PriceIsOfTheCart, Idle

\* PriceIsOfTheCart: however the answers to earlier carts are delayed and overtaken,
\* a price that counts as confirmed is of the cart (refreshCartQuote of app.js).
THEOREM PricesAreOfTheCart == KioskCheckoutSpec => []PriceIsOfTheCart
<1>1. KioskCheckoutInit => PriceInv
  BY PriceInvInit
<1>2. PriceInv /\ [KioskCheckoutNext]_kioskCheckout => PriceInv'
  BY PriceInvStep
<1>3. PriceInv => PriceIsOfTheCart
  BY DEF PriceInv
<1> QED
  BY <1>1, <1>2, <1>3, PTL DEF KioskCheckoutSpec

-----------------------------------------------------------------------------
(* What the customer is told.                                              *)

\* The parts of TruthInv.
FailuresPart == \A q \in failed : quotes[q].outcome = "rejected"
PreparedPart ==
  /\ ~screen.started => \A p \in Presses : press[p].at = "off"
  /\ \A p \in Presses : press[p].at = "answer" => quotes[press[p].quote].session = sessionId
OfferedPart ==
  /\ screen.payment => quotes[offer].session = sessionId
  /\ screen.guide => screen.payment /\ screen.buttons
Paying(w) ==
  /\ screen.payment /\ ~screen.buttons /\ ~screen.guide
  /\ quotes[pay[w].quote].session = sessionId
  /\ \A v \in Payments : pay[v].at # "off" => v = w
PaidPart == \A w \in Payments : pay[w].at # "off" => Paying(w)
EarnedPart == screen.shown \in 0..Len(quotes) /\ CompletionIsEarned

LEMMA TruthParts ==
  TruthInv <=> /\ CheckoutInv /\ FailuresPart /\ PreparedPart /\ OfferedPart /\ PaidPart
               /\ EarnedPart
  BY DEF TruthInv, FailuresPart, PreparedPart, OfferedPart, PaidPart, Paying, EarnedPart
LEMMA TruthPartsNext ==
  TruthInv' <=> /\ CheckoutInv' /\ FailuresPart' /\ PreparedPart' /\ OfferedPart' /\ PaidPart'
                /\ EarnedPart'
  BY DEF TruthInv, FailuresPart, PreparedPart, OfferedPart, PaidPart, Paying, EarnedPart

LEMMA FailuresStay ==
  ASSUME CheckoutInv, FailuresPart, QuotesLast, UNCHANGED failed
  PROVE  FailuresPart'
<1>1. failed \subseteq QuoteIds
  BY CheckoutParts
<1> QED
  BY <1>1 DEF FailuresPart, QuotesLast

LEMMA PreparedStays ==
  ASSUME CheckoutInv, PreparedPart, QuotesLast, UNCHANGED <<sessionId, press>>,
         screen'.started = screen.started
  PROVE  PreparedPart'
<1>1. \A p \in Presses : press[p].at = "answer" => press[p].quote \in QuoteIds
  BY DEF CheckoutInv
<1> QED
  BY <1>1 DEF PreparedPart, QuotesLast

LEMMA OfferedStays ==
  ASSUME CheckoutInv, OfferedPart, QuotesLast, UNCHANGED <<sessionId, offer>>,
         screen'.payment => screen.payment,
         screen'.guide => /\ screen.guide /\ screen'.payment = screen.payment
                          /\ screen'.buttons = screen.buttons
  PROVE  OfferedPart'
<1>1. screen.payment => offer \in QuoteIds
  BY CheckoutParts, QuoteTyped DEF OfferPart, QuoteIds
<1> QED
  BY <1>1 DEF OfferedPart, QuotesLast

LEMMA PaidStays ==
  ASSUME CheckoutInv, PaidPart, QuotesLast, UNCHANGED <<sessionId, pay>>,
         screen.payment => screen'.payment, screen'.buttons = screen.buttons,
         screen'.guide = screen.guide
  PROVE  PaidPart'
<1>1. \A w \in Payments : pay[w].at # "off" => pay[w].quote \in QuoteIds
  BY DEF CheckoutInv
<1> QED
  BY <1>1 DEF PaidPart, Paying, QuotesLast

LEMMA EarnedStays ==
  ASSUME CheckoutInv, EarnedPart, QuotesLast, Len(quotes') \in Nat, UNCHANGED sessionId,
         screen'.shown = screen.shown
  PROVE  EarnedPart'
<1>1. screen.shown # 0 => screen.shown \in QuoteIds
  BY QuoteTyped DEF EarnedPart, QuoteIds
<1> QED
  BY <1>1, QuoteTyped DEF EarnedPart, CompletionIsEarned, QuotesLast

\* No payment is under way where the screen does not say so.
LEMMA NoPayment ==
  ASSUME PaidPart, ~screen.payment \/ screen.buttons \/ screen.guide
  PROVE  \A w \in Payments : pay[w].at = "off"
  BY DEF PaidPart, Paying
LEMMA NonePaid ==
  ASSUME \A w \in Payments : pay'[w].at = "off"
  PROVE  PaidPart'
  BY DEF PaidPart

\* One payment, when it is over, was the only one.
LEMMA PaymentEnds ==
  ASSUME CheckoutInv, PaidPart, NEW w \in Payments, pay[w].at # "off",
         pay' = [pay EXCEPT ![w] = NoPay]
  PROVE  PaidPart'
<1>1. pay \in [Payments -> PayRow]
  BY CheckoutParts DEF PayPart
<1>2. \A v \in Payments : pay'[v] = IF v = w THEN NoPay ELSE pay[v]
  BY <1>1
<1>3. \A v \in Payments : pay[v].at # "off" => v = w
  BY DEF PaidPart, Paying
<1>4. NoPay.at = "off"
  BY NoRows
<1>5. \A v \in Payments : pay'[v].at = "off"
  BY <1>2, <1>3, <1>4
<1> QED
  BY <1>5, NonePaid

\* A run of the button takes a step in the session it belongs to.
LEMMA PreparedChanges ==
  ASSUME CheckoutInv, PreparedPart, QuotesLast, UNCHANGED sessionId,
         screen'.started = screen.started, NEW p \in Presses, NEW row \in PressRow,
         press' = [press EXCEPT ![p] = row],
         screen.started \/ row.at = "off",
         row.at = "answer" => quotes'[row.quote].session = sessionId
  PROVE  PreparedPart'
<1>1. \A r \in Presses : press'[r] = IF r = p THEN row ELSE press[r]
  BY CheckoutParts DEF PressPart
<1>2. \A r \in Presses : press[r].at = "answer" => press[r].quote \in QuoteIds
  BY DEF CheckoutInv
<1>3. ~screen.started => \A r \in Presses : press'[r].at = "off"
  BY <1>1 DEF PreparedPart
<1>4. ASSUME NEW r \in Presses, press'[r].at = "answer"
      PROVE  quotes'[press'[r].quote].session = sessionId
  <2>1. CASE r = p
    BY <1>1, <1>4, <2>1
  <2>2. CASE r # p
    BY <1>1, <1>2, <1>4, <2>2 DEF PreparedPart, QuotesLast
  <2> QED
    BY <2>1, <2>2
<1> QED
  BY <1>3, <1>4 DEF PreparedPart

\* finishOrder, from the payment screen or the guide above it.
LEMMA FinishIsTrue ==
  ASSUME TruthInv, NEW w \in Payments, NEW next \in ScreenRow, FinishOrder(w, next),
         screen.payment, screen.buttons, next.started = screen.started,
         next.payment, ~next.guide, next.shown = screen.shown
  PROVE  /\ FailuresPart' /\ PreparedPart' /\ OfferedPart' /\ PaidPart' /\ EarnedPart'
<1>1. /\ CheckoutInv /\ FailuresPart /\ PreparedPart /\ OfferedPart /\ PaidPart /\ EarnedPart
  BY TruthParts
<1>2. /\ UNCHANGED <<sessionId, press, offer, quotes, failed>>
      /\ pay' = [pay EXCEPT ![w] = [at |-> "confirm", quote |-> offer]]
      /\ screen' = [next EXCEPT !.buttons = FALSE, !.checkout = FALSE]
  BY DEF FinishOrder
<1>3. /\ screen'.started = screen.started /\ screen'.payment /\ ~screen'.guide
      /\ ~screen'.buttons /\ screen'.shown = screen.shown
  BY <1>2 DEF ScreenRow
<1>4. QuotesLast /\ Len(quotes') \in Nat
  BY <1>1, <1>2, QuoteTyped DEF QuotesLast
<1>5. FailuresPart' /\ PreparedPart' /\ OfferedPart' /\ EarnedPart'
  BY <1>1, <1>2, <1>3, <1>4, FailuresStay, PreparedStays, OfferedStays, EarnedStays
<1>6. pay \in [Payments -> PayRow] /\ \A v \in Payments : pay[v].at = "off"
  BY <1>1, NoPayment, CheckoutParts DEF PayPart
<1>7. \A v \in Payments : pay'[v].at # "off" => v = w
  BY <1>2, <1>6
<1>8. pay'[w].quote = offer
  BY <1>2, <1>6
<1>9. quotes[offer].session = sessionId
  BY <1>1 DEF OfferedPart
<1> QED
  BY <1>2, <1>3, <1>5, <1>7, <1>8, <1>9 DEF PaidPart, Paying

\* The way back to the menu or the start page, from where nothing is paid.
LEMMA DropIsTrue ==
  ASSUME TruthInv, NEW next \in ScreenRow, Drop(next),
         ~screen.payment \/ screen.buttons \/ screen.guide,
         next.shown = screen.shown,
         \/ next.started = screen.started
         \/ ~next.started /\ \A p \in Presses : press[p].at = "off"
  PROVE  /\ FailuresPart' /\ PreparedPart' /\ OfferedPart' /\ PaidPart' /\ EarnedPart'
<1>1. /\ CheckoutInv /\ FailuresPart /\ PreparedPart /\ OfferedPart /\ PaidPart /\ EarnedPart
  BY TruthParts
<1>2. /\ UNCHANGED <<sessionId, press, offer, pay, quotes, failed>>
      /\ screen' = [next EXCEPT !.payment = FALSE, !.guide = FALSE, !.checkout = FALSE]
  BY DEF Drop, server
<1>3. /\ screen'.started = next.started /\ ~screen'.payment /\ ~screen'.guide
      /\ screen'.shown = screen.shown
  BY <1>2 DEF ScreenRow
<1>4. QuotesLast /\ Len(quotes') \in Nat
  BY <1>1, <1>2, QuoteTyped DEF QuotesLast
<1>5. FailuresPart' /\ OfferedPart' /\ EarnedPart'
  BY <1>1, <1>2, <1>3, <1>4, FailuresStay, OfferedStays, EarnedStays
<1>6. PaidPart'
  BY <1>1, <1>2, NoPayment, NonePaid
<1>7. CASE next.started = screen.started
  BY <1>1, <1>2, <1>3, <1>4, <1>5, <1>6, <1>7, PreparedStays
<1>8. CASE \A p \in Presses : press[p].at = "off"
  <2>1. PreparedPart'
    BY <1>2, <1>8 DEF PreparedPart
  <2> QED
    BY <1>5, <1>6, <2>1
<1> QED
  BY <1>7, <1>8

\* The outcome that the server has is what the customer is told.
LEMMA OutcomeIsTrue ==
  ASSUME TruthInv, NEW w \in Payments, pay[w].at # "off", TellOutcome(w),
         UNCHANGED <<sessionId, prices, press, offer, server>>
  PROVE  /\ FailuresPart' /\ PreparedPart' /\ OfferedPart' /\ PaidPart' /\ EarnedPart'
<1>1. /\ CheckoutInv /\ FailuresPart /\ PreparedPart /\ OfferedPart /\ PaidPart /\ EarnedPart
  BY TruthParts
<1>2. UNCHANGED quotes /\ QuotesLast /\ Len(quotes') \in Nat /\ screen \in ScreenRow
  BY <1>1, QuoteTyped, CheckoutParts DEF QuotesLast, server, ScreenPart
<1>3. pay[w].quote \in QuoteIds /\ Paying(w)
  BY <1>1 DEF CheckoutInv, PaidPart
<1>4. PaidPart'
  <2>1. pay' = [pay EXCEPT ![w] = NoPay]
    BY DEF TellOutcome, TellFailure
  <2> QED
    BY <1>1, <2>1, PaymentEnds
<1>5. CASE /\ quotes[pay[w].quote].outcome = "confirmed"
           /\ screen' = [screen EXCEPT !.payment = FALSE, !.shown = pay[w].quote]
           /\ UNCHANGED failed
  <2>1. /\ ~screen'.payment /\ screen'.started = screen.started /\ ~screen'.guide
        /\ screen'.shown = pay[w].quote
    BY <1>2, <1>3, <1>5 DEF ScreenRow, Paying
  <2>2. FailuresPart' /\ PreparedPart' /\ OfferedPart'
    BY <1>1, <1>2, <1>5, <2>1, FailuresStay, PreparedStays, OfferedStays
  <2>3. EarnedPart'
    BY <1>1, <1>2, <1>3, <1>5, <2>1, QuoteTyped
       DEF EarnedPart, CompletionIsEarned, Paying, QuoteIds
  <2> QED
    BY <1>4, <2>2, <2>3
<1>6. CASE quotes[pay[w].quote].outcome = "rejected" /\ TellFailure(w)
  <2>1. /\ screen' = [screen EXCEPT !.buttons = TRUE, !.checkout = TRUE]
        /\ failed' = failed \cup {pay[w].quote}
    BY <1>6 DEF TellFailure
  <2>2. /\ screen'.payment = screen.payment /\ screen'.started = screen.started /\ ~screen'.guide
        /\ screen'.shown = screen.shown
    BY <1>2, <1>3, <2>1 DEF ScreenRow, Paying
  <2>3. PreparedPart' /\ OfferedPart' /\ EarnedPart'
    BY <1>1, <1>2, <2>2, PreparedStays, OfferedStays, EarnedStays
  <2>4. FailuresPart'
    BY <1>1, <1>2, <1>6, <2>1 DEF FailuresPart
  <2> QED
    BY <1>4, <2>3, <2>4
<1> QED
  BY <1>5, <1>6 DEF TellOutcome

\* Where the screen only changes in what the truth does not depend on.
LEMMA ScreenIsTrue ==
  ASSUME TruthInv, QuotesLast, Len(quotes') \in Nat, UNCHANGED <<sessionId, offer, pay, failed>>,
         NEW next \in ScreenRow, screen' = next, next.started = screen.started,
         next.payment = screen.payment, next.guide = screen.guide,
         next.buttons = screen.buttons, next.shown = screen.shown
  PROVE  /\ FailuresPart' /\ OfferedPart' /\ PaidPart' /\ EarnedPart'
         /\ UNCHANGED press => PreparedPart'
<1>1. /\ CheckoutInv /\ FailuresPart /\ PreparedPart /\ OfferedPart /\ PaidPart /\ EarnedPart
  BY TruthParts
<1> QED
  BY <1>1, FailuresStay, PreparedStays, OfferedStays, PaidStays, EarnedStays

LEMMA TruthInvStep ==
  ASSUME TruthInv, ~Timeouts, ~LeavesCheckout, [KioskCheckoutNext]_kioskCheckout
  PROVE  TruthInv'
<1>1. /\ CheckoutInv /\ FailuresPart /\ PreparedPart /\ OfferedPart /\ PaidPart /\ EarnedPart
  BY TruthParts
<1>2. CheckoutInv'
  BY <1>1, CheckoutInvStep
<1>3. /\ Len(quotes) \in Nat /\ Len(quotes') \in Nat
      /\ screen \in ScreenRow /\ screen' \in ScreenRow /\ press \in [Presses -> PressRow]
      /\ pay \in [Payments -> PayRow]
  BY <1>1, <1>2, CheckoutParts, CheckoutPartsNext
     DEF ServerPart, ScreenPart, PressPart, PayPart
<1>4. UNCHANGED quotes => QuotesLast
  BY <1>3 DEF QuotesLast
<1>5. SUFFICES FailuresPart' /\ PreparedPart' /\ OfferedPart' /\ PaidPart' /\ EarnedPart'
  BY <1>2, TruthPartsNext
<1>6. CASE Edit \/ CartQuoteTimerFires \/ PriceArrives \/ UNCHANGED kioskCheckout
  <2>1. UNCHANGED <<sessionId, press, offer, pay, quotes, failed>>
    BY <1>6 DEF Edit, CartQuoteTimerFires, PriceArrives, kioskCheckout, server
  <2>2. /\ screen'.started = screen.started /\ screen'.payment = screen.payment
        /\ screen'.guide = screen.guide /\ screen'.buttons = screen.buttons
        /\ screen'.shown = screen.shown
    BY <1>3, <1>6 DEF Edit, CartQuoteTimerFires, PriceArrives, kioskCheckout, ScreenRow
  <2> QED
    BY <1>3, <1>4, <2>1, <2>2, ScreenIsTrue
<1>7. ASSUME NEW p \in Presses, NEW row \in PressRow, QuotesLast,
             UNCHANGED <<sessionId, offer, pay, failed>>,
             press' = [press EXCEPT ![p] = row],
             screen.started \/ row.at = "off",
             row.at = "answer" => quotes'[row.quote].session = sessionId,
             screen'.started = screen.started, screen'.payment = screen.payment,
             screen'.guide = screen.guide, screen'.buttons = screen.buttons,
             screen'.shown = screen.shown
      PROVE  FailuresPart' /\ PreparedPart' /\ OfferedPart' /\ PaidPart' /\ EarnedPart'
  BY <1>1, <1>3, <1>7, ScreenIsTrue, PreparedChanges
<1>8. ASSUME NEW p \in Presses, press[p].at # "off"
      PROVE  screen.started
  BY <1>1, <1>8 DEF PreparedPart
<1>9. ASSUME NEW p \in Presses, Press(p)
      PROVE  FailuresPart' /\ PreparedPart' /\ OfferedPart' /\ PaidPart' /\ EarnedPart'
  <2> DEFINE row == [NoPress EXCEPT !.at = "get", !.session = sessionId, !.lines = cartLines]
  <2>1. /\ UNCHANGED <<sessionId, offer, pay, quotes, failed>>
        /\ press' = [press EXCEPT ![p] = row] /\ screen.started
        /\ screen' = [screen EXCEPT !.checkout = FALSE]
    BY <1>9 DEF Press, AtMenu, server
  <2>2. row.at = "get"
    BY DEF NoPress
  <2>3. row \in PressRow
    <3>1. press'[p] = row /\ press' \in [Presses -> PressRow]
      BY <1>2, <1>3, <2>1, CheckoutPartsNext DEF PressPart
    <3> QED
      BY <3>1
  <2> HIDE DEF row
  <2>4. /\ screen'.started = screen.started /\ screen'.payment = screen.payment
        /\ screen'.guide = screen.guide /\ screen'.buttons = screen.buttons
        /\ screen'.shown = screen.shown
    BY <1>3, <2>1 DEF ScreenRow
  <2> QED
    BY <1>4, <1>7, <2>1, <2>2, <2>3, <2>4
<1>10. ASSUME NEW p \in Presses, GetCart(p) \/ ReplaceCart(p)
       PROVE  FailuresPart' /\ PreparedPart' /\ OfferedPart' /\ PaidPart' /\ EarnedPart'
  <2>1. /\ UNCHANGED <<sessionId, offer, screen, pay, quotes, failed>>
        /\ press[p].at \in {"get", "replace"}
    BY <1>10 DEF GetCart, ReplaceCart, server
  <2>2. PICK row : press' = [press EXCEPT ![p] = row] /\ row.at \in {"replace", "prepare"}
    <3>1. press[p] \in PressRow
      BY <1>3
    <3>2. CASE GetCart(p)
      <4> DEFINE row == [press[p] EXCEPT !.at = "replace",
                                         !.revision = carts[press[p].session].revision]
      <4>1. row.at = "replace"
        BY <3>1 DEF PressRow
      <4>2. press' = [press EXCEPT ![p] = row]
        BY <3>2 DEF GetCart
      <4> HIDE DEF row
      <4> QED
        BY <4>1, <4>2
    <3>3. CASE ReplaceCart(p)
      <4> DEFINE row == [press[p] EXCEPT !.at = "prepare"]
      <4>1. row.at = "prepare"
        BY <3>1 DEF PressRow
      <4>2. press' = [press EXCEPT ![p] = row]
        BY <3>3 DEF ReplaceCart
      <4> HIDE DEF row
      <4> QED
        BY <4>1, <4>2
    <3> QED
      BY <1>10, <3>2, <3>3
  <2>3. row \in PressRow
    <3>1. press'[p] = row /\ press' \in [Presses -> PressRow]
      BY <1>2, <1>3, <2>2, CheckoutPartsNext DEF PressPart
    <3> QED
      BY <3>1
  <2> QED
    BY <1>4, <1>7, <1>8, <2>1, <2>2, <2>3
<1>11. ASSUME NEW p \in Presses, Prepare(p)
       PROVE  FailuresPart' /\ PreparedPart' /\ OfferedPart' /\ PaidPart' /\ EarnedPart'
  <2>1. QuotesLast /\ Len(quotes') <= MaxQuotes
    BY <1>1, <1>11, PrepareGives
  <2>2. PICK q \in 1..Len(quotes') :
          /\ press' = [press EXCEPT ![p] = [@ EXCEPT !.at = "answer", !.quote = q]]
          /\ quotes'[q].session = sessionId
    BY <1>1, <1>11, PrepareGives
  <2> DEFINE row == [press[p] EXCEPT !.at = "answer", !.quote = q]
  <2>3. press' = [press EXCEPT ![p] = row]
    BY <2>2
  <2>4. row.quote = q
    BY <1>3 DEF PressRow
  <2>5. row \in PressRow
    <3>1. press'[p] = row /\ press' \in [Presses -> PressRow]
      BY <1>2, <1>3, <2>3, CheckoutPartsNext DEF PressPart
    <3> QED
      BY <3>1
  <2> HIDE DEF row
  <2>6. UNCHANGED <<sessionId, offer, screen, pay, failed>> /\ press[p].at = "prepare"
    BY <1>11 DEF Prepare
  <2> QED
    BY <1>7, <1>8, <2>1, <2>2, <2>3, <2>4, <2>5, <2>6
<1>12. ASSUME NEW p \in Presses, PrepareArrives(p)
       PROVE  FailuresPart' /\ PreparedPart' /\ OfferedPart' /\ PaidPart' /\ EarnedPart'
  <2>1. /\ press[p].at = "answer" /\ offer' = press[p].quote
        /\ screen' = [screen EXCEPT !.payment = TRUE, !.checkout = TRUE]
        /\ press' = [press EXCEPT ![p] = NoPress]
        /\ UNCHANGED <<sessionId, pay, quotes, failed>>
    BY <1>12 DEF PrepareArrives, server
  <2>2. /\ screen'.started = screen.started /\ screen'.payment
        /\ screen'.guide = screen.guide /\ screen'.buttons = screen.buttons
        /\ screen'.shown = screen.shown
    BY <1>3, <2>1 DEF ScreenRow
  <2>3. QuotesLast
    BY <1>4, <2>1
  <2>4. FailuresPart' /\ PaidPart' /\ EarnedPart'
    BY <1>1, <1>3, <2>1, <2>2, <2>3, FailuresStay, PaidStays, EarnedStays
  <2>5. PreparedPart'
    BY <1>1, <2>1, <2>2, <2>3, NoRows, PreparedChanges
  <2>6. OfferedPart'
    BY <1>1, <2>1, <2>2 DEF OfferedPart, PreparedPart
  <2> QED
    BY <2>4, <2>5, <2>6
<1>13. ASSUME NEW p \in Presses, PressFails(p)
       PROVE  FailuresPart' /\ PreparedPart' /\ OfferedPart' /\ PaidPart' /\ EarnedPart'
  <2>1. /\ press' = [press EXCEPT ![p] = NoPress] /\ screen' = [screen EXCEPT !.checkout = TRUE]
        /\ UNCHANGED <<sessionId, offer, pay, quotes, failed>>
    BY <1>13 DEF PressFails, server
  <2>2. /\ screen'.started = screen.started /\ screen'.payment = screen.payment
        /\ screen'.guide = screen.guide /\ screen'.buttons = screen.buttons
        /\ screen'.shown = screen.shown
    BY <1>3, <2>1 DEF ScreenRow
  <2> QED
    BY <1>4, <1>7, <2>1, <2>2, NoRows
<1>14. ASSUME NEW w \in Payments, CounterPay(w)
       PROVE  FailuresPart' /\ PreparedPart' /\ OfferedPart' /\ PaidPart' /\ EarnedPart'
  BY <1>3, <1>14, FinishIsTrue DEF CounterPay, AtPayment
<1>15. ASSUME NEW w \in Payments, GuidePay(w)
       PROVE  FailuresPart' /\ PreparedPart' /\ OfferedPart' /\ PaidPart' /\ EarnedPart'
  <2> DEFINE next == [screen EXCEPT !.guide = FALSE, !.cancelled = FALSE]
  <2>1. next \in ScreenRow /\ next.started = screen.started /\ next.payment = screen.payment
        /\ ~next.guide /\ next.shown = screen.shown
    BY <1>3 DEF ScreenRow
  <2>2. FinishOrder(w, next) /\ screen.payment /\ screen.buttons
    BY <1>1, <1>15 DEF GuidePay, OfferedPart
  <2> HIDE DEF next
  <2> QED
    BY <2>1, <2>2, FinishIsTrue
<1>16. ASSUME NEW w \in Payments, ConfirmationArrives(w) \/ Poll(w)
       PROVE  FailuresPart' /\ PreparedPart' /\ OfferedPart' /\ PaidPart' /\ EarnedPart'
  <2>1. /\ pay[w].at # "off" /\ TellOutcome(w)
        /\ UNCHANGED <<sessionId, prices, press, offer, server>>
    BY <1>16 DEF ConfirmationArrives, Poll
  <2> QED
    BY <2>1, OutcomeIsTrue
<1>17. ASSUME NEW w \in Payments, ConnectionBreaks(w)
       PROVE  FailuresPart' /\ PreparedPart' /\ OfferedPart' /\ PaidPart' /\ EarnedPart'
  <2>1. /\ pay' = [pay EXCEPT ![w] = [@ EXCEPT !.at = "resolve"]] /\ pay[w].at = "confirm"
        /\ UNCHANGED <<sessionId, press, offer, screen, quotes, failed>>
    BY <1>17 DEF ConnectionBreaks, Unknown, server
  <2>2. FailuresPart' /\ PreparedPart' /\ OfferedPart' /\ EarnedPart'
    BY <1>1, <1>3, <1>4, <2>1, FailuresStay, PreparedStays, OfferedStays, EarnedStays
  <2>3. \A v \in Payments : /\ pay'[v].quote = pay[v].quote
                            /\ pay'[v].at # "off" => pay[v].at # "off"
    BY <1>3, <2>1 DEF PayRow
  <2>4. PaidPart'
    BY <1>1, <2>1, <2>3 DEF PaidPart, Paying
  <2> QED
    BY <2>2, <2>4
<1>18. ASSUME NEW w \in Payments, GiveUp(w)
       PROVE  FailuresPart' /\ PreparedPart' /\ OfferedPart' /\ PaidPart' /\ EarnedPart'
  <2>1. /\ UNCHANGED <<sessionId, press, offer, screen, quotes, failed>> /\ pay[w].at # "off"
        /\ pay' = [pay EXCEPT ![w] = NoPay]
    BY <1>18 DEF GiveUp, server
  <2> QED
    BY <1>1, <1>3, <1>4, <2>1, FailuresStay, PreparedStays, OfferedStays, EarnedStays, PaymentEnds
<1>19. ASSUME NEW q \in QuoteIds, Confirm(q)
       PROVE  FailuresPart' /\ PreparedPart' /\ OfferedPart' /\ PaidPart' /\ EarnedPart'
  <2>1. QuotesLast /\ UNCHANGED <<sessionId, press, offer, screen, pay, failed>>
    BY <1>1, <1>19, ConfirmGives DEF Confirm
  <2> QED
    BY <1>3, <2>1, ScreenIsTrue
<1>20. CASE Back \/ GuideClose
  <2>1. /\ UNCHANGED <<sessionId, press, offer, pay, quotes, failed>>
        /\ screen.buttons \/ screen.guide
    BY <1>20 DEF Back, GuideClose, AtPayment, server
  <2>2. /\ screen'.started = screen.started /\ (screen'.payment => screen.payment)
        /\ ~screen'.guide /\ screen'.shown = screen.shown
    BY <1>3, <1>20 DEF Back, GuideClose, ScreenRow, AtPayment
  <2>3. PaidPart'
    BY <1>1, <2>1, NoPayment, NonePaid
  <2> QED
    BY <1>1, <1>3, <1>4, <2>1, <2>2, <2>3, FailuresStay, PreparedStays, OfferedStays, EarnedStays
<1>21. CASE Cancel
  <2>1. screen.payment /\ screen.buttons /\ ~screen.guide
    BY <1>21 DEF Cancel, AtPayment
  <2>2. CASE /\ screen' = [screen EXCEPT !.guide = TRUE]
             /\ UNCHANGED <<sessionId, prices, press, offer, pay, server, failed>>
    <3>1. /\ screen'.started = screen.started /\ screen'.payment /\ screen'.buttons
          /\ screen'.shown = screen.shown
      BY <1>3, <2>1, <2>2 DEF ScreenRow
    <3>2. UNCHANGED <<sessionId, press, offer, pay, quotes, failed>>
      BY <2>2 DEF server
    <3>3. OfferedPart'
      BY <1>1, <2>1, <3>1, <3>2 DEF OfferedPart
    <3>4. PaidPart'
      BY <1>1, <2>1, <3>2, NoPayment, NonePaid
    <3> QED
      BY <1>1, <1>3, <1>4, <3>1, <3>2, <3>3, <3>4, FailuresStay, PreparedStays, EarnedStays
  <2>3. CASE Drop([screen EXCEPT !.cancelled = TRUE])
    <3> DEFINE next == [screen EXCEPT !.cancelled = TRUE]
    <3>1. next \in ScreenRow /\ next.started = screen.started /\ next.shown = screen.shown
      BY <1>3 DEF ScreenRow
    <3>2. Drop(next)
      BY <2>3
    <3> HIDE DEF next
    <3> QED
      BY <2>1, <3>1, <3>2, DropIsTrue
  <2> QED
    BY <1>21, <2>2, <2>3 DEF Cancel
<1>22. CASE GuideCancel
  <2> DEFINE next == [screen EXCEPT !.cancelled = FALSE]
  <2>1. next \in ScreenRow /\ next.started = screen.started /\ next.shown = screen.shown
    BY <1>3 DEF ScreenRow
  <2>2. Drop(next) /\ screen.guide
    BY <1>22 DEF GuideCancel
  <2> HIDE DEF next
  <2> QED
    BY <2>1, <2>2, DropIsTrue
<1>23. CASE Home
  <2> DEFINE next == [screen EXCEPT !.started = FALSE]
  <2>1. next \in ScreenRow /\ ~next.started /\ next.shown = screen.shown
    BY <1>3 DEF ScreenRow
  <2>2. Drop(next) /\ ~screen.payment /\ \A p \in Presses : press[p].at = "off"
    BY <1>23, NoRows DEF Home, AtMenu
  <2> HIDE DEF next
  <2> QED
    BY <2>1, <2>2, DropIsTrue
<1>24. CASE BeginSession
  <2>1. /\ UNCHANGED <<press, offer, pay, quotes, failed>>
        /\ ~screen.started /\ ~screen.payment /\ screen.shown = 0
        /\ screen' = [screen EXCEPT !.started = TRUE]
    BY <1>24 DEF BeginSession, server
  <2>2. /\ screen'.started /\ ~screen'.payment /\ screen'.guide = screen.guide
        /\ screen'.shown = 0
    BY <1>3, <2>1 DEF ScreenRow
  <2>3. FailuresPart' /\ PaidPart'
    BY <1>1, <1>4, <2>1, FailuresStay, NoPayment, NonePaid
  <2>4. PreparedPart'
    BY <1>1, <2>1, <2>2 DEF PreparedPart
  <2>5. OfferedPart'
    BY <1>1, <2>1, <2>2 DEF OfferedPart
  <2>6. EarnedPart'
    BY <1>3, <2>2 DEF EarnedPart, CompletionIsEarned
  <2> QED
    BY <2>3, <2>4, <2>5, <2>6
<1>25. CASE Reload
  <2>1. /\ UNCHANGED <<quotes, failed>> /\ screen' = StartScreen
        /\ press' = [p \in Presses |-> NoPress] /\ pay' = [w \in Payments |-> NoPay]
    BY <1>25 DEF Reload, server
  <2>2. /\ \A p \in Presses : press'[p].at = "off"
        /\ \A w \in Payments : pay'[w].at = "off"
    BY <2>1, NoRows
  <2>3. FailuresPart' /\ PaidPart'
    BY <1>1, <1>4, <2>1, <2>2, FailuresStay, NonePaid
  <2>4. PreparedPart' /\ OfferedPart' /\ EarnedPart'
    BY <1>3, <2>1, <2>2, NoRows DEF PreparedPart, OfferedPart, EarnedPart, CompletionIsEarned
  <2> QED
    BY <2>3, <2>4
<1> QED
  BY <1>6, <1>9, <1>10, <1>11, <1>12, <1>13, <1>14, <1>15, <1>16, <1>17, <1>18, <1>19, <1>20,
     <1>21, <1>22, <1>23, <1>24, <1>25 DEF KioskCheckoutNext

\* OutcomeIsTold: where no confirmation outlives the client's bound and nobody goes
\* home from a prepare, the completion screen shows an order of the customer at the
\* kiosk, and a checkout that was told to have failed has no order, then or later
\* (finishOrder and writeCheckoutLog of app.js).
THEOREM OutcomesAreTold ==
  ASSUME ~Timeouts, ~LeavesCheckout
  PROVE  KioskCheckoutSpec => []OutcomeIsTold
<1>1. KioskCheckoutInit => TruthInv
  <2> SUFFICES ASSUME KioskCheckoutInit PROVE TruthInv
    OBVIOUS
  <2>1. CheckoutInv
    BY CheckoutInvInit
  <2>2. /\ failed = {} /\ screen = StartScreen /\ Len(quotes) \in Nat
        /\ \A p \in Presses : press[p].at = "off"
        /\ \A w \in Payments : pay[w].at = "off"
    BY <2>1, NoRows, QuoteTyped DEF KioskCheckoutInit
  <2> QED
    BY <2>1, <2>2, NoRows, TruthParts
       DEF FailuresPart, PreparedPart, OfferedPart, PaidPart, EarnedPart, CompletionIsEarned
<1>2. TruthInv /\ [KioskCheckoutNext]_kioskCheckout => TruthInv'
  BY TruthInvStep
<1>3. TruthInv => OutcomeIsTold
  BY TruthParts DEF OutcomeIsTold, FailureIsCertain, FailuresPart, EarnedPart
<1> QED
  BY <1>1, <1>2, <1>3, PTL DEF KioskCheckoutSpec

-----------------------------------------------------------------------------
(* The voice turns at the kiosk.                                           *)

\* What the browser has of the journal is its beginning, line by line; it calls
\* it whole at the end only, and wrong only where the server said so.
VoiceInv ==
  /\ KioskVoiceTypeOK
  /\ stream.cursor = stream.last + 1 /\ stream.last <= journal.length
  /\ ~stream.alarm => stream.heard = stream.last
  /\ stream.alarm => stream.turn = 0 \/ stream.refused
  /\ stream.terminal => /\ journal.ended /\ stream.last = journal.length
                        /\ stream.turn = 0 => stream.alarm
  /\ stream.at = "play" => stream.terminal /\ ~stream.alarm
  /\ stream.at = "wait" => stream.tries < Reconnects
  /\ stream.at = "pausing" => stream = [NoStream EXCEPT !.at = "pausing"]

\* What a turn with an identity ends in belongs to the session at the kiosk: no
\* such turn, no draft and no open microphone is left on the start page.
DraftInv ==
  /\ VoiceInv
  /\ DraftIsInPlace
  /\ payment => page = "menu"
  /\ stream.at \notin {"off", "pausing"} /\ stream.turn # 0 =>
       stream.session = voiceSession /\ page # "start"
  /\ page = "start" => ~mic.listening /\ ~mic.resuming /\ turn = 0 /\ draft = 0
  /\ page = "done" => ~mic.listening /\ ~mic.detector

LEMMA VoiceBounds ==
  /\ MaxCustomers \in Nat /\ MaxTurns \in Nat /\ Reconnects \in Nat
  /\ MaxEvents \in Nat /\ MaxEvents >= 1
  BY KioskVoiceAssumption

\* The parts of VoiceInv: the screens and the microphone, the stream and the
\* journal.
MicRow == [detector : BOOLEAN, listening : BOOLEAN, suspended : BOOLEAN, resuming : BOOLEAN]
JournalRow == [length : 0..MaxEvents, ended : BOOLEAN]
StreamRow == [at : {"off", "pausing", "post", "wait", "replay", "play"},
              turn : 0..turns, session : 0..voiceSession, cursor : 1..MaxEvents + 1,
              last : 0..MaxEvents, heard : 0..MaxEvents, terminal : BOOLEAN,
              tries : 0..Reconnects, alarm : BOOLEAN, refused : BOOLEAN]
MicPart ==
  /\ voiceSession \in 0..MaxCustomers
  /\ page \in {"start", "menu", "done"}
  /\ payment \in BOOLEAN /\ processing \in BOOLEAN
  /\ turns \in 0..MaxTurns
  /\ turn \in 0..turns
  /\ mic \in MicRow
  /\ draft \in 0..voiceSession
Pausing == [NoStream EXCEPT !.at = "pausing"]
\* A stream that heard what it should of a journal.
Listens(s, j) ==
  /\ s.cursor = s.last + 1 /\ s.last <= j.length
  /\ ~s.alarm => s.heard = s.last
  /\ s.alarm => s.turn = 0 \/ s.refused
  /\ s.terminal => /\ j.ended /\ s.last = j.length
                   /\ s.turn = 0 => s.alarm
  /\ s.at = "play" => s.terminal /\ ~s.alarm
  /\ s.at = "wait" => s.tries < Reconnects
  /\ s.at = "pausing" => s = Pausing
StreamPart == stream \in StreamRow /\ journal \in JournalRow /\ Listens(stream, journal)

LEMMA VoiceParts == VoiceInv <=> MicPart /\ StreamPart
  BY DEF VoiceInv, KioskVoiceTypeOK, MicPart, StreamPart, Listens, MicRow, JournalRow, StreamRow,
         Pausing
LEMMA VoicePartsNext == VoiceInv' <=> MicPart' /\ StreamPart'
  BY DEF VoiceInv, KioskVoiceTypeOK, MicPart, StreamPart, Listens, MicRow, JournalRow, StreamRow,
         Pausing

\* Turns and sessions only become more.
LEMMA RowGrows ==
  ASSUME MicPart, turns' \in Nat, turns <= turns', voiceSession' \in Nat,
         voiceSession <= voiceSession', NEW s \in StreamRow
  PROVE  s \in StreamRow'
<1>1. 0..turns \subseteq 0..turns' /\ 0..voiceSession \subseteq 0..voiceSession'
  BY DEF MicPart
<1> QED
  BY <1>1 DEF StreamRow

LEMMA StreamStays ==
  ASSUME VoiceInv, MicPart', turns <= turns', voiceSession <= voiceSession',
         UNCHANGED <<stream, journal>>
  PROVE  StreamPart'
<1>1. turns' \in Nat /\ voiceSession' \in Nat
  BY DEF MicPart
<1> QED
  BY <1>1, VoiceParts, RowGrows DEF StreamPart, Listens

LEMMA NoStreamFields ==
  ASSUME NEW s \in {NoStream, Pausing}
  PROVE  /\ s.turn = 0 /\ s.session = 0 /\ s.cursor = 1 /\ s.last = 0 /\ s.heard = 0
         /\ s.tries = 0 /\ ~s.terminal /\ ~s.alarm /\ ~s.refused
         /\ \/ s.at = "off"
            \/ s.at = "pausing" /\ s = Pausing
  BY DEF NoStream, Pausing

LEMMA NoStreamTyped ==
  ASSUME NEW m \in Nat, NEW k \in Nat, NEW s \in {NoStream, Pausing}
  PROVE  s \in [at : {"off", "pausing", "post", "wait", "replay", "play"},
                turn : 0..m, session : 0..k, cursor : 1..MaxEvents + 1,
                last : 0..MaxEvents, heard : 0..MaxEvents, terminal : BOOLEAN,
                tries : 0..Reconnects, alarm : BOOLEAN, refused : BOOLEAN]
<1>1. 1 \in 1..MaxEvents + 1 /\ 0 \in 0..MaxEvents /\ 0 \in 0..Reconnects
      /\ 0 \in 0..m /\ 0 \in 0..k
  BY VoiceBounds
<1>2. CASE s = NoStream
  BY <1>1, <1>2 DEF NoStream
<1>3. CASE s = Pausing
  <2>1. s = [at |-> "pausing", turn |-> 0, session |-> 0, cursor |-> 1, last |-> 0, heard |-> 0,
             terminal |-> FALSE, tries |-> 0, alarm |-> FALSE, refused |-> FALSE]
    BY <1>3 DEF NoStream, Pausing
  <2> QED
    BY <1>1, <2>1
<1> QED
  BY <1>2, <1>3

\* There is no stream, or none yet.
LEMMA NoStreamNext ==
  ASSUME stream' \in {NoStream, Pausing}, journal' \in JournalRow, MicPart'
  PROVE  StreamPart'
<1>1. turns' \in Nat /\ voiceSession' \in Nat
  BY DEF MicPart
<1>2. stream' \in StreamRow'
  BY <1>1, NoStreamTyped DEF StreamRow
<1>3. journal'.length \in Nat
  BY DEF JournalRow
<1> QED
  BY <1>2, <1>3, NoStreamFields DEF StreamPart, Listens

LEMMA NoJournalTyped == NoJournal \in JournalRow /\ NoJournal.length = 0
  BY VoiceBounds DEF NoJournal, JournalRow
LEMMA NoMicTyped == NoMic \in MicRow
  BY DEF NoMic, MicRow

LEMMA VoiceInvInit == KioskVoiceInit => VoiceInv
<1> SUFFICES ASSUME KioskVoiceInit PROVE VoiceInv
  OBVIOUS
<1>1. /\ 0 \in 0..MaxCustomers /\ 0 \in 0..MaxTurns /\ 0 \in 0..0
      /\ mic = NoMic /\ stream = NoStream /\ journal = NoJournal
      /\ voiceSession = 0 /\ turns = 0 /\ turn = 0 /\ draft = 0
  BY VoiceBounds DEF KioskVoiceInit
<1>2. MicPart
  BY <1>1, NoMicTyped DEF KioskVoiceInit, MicPart
<1>3. stream \in StreamRow
  BY <1>1, NoStreamTyped DEF StreamRow
<1>4. StreamPart
  BY <1>1, <1>3, NoStreamFields, NoJournalTyped DEF StreamPart, Listens
<1> QED
  BY <1>2, <1>4, VoiceParts

\* consumeLine: the next line is the one that follows what was heard.
LEMMA LineKeeps ==
  ASSUME VoiceInv, LineArrives
  PROVE  stream' \in StreamRow /\ Listens(stream', journal)
<1> DEFINE n == stream.cursor
           heard == IF stream.alarm \/ IsViolation(n) \/ IsDuplicate(n) THEN stream.heard ELSE n
           alarm == stream.alarm \/ IsViolation(n)
           terminal == (n = journal.length /\ journal.ended)
           s == [stream EXCEPT !.cursor = n + 1, !.last = n, !.terminal = terminal,
                               !.heard = heard, !.alarm = alarm]
<1>1. /\ stream \in StreamRow /\ journal \in JournalRow /\ Listens(stream, journal)
  BY VoiceParts DEF StreamPart
<1>2. stream' = s /\ n <= journal.length
  BY DEF LineArrives
<1>3. n \in 1..MaxEvents /\ n + 1 \in 1..MaxEvents + 1 /\ n = stream.last + 1
  BY <1>1, <1>2, VoiceBounds DEF StreamRow, JournalRow, Listens
<1>4. terminal \in BOOLEAN /\ alarm \in BOOLEAN /\ heard \in 0..MaxEvents
  BY <1>1, <1>3 DEF StreamRow, JournalRow, IsViolation
<1>5. stream.turn # 0 /\ ~stream.alarm => ~IsViolation(n) /\ ~IsDuplicate(n)
  <2> SUFFICES ASSUME stream.turn # 0, ~stream.alarm
               PROVE  ~IsViolation(n) /\ ~IsDuplicate(n)
    OBVIOUS
  <2>1. stream.heard = stream.last /\ stream.last \in Nat /\ journal.length \in Nat
    BY <1>1 DEF StreamRow, JournalRow, Listens
  <2>2. ~(n <= stream.heard) /\ n = stream.heard + 1 /\ stream.heard # journal.length
    BY <1>2, <1>3, <2>1
  <2> QED
    BY <2>2 DEF IsViolation, IsDuplicate
<1>6. stream.turn = 0 => IsViolation(n)
  BY DEF IsViolation
<1> HIDE DEF heard, alarm, terminal, n
<1>7. s \in StreamRow /\ s.at = stream.at /\ s.turn = stream.turn /\ s.refused = stream.refused
      /\ s.cursor = n + 1 /\ s.last = n /\ s.terminal = terminal /\ s.heard = heard
      /\ s.alarm = alarm /\ s.tries = stream.tries
  <2>1. n \in 0..MaxEvents
    BY <1>3, VoiceBounds
  <2> QED
    BY <1>1, <1>3, <1>4, <2>1 DEF StreamRow
<1>8. stream.at \in {"post", "replay"}
  BY DEF LineArrives
<1>9. ~alarm => heard = n
  <2>1. ~alarm => stream.turn # 0 /\ ~stream.alarm
    BY <1>6 DEF alarm
  <2> QED
    BY <1>5, <2>1 DEF heard
<1>10. alarm => stream.turn = 0 \/ stream.refused
  BY <1>1, <1>5 DEF alarm, Listens
<1>11. terminal => /\ journal.ended /\ n = journal.length
                   /\ stream.turn = 0 => alarm
  BY <1>6 DEF terminal, alarm
<1> HIDE DEF s
<1> QED
  BY <1>2, <1>7, <1>8, <1>9, <1>10, <1>11 DEF Listens

LEMMA VoiceInvStep ==
  ASSUME VoiceInv, [KioskVoiceNext]_kioskVoice
  PROVE  VoiceInv'
<1>1. /\ MicPart /\ stream \in StreamRow /\ journal \in JournalRow /\ Listens(stream, journal)
  BY VoiceParts DEF StreamPart
<1>2. \A b \in BOOLEAN : [NoMic EXCEPT !.resuming = b] \in MicRow
  BY DEF NoMic, MicRow
<1>3. mic.resuming \in BOOLEAN /\ mic.suspended \in BOOLEAN /\ mic.detector \in BOOLEAN
      /\ mic.listening \in BOOLEAN /\ mic \in MicRow
  BY <1>1 DEF MicPart, MicRow
<1>4. CASE SessionBegins \/ Setup \/ Ask \/ SpeechStarts \/ Misfire \/ Resume \/ AnswerDraft
           \/ ClosePayment \/ CompleteOrder
  <2>1. mic' \in MicRow
    <3>1. CASE SessionBegins \/ CompleteOrder
      BY <1>2, <1>3, <3>1 DEF SessionBegins, CompleteOrder, ResetRound
    <3>2. CASE Setup
      BY <1>3, <3>2 DEF Setup, MicRow
    <3>3. CASE Ask
      <4>1. (mic.listening \/ ~mic.detector \/ ~processing) \in BOOLEAN
        OBVIOUS
      <4> QED
        BY <1>3, <3>3, <4>1 DEF Ask, MicRow
    <3>4. CASE SpeechStarts \/ Misfire \/ AnswerDraft \/ ClosePayment
      BY <1>3, <3>4 DEF SpeechStarts, Misfire, AnswerDraft, ClosePayment
    <3>5. CASE Resume
      BY <1>3, <3>5 DEF Resume, MicRow
    <3> QED
      BY <1>4, <3>1, <3>2, <3>3, <3>4, <3>5
  <2>2. /\ turns' \in 0..MaxTurns /\ turns <= turns' /\ turn' \in 0..turns'
    BY <1>1, <1>4, VoiceBounds
       DEF MicPart, SessionBegins, Setup, Ask, SpeechStarts, Misfire, Resume, AnswerDraft,
           ClosePayment, CompleteOrder, ResetRound
  <2>3. /\ voiceSession' \in 0..MaxCustomers /\ voiceSession <= voiceSession'
        /\ draft' \in 0..voiceSession'
    BY <1>1, <1>4, VoiceBounds
       DEF MicPart, SessionBegins, Setup, Ask, SpeechStarts, Misfire, Resume, AnswerDraft,
           ClosePayment, CompleteOrder
  <2>4. /\ page' \in {"start", "menu", "done"} /\ payment' \in BOOLEAN /\ processing' \in BOOLEAN
        /\ UNCHANGED <<stream, journal>>
    BY <1>1, <1>4
       DEF MicPart, SessionBegins, Setup, Ask, SpeechStarts, Misfire, Resume, AnswerDraft,
           ClosePayment, CompleteOrder
  <2>5. MicPart'
    BY <2>1, <2>2, <2>3, <2>4 DEF MicPart
  <2> QED
    BY <2>2, <2>3, <2>4, <2>5, StreamStays, VoicePartsNext
<1>5. ASSUME UNCHANGED <<voiceSession, page, payment, turns>>, draft' \in 0..voiceSession,
             turn' \in {0, turn}, processing' \in BOOLEAN, mic' \in MicRow
      PROVE  MicPart'
  BY <1>1, <1>5 DEF MicPart
<1>6. ASSUME FinishSegment, UNCHANGED <<voiceSession, page, payment, turns>>,
             draft' \in 0..voiceSession
      PROVE  VoiceInv'
  <2>1. (mic.resuming \/ (IsKioskActive /\ ~mic.suspended)) \in BOOLEAN
    BY <1>3 DEF IsKioskActive
  <2>2. mic' \in MicRow
    BY <1>3, <1>6, <2>1 DEF FinishSegment, MicRow
  <2>3. MicPart'
    BY <1>5, <1>6, <2>2 DEF FinishSegment
  <2> QED
    BY <1>6, <2>3, NoStreamNext, NoJournalTyped, VoicePartsNext DEF FinishSegment
<1>7. draft \in 0..voiceSession
  BY <1>1 DEF MicPart
<1>8. CASE SpeechEnds
  <2>1. MicPart'
    BY <1>1, <1>8 DEF SpeechEnds, MicPart
  <2> QED
    BY <1>1, <1>8, <2>1, NoStreamNext, VoicePartsNext DEF SpeechEnds, Pausing
<1>9. CASE Paused
  <2>1. mic' \in MicRow
    <3>1. CASE mic' = [mic EXCEPT !.listening = FALSE]
      BY <1>3, <3>1 DEF MicRow
    <3>2. CASE mic' = [mic EXCEPT !.listening = FALSE,
                              !.resuming = @ \/ (IsKioskActive /\ ~mic.suspended)]
      <4>1. (mic.resuming \/ (IsKioskActive /\ ~mic.suspended)) \in BOOLEAN
        BY <1>3 DEF IsKioskActive
      <4> QED
        BY <1>3, <3>2, <4>1 DEF MicRow
    <3> QED
      BY <1>9, <3>1, <3>2 DEF Paused
  <2>2. MicPart'
    BY <1>5, <1>7, <1>9, <2>1 DEF Paused
  <2>3. CASE stream' = NoStream /\ UNCHANGED journal
    BY <1>1, <2>2, <2>3, NoStreamNext, VoicePartsNext
  <2>4. CASE /\ stream' = [stream EXCEPT !.at = "post", !.turn = turn, !.session = voiceSession]
             /\ journal' = [length |-> 1, ended |-> FALSE]
    <3>1. stream = Pausing
      BY <1>1, <1>9 DEF Paused, Listens
    <3>2. turn \in 0..turns /\ voiceSession \in 0..voiceSession
      BY <1>1 DEF MicPart
    <3> DEFINE s == [Pausing EXCEPT !.at = "post", !.turn = turn, !.session = voiceSession]
    <3>3. s \in StreamRow
      BY <1>1, <3>1, <3>2 DEF StreamRow
    <3>4. s.at = "post" /\ s.cursor = 1 /\ s.last = 0 /\ s.heard = 0 /\ ~s.terminal /\ ~s.alarm
      BY DEF Pausing, NoStream
    <3>5. stream' = s
      BY <2>4, <3>1
    <3> HIDE DEF s
    <3>6. UNCHANGED <<turns, voiceSession>>
      BY <1>9 DEF Paused
    <3>7. journal' \in JournalRow /\ journal'.length = 1
      BY <2>4, VoiceBounds DEF JournalRow
    <3>8. StreamPart'
      BY <3>3, <3>4, <3>5, <3>6, <3>7 DEF StreamPart, StreamRow, Listens
    <3> QED
      BY <2>2, <3>8, VoicePartsNext
  <2> QED
    BY <1>9, <2>3, <2>4 DEF Paused
<1>10. ASSUME UNCHANGED <<voiceSession, page, payment, turns, turn, processing, mic, draft>>,
              stream' \in StreamRow, journal' \in JournalRow, Listens(stream', journal')
       PROVE  VoiceInv'
  <2>1. MicPart' /\ StreamPart'
    BY <1>1, <1>10 DEF MicPart, StreamPart, StreamRow, Listens
  <2> QED
    BY <2>1, VoicePartsNext
<1>11. CASE JournalGrows
  <2>1. journal.length + 1 \in 0..MaxEvents /\ journal.length \in Nat
    BY <1>1, <1>11, VoiceBounds DEF JournalGrows, JournalRow
  <2>2. PICK ended \in BOOLEAN : journal' = [length |-> journal.length + 1, ended |-> ended]
    BY <1>11 DEF JournalGrows
  <2>3. journal' \in JournalRow /\ journal'.length = journal.length + 1
    BY <2>1, <2>2 DEF JournalRow
  <2>4. ~journal.ended
    BY <1>11 DEF JournalGrows
  <2>5. stream.last \in Nat
    BY <1>1 DEF StreamRow
  <2>6. Listens(stream, journal')
    BY <1>1, <2>1, <2>3, <2>4, <2>5 DEF Listens
  <2> QED
    BY <1>1, <1>10, <1>11, <2>3, <2>6 DEF JournalGrows
<1>12. CASE LineArrives
  BY <1>1, <1>10, <1>12, LineKeeps DEF LineArrives
<1>13. CASE StreamEnds
  <2>1. CASE stream.alarm /\ FinishSegment
    BY <1>6, <1>7, <1>13, <2>1 DEF StreamEnds
  <2>2. CASE /\ ~stream.alarm
             /\ stream' = [stream EXCEPT !.at = "play"]
             /\ UNCHANGED <<journal, turn, processing, mic>>
    <3>1. stream.terminal /\ UNCHANGED <<voiceSession, page, payment, turns, draft>>
      BY <1>13 DEF StreamEnds
    <3>2. stream' \in StreamRow
      BY <1>1, <2>2 DEF StreamRow
    <3>3. /\ stream'.at = "play" /\ stream'.terminal = stream.terminal
          /\ stream'.alarm = stream.alarm /\ stream'.cursor = stream.cursor
          /\ stream'.last = stream.last /\ stream'.heard = stream.heard
          /\ stream'.turn = stream.turn
      BY <1>1, <2>2 DEF StreamRow
    <3>4. Listens(stream', journal)
      BY <1>1, <2>2, <3>1, <3>3 DEF Listens
    <3> QED
      BY <1>1, <1>10, <2>2, <3>1, <3>2, <3>4
  <2> QED
    BY <1>13, <2>1, <2>2 DEF StreamEnds
<1>14. CASE ResponseBreaks
  <2>1. CASE FinishSegment
    BY <1>6, <1>7, <1>14, <2>1 DEF ResponseBreaks
  <2>2. CASE ~FinishSegment
    <3>1. PICK refused \in BOOLEAN :
            stream' = [stream EXCEPT !.at = "wait", !.alarm = @ \/ refused,
                                     !.refused = @ \/ refused]
      BY <1>14, <2>2 DEF ResponseBreaks
    <3>2. /\ UNCHANGED <<journal, turn, processing, mic>> /\ stream.tries # Reconnects
          /\ ~stream.terminal /\ UNCHANGED <<voiceSession, page, payment, turns, draft>>
      BY <1>14, <2>2 DEF ResponseBreaks
    <3> DEFINE alarm == stream.alarm \/ refused
               denied == stream.refused \/ refused
    <3>3. alarm \in BOOLEAN /\ denied \in BOOLEAN
      BY <1>1 DEF StreamRow
    <3>4. stream' = [stream EXCEPT !.at = "wait", !.alarm = alarm, !.refused = denied]
      BY <3>1
    <3>5. /\ stream.alarm => alarm
          /\ alarm => stream.alarm \/ denied
          /\ stream.refused => denied
      OBVIOUS
    <3> HIDE DEF alarm, denied
    <3>6. /\ stream' \in StreamRow /\ stream'.at = "wait" /\ stream'.terminal = stream.terminal
          /\ stream'.alarm = alarm /\ stream'.refused = denied
          /\ stream'.cursor = stream.cursor /\ stream'.last = stream.last
          /\ stream'.heard = stream.heard /\ stream'.turn = stream.turn
          /\ stream'.tries = stream.tries
      BY <1>1, <3>3, <3>4 DEF StreamRow
    <3>7. stream.tries < Reconnects
      BY <1>1, <3>2, VoiceBounds DEF StreamRow
    <3>8. Listens(stream', journal)
      BY <1>1, <3>2, <3>5, <3>6, <3>7 DEF Listens
    <3> QED
      BY <1>1, <1>10, <3>2, <3>6, <3>8
  <2> QED
    BY <2>1, <2>2
<1>15. CASE Reconnect
  <2>1. stream.tries + 1 \in 0..Reconnects /\ stream.last + 1 \in 1..MaxEvents + 1
    BY <1>1, <1>15, VoiceBounds DEF Reconnect, Listens, StreamRow
  <2>2. stream' = [stream EXCEPT !.at = "replay", !.tries = stream.tries + 1,
                                 !.cursor = stream.last + 1]
    BY <1>15 DEF Reconnect, ReplayFrom
  <2>3. /\ stream' \in StreamRow /\ stream'.at = "replay" /\ stream'.terminal = stream.terminal
        /\ stream'.alarm = stream.alarm /\ stream'.refused = stream.refused
        /\ stream'.cursor = stream.last + 1 /\ stream'.last = stream.last
        /\ stream'.heard = stream.heard /\ stream'.turn = stream.turn
    BY <1>1, <2>1, <2>2 DEF StreamRow
  <2>4. Listens(stream', journal)
    BY <1>1, <2>3 DEF Listens
  <2> QED
    BY <1>1, <1>10, <1>15, <2>3, <2>4 DEF Reconnect
<1>16. CASE Played
  <2>1. draft' \in 0..voiceSession
    BY <1>1, <1>7, <1>16 DEF Played, StreamRow
  <2> QED
    BY <1>6, <1>16, <2>1 DEF Played
<1>17. ASSUME CancelTurn, UNCHANGED <<voiceSession, turns, processing, journal>>,
              page' \in {"start", "menu"}, payment' \in BOOLEAN
       PROVE  VoiceInv'
  <2>1. mic' \in MicRow
    BY <1>3, <1>17 DEF CancelTurn, MicRow
  <2>2. MicPart'
    BY <1>1, <1>17, <2>1 DEF CancelTurn, CloseDraft, MicPart
  <2>3. CASE UNCHANGED stream
    BY <1>1, <1>17, <2>2, <2>3, StreamStays, VoicePartsNext DEF MicPart
  <2>4. CASE stream' = Pausing
    BY <1>1, <1>17, <2>2, <2>4, NoStreamNext, VoicePartsNext
  <2> QED
    BY <1>17, <2>3, <2>4 DEF CancelTurn, Pausing
<1>18. CASE OpenPayment \/ LeaveForHome
  <2>1. page' \in {"start", "menu"} /\ payment' \in BOOLEAN
    BY <1>1, <1>18 DEF OpenPayment, LeaveForHome, IsKioskActive, MicPart
  <2> QED
    BY <1>17, <1>18, <2>1 DEF OpenPayment, LeaveForHome
<1>19. CASE PageLoads
  <2>1. MicPart'
    <3>1. 0 \in 0..turns /\ 0 \in 0..voiceSession
      BY <1>1 DEF MicPart
    <3> QED
      BY <1>1, <1>19, <3>1, NoMicTyped DEF PageLoads, MicPart
  <2> QED
    BY <1>19, <2>1, NoStreamNext, NoJournalTyped, VoicePartsNext DEF PageLoads
<1>20. CASE UNCHANGED kioskVoice
  BY <1>1, <1>10, <1>20 DEF kioskVoice
<1> QED
  BY <1>4, <1>8, <1>9, <1>11, <1>12, <1>13, <1>14, <1>15, <1>16, <1>18, <1>19, <1>20
     DEF KioskVoiceNext

\* The parts of DraftInv.
OwnPart ==
  /\ payment => page = "menu"
  /\ stream.at \notin {"off", "pausing"} /\ stream.turn # 0 =>
       stream.session = voiceSession /\ page # "start"
  /\ page = "start" => ~mic.listening /\ ~mic.resuming /\ turn = 0 /\ draft = 0
  /\ page = "done" => ~mic.listening /\ ~mic.detector

LEMMA DraftParts == DraftInv <=> VoiceInv /\ DraftIsInPlace /\ OwnPart
  BY DEF DraftInv, OwnPart

LEMMA DraftInvStep ==
  ASSUME DraftInv, ~LeavesTurn, [KioskVoiceNext]_kioskVoice
  PROVE  DraftInv'
<1>1. VoiceInv /\ DraftIsInPlace /\ OwnPart /\ VoiceInv'
  BY DraftParts, VoiceInvStep
<1>2. /\ stream \in StreamRow /\ mic \in MicRow /\ mic' \in MicRow /\ payment \in BOOLEAN
      /\ Listens(stream, journal)
  BY <1>1, VoiceParts, VoicePartsNext DEF MicPart, StreamPart
<1>3. SUFFICES DraftIsInPlace' /\ OwnPart'
  BY <1>1 DEF DraftInv, OwnPart
<1>4. CASE SessionBegins
  <2>1. /\ page = "start" /\ page' = "menu" /\ UNCHANGED <<payment, stream, draft>>
    BY <1>4 DEF SessionBegins
  <2>2. stream.at \in {"off", "pausing"} \/ stream.turn = 0
    BY <1>1, <2>1 DEF OwnPart
  <2>3. draft = 0
    BY <1>1, <2>1 DEF OwnPart
  <2> QED
    BY <2>1, <2>2, <2>3 DEF OwnPart, DraftIsInPlace
<1>5. CASE Setup \/ Ask \/ SpeechStarts \/ Misfire \/ Resume \/ AnswerDraft \/ ClosePayment
  <2>1. /\ UNCHANGED <<voiceSession, page, stream>> /\ draft' \in {0, draft}
        /\ payment' => payment
    BY <1>5 DEF Setup, Ask, SpeechStarts, Misfire, Resume, AnswerDraft, ClosePayment
  <2>2. DraftIsInPlace'
    BY <1>1, <2>1 DEF DraftIsInPlace
  <2>3. page = "start" => ~mic'.listening /\ ~mic'.resuming /\ turn' = 0
    BY <1>1, <1>2, <1>5
       DEF OwnPart, MicRow, Setup, Ask, SpeechStarts, Misfire, Resume, AnswerDraft, ClosePayment,
           IsKioskActive
  <2>4. page = "done" => ~mic'.listening /\ ~mic'.detector
    BY <1>1, <1>2, <1>5
       DEF OwnPart, MicRow, Setup, Ask, SpeechStarts, Misfire, Resume, AnswerDraft, ClosePayment,
           IsKioskActive
  <2> QED
    BY <1>1, <2>1, <2>2, <2>3, <2>4 DEF OwnPart
<1>6. CASE CompleteOrder
  <2>1. /\ payment /\ ~payment' /\ page' = "done" /\ UNCHANGED <<voiceSession, stream, draft>>
        /\ mic' = [NoMic EXCEPT !.resuming = mic.resuming]
    BY <1>6 DEF CompleteOrder, ResetRound
  <2>2. ~mic'.listening /\ ~mic'.detector
    BY <2>1 DEF NoMic
  <2>3. DraftIsInPlace'
    BY <1>1, <2>1 DEF DraftIsInPlace
  <2>4. page # "start"
    BY <1>1, <2>1 DEF OwnPart
  <2> QED
    BY <1>1, <2>1, <2>2, <2>3, <2>4 DEF OwnPart
<1>7. ASSUME FinishSegment, UNCHANGED <<voiceSession, page, payment>>,
             draft' # 0 => ~payment /\ draft' = voiceSession /\ (page = "start" => draft = draft')
      PROVE  DraftIsInPlace' /\ OwnPart'
  <2>1. mic' = [mic EXCEPT !.resuming = @ \/ (IsKioskActive /\ ~mic.suspended)]
        /\ stream' = NoStream /\ turn' = 0
    BY <1>7 DEF FinishSegment
  <2>2. /\ mic'.listening = mic.listening /\ mic'.detector = mic.detector
        /\ page = "start" => ~mic'.resuming
    BY <1>1, <1>2, <2>1 DEF OwnPart, MicRow, IsKioskActive
  <2>3. stream'.at = "off"
    BY <2>1 DEF NoStream
  <2>4. DraftIsInPlace'
    BY <1>7 DEF DraftIsInPlace
  <2>5. page = "start" => draft' = 0
    BY <1>1, <1>7 DEF OwnPart
  <2> QED
    BY <1>1, <1>7, <2>1, <2>2, <2>3, <2>4, <2>5 DEF OwnPart
<1>8. draft # 0 => ~payment /\ draft = voiceSession
  BY <1>1 DEF DraftIsInPlace
<1>9. CASE SpeechEnds
  <2>1. /\ UNCHANGED <<voiceSession, page, payment, turn, mic, draft>>
        /\ stream' = [NoStream EXCEPT !.at = "pausing"]
    BY <1>9 DEF SpeechEnds
  <2>2. stream'.at = "pausing"
    BY <2>1 DEF NoStream
  <2> QED
    BY <1>1, <2>1, <2>2 DEF OwnPart, DraftIsInPlace
<1>10. CASE Paused
  <2>1. UNCHANGED <<voiceSession, page, payment, draft>>
    BY <1>10 DEF Paused
  <2>2. CASE /\ stream' = [stream EXCEPT !.at = "post", !.turn = turn, !.session = voiceSession]
             /\ mic' = [mic EXCEPT !.listening = FALSE]
             /\ UNCHANGED turn
    <3>1. stream'.at = "post" /\ stream'.turn = turn /\ stream'.session = voiceSession
      BY <1>2, <2>2 DEF StreamRow
    <3>2. ~mic'.listening /\ mic'.resuming = mic.resuming /\ mic'.detector = mic.detector
      BY <1>2, <2>2 DEF MicRow
    <3> QED
      BY <1>1, <2>1, <2>2, <3>1, <3>2 DEF OwnPart, DraftIsInPlace
  <2>3. CASE /\ stream' = NoStream /\ turn' = 0
             /\ mic' = [mic EXCEPT !.listening = FALSE,
                                   !.resuming = @ \/ (IsKioskActive /\ ~mic.suspended)]
    <3>1. stream'.at = "off"
      BY <2>3 DEF NoStream
    <3>2. ~mic'.listening /\ (page = "start" => ~mic'.resuming) /\ mic'.detector = mic.detector
      BY <1>1, <1>2, <2>3 DEF MicRow, OwnPart, IsKioskActive
    <3> QED
      BY <1>1, <2>1, <2>3, <3>1, <3>2 DEF OwnPart, DraftIsInPlace
  <2> QED
    BY <1>10, <2>2, <2>3 DEF Paused
<1>11. ASSUME UNCHANGED <<voiceSession, page, payment, turn, mic, draft>>,
              stream'.turn = stream.turn, stream'.session = stream.session,
              stream.at \notin {"off", "pausing"}
       PROVE  DraftIsInPlace' /\ OwnPart'
  BY <1>1, <1>11 DEF OwnPart, DraftIsInPlace
<1>12. CASE JournalGrows \/ UNCHANGED kioskVoice
  <2>1. UNCHANGED <<voiceSession, page, payment, turn, mic, draft, stream>>
    BY <1>12 DEF JournalGrows, kioskVoice
  <2> QED
    BY <1>1, <2>1 DEF OwnPart, DraftIsInPlace
<1>13. CASE LineArrives
  <2>1. stream'.turn = stream.turn /\ stream'.session = stream.session
    BY <1>2, <1>13 DEF LineArrives, StreamRow
  <2> QED
    BY <1>11, <1>13, <2>1 DEF LineArrives
<1>14. CASE StreamEnds
  <2>1. CASE FinishSegment
    BY <1>1, <1>7, <1>8, <1>14, <2>1 DEF StreamEnds
  <2>2. CASE stream' = [stream EXCEPT !.at = "play"] /\ UNCHANGED <<journal, turn, processing, mic>>
    <3>1. stream'.turn = stream.turn /\ stream'.session = stream.session
      BY <1>2, <2>2 DEF StreamRow
    <3> QED
      BY <1>11, <1>14, <2>2, <3>1 DEF StreamEnds
  <2> QED
    BY <1>14, <2>1, <2>2 DEF StreamEnds
<1>15. CASE ResponseBreaks
  <2>1. CASE FinishSegment
    BY <1>1, <1>7, <1>8, <1>15, <2>1 DEF ResponseBreaks
  <2>2. CASE ~FinishSegment
    <3>1. PICK refused \in BOOLEAN :
            stream' = [stream EXCEPT !.at = "wait", !.alarm = @ \/ refused,
                                     !.refused = @ \/ refused]
      BY <1>15, <2>2 DEF ResponseBreaks
    <3>2. stream'.turn = stream.turn /\ stream'.session = stream.session
      BY <1>2, <3>1 DEF StreamRow
    <3> QED
      BY <1>11, <1>15, <2>2, <3>2 DEF ResponseBreaks
  <2> QED
    BY <2>1, <2>2
<1>16. CASE Reconnect
  <2>1. stream'.turn = stream.turn /\ stream'.session = stream.session
    BY <1>2, <1>16 DEF Reconnect, StreamRow
  <2> QED
    BY <1>11, <1>16, <2>1 DEF Reconnect
<1>17. CASE Played
  <2>1. stream.at = "play" /\ stream.turn # 0
    BY <1>2, <1>17 DEF Played, Listens
  <2>2. stream.session = voiceSession /\ page # "start"
    BY <1>1, <2>1 DEF OwnPart
  <2> QED
    BY <1>7, <1>8, <1>17, <2>2 DEF Played
<1>18. ASSUME CancelTurn, UNCHANGED voiceSession, payment' => page' = "menu",
              \/ page' = "menu" /\ page = "menu"
              \/ page' = "start" /\ stream.at = "off" /\ ~mic.resuming
       PROVE  DraftIsInPlace' /\ OwnPart'
  <2>1. /\ mic' = [mic EXCEPT !.suspended = TRUE, !.listening = FALSE] /\ turn' = 0 /\ draft' = 0
        /\ \/ stream' = [NoStream EXCEPT !.at = "pausing"]
           \/ UNCHANGED stream
    BY <1>18 DEF CancelTurn, CloseDraft
  <2>2. ~mic'.listening /\ mic'.resuming = mic.resuming
    BY <1>2, <2>1 DEF MicRow
  <2>3. stream'.at = "pausing" \/ UNCHANGED stream
    BY <2>1 DEF NoStream
  <2> QED
    BY <1>1, <1>18, <2>1, <2>2, <2>3 DEF OwnPart, DraftIsInPlace
<1>19. CASE OpenPayment
  BY <1>18, <1>19 DEF OpenPayment, IsKioskActive
<1>20. CASE LeaveForHome
  BY <1>18, <1>20 DEF LeaveForHome
<1>21. CASE PageLoads
  <2>1. /\ page = "done" /\ page' = "start" /\ turn' = 0 /\ mic' = NoMic /\ stream' = NoStream
        /\ draft' = 0 /\ UNCHANGED payment
    BY <1>21 DEF PageLoads
  <2>2. ~mic'.listening /\ ~mic'.resuming /\ stream'.at = "off"
    BY <2>1 DEF NoMic, NoStream
  <2> QED
    BY <1>1, <2>1, <2>2 DEF OwnPart, DraftIsInPlace
<1> QED
  BY <1>4, <1>5, <1>6, <1>9, <1>10, <1>12, <1>13, <1>14, <1>15, <1>16, <1>17, <1>19, <1>20, <1>21
     DEF KioskVoiceNext

LEMMA VoiceInvHears == ASSUME VoiceInv PROVE TurnIsHeard
<1>1. Listens(stream, journal)
  BY VoiceParts DEF StreamPart
<1> QED
  BY <1>1 DEF TurnIsHeard, NoFalseAlarm, ReplyIsWhole, Listens

\* However the responses of a turn break, its replays go on where it was heard last:
\* it is called a violation of the protocol only where it has no identity or the
\* server sent an error, and played when it was heard to its end (voiceTurnProtocol.js).
THEOREM TurnsAreHeard == KioskVoiceSpec => []TurnIsHeard
<1>1. KioskVoiceInit => VoiceInv
  BY VoiceInvInit
<1>2. VoiceInv /\ [KioskVoiceNext]_kioskVoice => VoiceInv'
  BY VoiceInvStep
<1>3. VoiceInv => TurnIsHeard
  BY VoiceInvHears
<1> QED
  BY <1>1, <1>2, <1>3, PTL DEF KioskVoiceSpec

\* VoiceIsHeeded: and, where nobody goes home from a turn under way, a draft that can
\* be confirmed is of the customer at the kiosk, never over the payment screen
\* (voice.js, voiceOrderDraft.js).
THEOREM VoicesAreHeeded ==
  ASSUME ~LeavesTurn
  PROVE  KioskVoiceSpec => []VoiceIsHeeded
<1>1. KioskVoiceInit => DraftInv
  <2> SUFFICES ASSUME KioskVoiceInit PROVE DraftInv
    OBVIOUS
  <2>1. mic = NoMic /\ stream = NoStream /\ page = "start" /\ payment = FALSE /\ draft = 0
        /\ turn = 0
    BY DEF KioskVoiceInit
  <2> QED
    BY <2>1, VoiceInvInit, DraftParts DEF OwnPart, DraftIsInPlace, NoMic, NoStream
<1>2. DraftInv /\ [KioskVoiceNext]_kioskVoice => DraftInv'
  BY DraftInvStep
<1>3. DraftInv => VoiceIsHeeded
  BY DraftParts, VoiceInvHears DEF VoiceIsHeeded
<1> QED
  BY <1>1, <1>2, <1>3, PTL DEF KioskVoiceSpec
(* The bar: the invariant.                                                 *)

BarPage == [running : BOOLEAN, completed : BOOLEAN, cart : BOOLEAN, payment : BOOLEAN,
         visible : BOOLEAN]
BarLocals == [timer : BOOLEAN, flight : BOOLEAN, current : Items \cup {NoItem},
           seen : SUBSET Candidate, ready : Seq(Candidate), bar : BOOLEAN]
Flights == [Slots -> Request \cup {Free}]

PushTypes ==
  /\ order \in 0..MaxOrders /\ due \in Nat /\ started \in BOOLEAN
  /\ ui \in BarPage /\ push \in BarLocals /\ net \in Flights

\* Completed is shown over the payment screen only, so FinishFails shows no bar,
\* and the payment screen in an order only.
PageIsInOrder == (ui.completed => ui.payment) /\ (ui.payment => ui.running)

\* What the controller holds is of the present order.
OfOrder(p) ==
  /\ \A c \in p.seen : c.order = order
  /\ \A i \in DOMAIN p.ready : p.ready[i].order = order

\* Nothing outlives the order, and nothing is of another order.
OnlyThisOrder ==
  /\ ~ ui.running => due = 0 /\ push.seen = {} /\ push.ready = <<>>
  /\ ~ ui.running => \A s \in Slots : net[s] = Free
  /\ OfOrder(push)
  /\ \A s \in Slots : net[s] # Free => net[s].order = order

PushInv == PushTypes /\ PageIsInOrder /\ BarIsInPlace /\ MenuIsAttended /\ FlightIsReal

-----------------------------------------------------------------------------
(* The controller.                                                         *)

LEMMA StartPages ==
  /\ StartPage \in BarPage /\ [StartPage EXCEPT !.running = TRUE] \in BarPage
  /\ Stopped \in BarLocals /\ OfOrder(Stopped)
  /\ Free \notin Request
<1>1. StartPage \in BarPage
  BY SMT DEF StartPage, BarPage
<1>2. [StartPage EXCEPT !.running = TRUE] \in BarPage
  BY <1>1, Zenon DEF BarPage
<1>3. Stopped \in BarLocals
  BY SMT, KioskPushAssumption DEF Stopped, BarLocals
<1>4. OfOrder(Stopped) /\ Free \notin Request
  BY SMT DEF OfOrder, Stopped, Free, Request
<1> QED BY <1>1, <1>2, <1>3, <1>4

\* The page with the locals: the bar stands where it may, with something on it.
InPlace(p, u) == p.bar => BarEligible(u) /\ p.current # NoItem

\* The bar is there, and will change.
Attended(p, u) == BarEligible(u) => p.bar /\ (p.timer \/ p.flight)

\* What an operator of the controller keeps: it takes p to r.push.
Keeps(p, r) ==
  /\ r.push \in BarLocals
  /\ r.sent \subseteq Request
  /\ \A q \in r.sent : q.order = order
  /\ \A q1, q2 \in r.sent : q1 = q2
  /\ r.push.flight => p.flight \/ \E q \in r.sent : q.kind = "fetch"
  /\ OfOrder(p) => OfOrder(r.push)

\* A recommendation that is rendered.
LEMMA RenderDoes ==
  ASSUME NEW p \in BarLocals, NEW u \in BarPage, NEW c \in Candidate
  PROVE  /\ Render(p, u, c) \in BarLocals
         /\ Render(p, u, c).current = c.item /\ c.item # NoItem
         /\ Render(p, u, c).bar = BarEligible(u)
         /\ Render(p, u, c).timer = p.timer /\ Render(p, u, c).flight = p.flight
         /\ Render(p, u, c).ready = p.ready
         /\ Render(p, u, c).seen = p.seen \cup {c}
         /\ OfOrder(p) /\ c.order = order => OfOrder(Render(p, u, c))
<1>1. c.item \in Items /\ c.item # NoItem
  BY KioskPushAssumption DEF Candidate
<1>2. BarEligible(u) \in BOOLEAN
  BY DEF BarEligible, BarPage
<1>3. Render(p, u, c) \in BarLocals
  BY <1>1, <1>2, Zenon DEF Render, BarLocals
<1>4. /\ Render(p, u, c).current = c.item
      /\ Render(p, u, c).bar = BarEligible(u)
      /\ Render(p, u, c).timer = p.timer /\ Render(p, u, c).flight = p.flight
      /\ Render(p, u, c).ready = p.ready
      /\ Render(p, u, c).seen = p.seen \cup {c}
  BY <1>2, SMT DEF Render, BarLocals
<1>5. OfOrder(p) /\ c.order = order => OfOrder(Render(p, u, c))
  BY <1>4 DEF OfOrder
<1> QED BY <1>1, <1>3, <1>4, <1>5

LEMMA OwnIsCandidate ==
  ASSUME PushTypes PROVE Own(Default) \in Candidate /\ Own(Default).order = order
BY KioskPushAssumption DEF PushTypes, Own, Candidate

LEMMA HideDoes ==
  ASSUME NEW p \in BarLocals
  PROVE  /\ Hide(p) \in BarLocals /\ ~ Hide(p).bar
         /\ Hide(p).flight = p.flight
         /\ Hide(p).seen = p.seen /\ Hide(p).ready = p.ready
         /\ OfOrder(p) => OfOrder(Hide(p))
<1>1. Hide(p) \in BarLocals
  BY Zenon DEF Hide, BarLocals
<1>2. /\ ~ Hide(p).bar /\ Hide(p).flight = p.flight
      /\ Hide(p).seen = p.seen /\ Hide(p).ready = p.ready
  BY SMT DEF Hide, BarLocals
<1> QED BY <1>1, <1>2 DEF OfOrder

\* Whatever is asked for is asked for in this order.
LEMMA AskingDoes ==
  ASSUME PushTypes, NEW p \in BarLocals, NEW kind \in {"fetch", "prefetch"},
         NEW anew \in BOOLEAN
  PROVE  /\ Asking(p, kind, anew) \subseteq Request
         /\ \A q \in Asking(p, kind, anew) : q.order = order /\ q.kind = kind
         /\ Asking(p, kind, anew) # {}
         /\ \A q1, q2 \in Asking(p, kind, anew) : q1 = q2
<1>1. ItemsOf(p.seen) \subseteq Items
  BY DEF ItemsOf, BarLocals, Candidate
<1>2. [kind |-> kind, exclude |-> ItemsOf(p.seen), anew |-> anew, order |-> order] \in Request
  BY <1>1 DEF Request, PushTypes
<1> QED BY <1>2 DEF Asking

\* A result that asks for nothing.
LEMMA NothingSent ==
  ASSUME PushTypes, NEW p \in BarLocals, NEW p2 \in BarLocals,
         p2.flight => p.flight, OfOrder(p) => OfOrder(p2)
  PROVE  Keeps(p, Result(p2, {})) /\ Result(p2, {}).push = p2 /\ Result(p2, {}).sent = {}
BY DEF Keeps, Result

LEMMA PrefetchKeeps ==
  ASSUME PushTypes, NEW p \in BarLocals, NEW u \in BarPage
  PROVE  Keeps(p, PrefetchNext(p, u)) /\ PrefetchNext(p, u).push = p
<1> DEFINE sent == IF p.ready = <<>> /\ BarEligible(u) THEN Asking(p, "prefetch", TRUE) ELSE {}
<1>1. PrefetchNext(p, u).push = p /\ PrefetchNext(p, u).sent = sent
  BY DEF PrefetchNext, Result
<1>2. /\ sent \subseteq Request
      /\ \A q \in sent : q.order = order
      /\ \A q1, q2 \in sent : q1 = q2
  BY AskingDoes
<1> QED BY <1>1, <1>2 DEF Keeps

\* fetchNext.
LEMMA FetchKeeps ==
  ASSUME PushTypes, NEW p \in BarLocals, NEW u \in BarPage, NEW anew \in BOOLEAN
  PROVE  /\ Keeps(p, Fetch(p, u, anew))
         /\ InPlace(p, u) => InPlace(Fetch(p, u, anew).push, u)
         /\ p.bar => Attended(Fetch(p, u, anew).push, u)
         /\ p.current # NoItem => InPlace(Fetch(p, u, anew).push, u)
         /\ ~ BarEligible(u) => /\ Fetch(p, u, anew).sent = {}
                                /\ Fetch(p, u, anew).push = Hide(p)
<1>1. CASE ~ BarEligible(u)
  <2>1. Fetch(p, u, anew) = Result(Hide(p), {})
    BY <1>1 DEF Fetch
  <2> QED BY <1>1, <2>1, NothingSent, HideDoes DEF InPlace, Attended
<1>2. CASE BarEligible(u) /\ p.flight
  <2> DEFINE p2 == [p EXCEPT !.bar = @ \/ p.current # NoItem, !.timer = TRUE]
  <2>1. Fetch(p, u, anew) = Result(p2, {})
    BY <1>2 DEF Fetch
  <2>6. (p.bar \/ p.current # NoItem) \in BOOLEAN
    BY DEF BarLocals
  <2>7. p2 \in BarLocals
    BY <2>6, Zenon DEF BarLocals
  <2>2. /\ p2.timer /\ p2.flight = p.flight /\ p2.current = p.current
        /\ p2.seen = p.seen /\ p2.ready = p.ready
    BY SMT DEF BarLocals
  <2>3. p2.bar = (p.bar \/ p.current # NoItem)
    BY SMT DEF BarLocals
  <2> HIDE DEF p2
  <2>4. OfOrder(p) => OfOrder(p2)
    BY <2>2 DEF OfOrder
  <2> QED BY <1>2, <2>1, <2>2, <2>3, <2>4, <2>7, NothingSent DEF InPlace, Attended
<1>3. CASE BarEligible(u) /\ ~ p.flight /\ anew /\ p.ready # <<>>
  <2> DEFINE c == Head(p.ready)
             p1 == [p EXCEPT !.ready = Tail(@)]
             p2 == Render(p1, u, c)
             p3 == [p2 EXCEPT !.timer = TRUE]
  <2>1. Fetch(p, u, anew) = PrefetchNext(p3, u)
    BY <1>3 DEF Fetch
  <2>2. p.ready \in Seq(Candidate) /\ p.ready # <<>>
    BY <1>3 DEF BarLocals
  <2>3. c \in Candidate /\ Tail(p.ready) \in Seq(Candidate) /\ c = p.ready[1]
        /\ 1 \in DOMAIN p.ready
    BY <2>2, SMT
  <2>4. /\ p1 \in BarLocals /\ p1.seen = p.seen /\ p1.flight = p.flight
        /\ p1.ready = Tail(p.ready)
    BY <2>3, SMT DEF BarLocals
  <2>5. \A i \in DOMAIN Tail(p.ready) : i + 1 \in DOMAIN p.ready /\ Tail(p.ready)[i] = p.ready[i + 1]
    BY <2>2, SMT
  <2>6. OfOrder(p) => OfOrder(p1) /\ c.order = order
    BY <2>3, <2>4, <2>5 DEF OfOrder
  <2> HIDE DEF p1, c
  <2>7. /\ p2 \in BarLocals /\ p2.current # NoItem /\ p2.bar = BarEligible(u)
        /\ p2.flight = p.flight
        /\ OfOrder(p) => OfOrder(p2)
    BY <2>3, <2>4, <2>6, RenderDoes
  <2> HIDE DEF p2
  <2>12. p3 \in BarLocals
    BY <2>7, Zenon DEF BarLocals
  <2>8. /\ p3.timer /\ p3.flight = p2.flight /\ p3.current = p2.current
        /\ p3.seen = p2.seen /\ p3.ready = p2.ready /\ p3.bar = p2.bar
    BY <2>7, SMT DEF BarLocals
  <2>9. OfOrder(p2) => OfOrder(p3)
    BY <2>8 DEF OfOrder
  <2> HIDE DEF p3
  <2>10. Keeps(p3, PrefetchNext(p3, u)) /\ PrefetchNext(p3, u).push = p3
    BY <2>12, PrefetchKeeps
  <2>11. Keeps(p, PrefetchNext(p3, u))
    BY <2>10, <2>12, <2>8, <2>7, <2>9, <1>3 DEF Keeps
  <2> QED BY <1>3, <2>1, <2>10, <2>11, <2>7, <2>8 DEF InPlace, Attended
<1>4. CASE BarEligible(u) /\ ~ p.flight /\ ~ (anew /\ p.ready # <<>>)
  <2> DEFINE p2 == [p EXCEPT !.flight = TRUE]
             sent == Asking(p, "fetch", anew)
  <2>1. Fetch(p, u, anew) = Result(p2, sent)
    BY <1>4 DEF Fetch
  <2>7. p2 \in BarLocals
    BY Zenon DEF BarLocals
  <2>2. /\ p2.flight /\ p2.current = p.current /\ p2.bar = p.bar
        /\ p2.seen = p.seen /\ p2.ready = p.ready
    BY SMT DEF BarLocals
  <2> HIDE DEF p2
  <2>3. OfOrder(p) => OfOrder(p2)
    BY <2>2 DEF OfOrder
  <2>4. Result(p2, sent).push = p2 /\ Result(p2, sent).sent = sent
    BY DEF Result
  <2>5. /\ sent \subseteq Request
        /\ \A q \in sent : q.order = order /\ q.kind = "fetch"
        /\ sent # {}
        /\ \A q1, q2 \in sent : q1 = q2
    BY AskingDoes
  <2> HIDE DEF sent
  <2>6. Keeps(p, Result(p2, sent))
    BY <2>2, <2>3, <2>4, <2>5, <2>7 DEF Keeps
  <2> QED BY <1>4, <2>1, <2>2, <2>4, <2>6 DEF InPlace, Attended
<1> QED BY <1>1, <1>2, <1>3, <1>4

\* startRecommendations.
LEMMA StartKeeps ==
  ASSUME PushTypes, NEW p \in BarLocals, NEW u \in BarPage
  PROVE  /\ Keeps(p, StartController(p, u))
         /\ InPlace(StartController(p, u).push, u)
         /\ Attended(StartController(p, u).push, u)
<1> DEFINE shown == Render(p, u, Own(Default))
<1>1. /\ shown \in BarLocals /\ shown.current # NoItem /\ shown.bar = BarEligible(u)
      /\ shown.flight = p.flight
      /\ OfOrder(p) => OfOrder(shown)
  BY RenderDoes, OwnIsCandidate
<1>2. CASE BarEligible(u)
  <2>1. StartController(p, u) = Fetch(shown, u, FALSE)
    BY <1>2 DEF StartController
  <2> HIDE DEF shown
  <2>2. /\ Keeps(shown, Fetch(shown, u, FALSE))
        /\ InPlace(Fetch(shown, u, FALSE).push, u)
        /\ Attended(Fetch(shown, u, FALSE).push, u)
    BY <1>1, <1>2, FetchKeeps
  <2>3. Keeps(p, Fetch(shown, u, FALSE))
    BY <2>2, <1>1 DEF Keeps
  <2> QED BY <2>1, <2>2, <2>3
<1>3. CASE ~ BarEligible(u)
  <2> DEFINE p2 == [shown EXCEPT !.timer = TRUE]
  <2>1. StartController(p, u) = Result(p2, {})
    BY <1>3 DEF StartController
  <2> HIDE DEF shown
  <2>2. p2 \in BarLocals
    BY <1>1, Zenon DEF BarLocals
  <2>3. /\ p2.flight = shown.flight /\ p2.bar = shown.bar
        /\ p2.seen = shown.seen /\ p2.ready = shown.ready
    BY <1>1, SMT DEF BarLocals
  <2> HIDE DEF p2
  <2>4. OfOrder(shown) => OfOrder(p2)
    BY <2>3 DEF OfOrder
  <2>5. Keeps(p, Result(p2, {})) /\ Result(p2, {}).push = p2
    BY <1>1, <2>2, <2>3, <2>4, NothingSent
  <2> QED BY <1>1, <1>3, <2>1, <2>3, <2>5 DEF InPlace, Attended
<1> QED BY <1>2, <1>3

\* syncVisibility.
LEMMA SyncKeeps ==
  ASSUME PushTypes, NEW p \in BarLocals, NEW u \in BarPage
  PROVE  /\ Keeps(p, Sync(p, u))
         /\ InPlace(Sync(p, u).push, u)
         /\ Attended(Sync(p, u).push, u)
         /\ ~ BarEligible(u) => Sync(p, u).sent = {} /\ Sync(p, u).push = Hide(p)
<1>1. CASE ~ BarEligible(u)
  <2>1. Sync(p, u) = Result(Hide(p), {})
    BY <1>1 DEF Sync
  <2> QED BY <1>1, <2>1, NothingSent, HideDoes DEF InPlace, Attended
<1>2. CASE BarEligible(u) /\ p.current # NoItem
  <2> DEFINE p2 == [p EXCEPT !.bar = TRUE, !.timer = TRUE]
  <2>1. Sync(p, u) = Result(p2, {})
    BY <1>2 DEF Sync
  <2>2. p2 \in BarLocals
    BY Zenon DEF BarLocals
  <2>3. /\ p2.flight = p.flight /\ p2.bar /\ p2.timer /\ p2.current = p.current
        /\ p2.seen = p.seen /\ p2.ready = p.ready
    BY SMT DEF BarLocals
  <2> HIDE DEF p2
  <2>4. OfOrder(p) => OfOrder(p2)
    BY <2>3 DEF OfOrder
  <2> QED BY <1>2, <2>1, <2>2, <2>3, <2>4, NothingSent DEF InPlace, Attended
<1>3. CASE BarEligible(u) /\ ~ p.current # NoItem
  <2> DEFINE shown == Render(p, u, Own(Default))
  <2>1. /\ shown \in BarLocals /\ shown.current # NoItem /\ shown.bar = BarEligible(u)
        /\ shown.flight = p.flight
        /\ OfOrder(p) => OfOrder(shown)
    BY RenderDoes, OwnIsCandidate
  <2>2. Sync(p, u) = IF p.flight THEN Result(shown, {}) ELSE Fetch(shown, u, FALSE)
    BY <1>3 DEF Sync
  <2> HIDE DEF shown
  <2>3. CASE p.flight
    BY <1>3, <2>1, <2>2, <2>3, NothingSent DEF InPlace, Attended
  <2>4. CASE ~ p.flight
    <3>1. /\ Keeps(shown, Fetch(shown, u, FALSE))
          /\ InPlace(Fetch(shown, u, FALSE).push, u)
          /\ Attended(Fetch(shown, u, FALSE).push, u)
      BY <1>3, <2>1, FetchKeeps
    <3>2. Keeps(p, Fetch(shown, u, FALSE))
      BY <2>1, <3>1 DEF Keeps
    <3> QED BY <1>3, <2>2, <2>4, <3>1, <3>2
  <2> QED BY <2>3, <2>4
<1> QED BY <1>1, <1>2, <1>3

\* What is sent is in a slot that was free.
LEMMA TakeDoes ==
  ASSUME NEW r, NEW slots \in Flights, r.sent \subseteq Request, Take(r, slots)
  PROVE  /\ push' = r.push /\ net' \in Flights
         /\ \A s \in Slots : net'[s] = slots[s] \/ (slots[s] = Free /\ net'[s] \in r.sent)
         /\ r.sent = {} => net' = slots
         /\ (\A q1, q2 \in r.sent : q1 = q2) => \A q \in r.sent : \E s \in Slots : net'[s] = q
<1>1. CASE r.sent = {}
  BY <1>1 DEF Take
<1>2. CASE r.sent # {}
  <2>1. PICK s \in Slots, request \in r.sent :
           slots[s] = Free /\ net' = [slots EXCEPT ![s] = request]
    BY <1>2 DEF Take
  <2>2. request \in Request
    OBVIOUS
  <2>3. net' \in Flights
    BY <2>1, <2>2 DEF Flights
  <2>4. net'[s] = request /\ \A t \in Slots \ {s} : net'[t] = slots[t]
    BY <2>1 DEF Flights
  <2> QED BY <1>2, <2>1, <2>3, <2>4 DEF Take
<1> QED BY <1>1, <1>2

LEMMA FreeIsNoRequest ==
  /\ Free.kind = "none"
  /\ \A q \in Request : q # Free /\ q.kind \in {"fetch", "prefetch"}
BY StartPages DEF Free, Request

\* A handler that hands its result to Take keeps the invariant when the bar is
\* in its place on the new page and the flag is of a request under way.
LEMMA TakenStep ==
  ASSUME PushInv, order' = order, ui' \in BarPage, due' \in Nat, started' \in BOOLEAN,
         ui'.completed => ui'.payment, ui'.payment => ui'.running,
         NEW p \in BarLocals, NEW r, Keeps(p, r), NEW slots \in Flights, Take(r, slots),
         p.flight => \E s \in Slots : slots[s].kind = "fetch",
         InPlace(r.push, ui'), started' => Attended(r.push, ui')
  PROVE  PushInv'
<1>1. r.push \in BarLocals /\ r.sent \subseteq Request
  BY DEF Keeps
<1>2. /\ push' = r.push /\ net' \in Flights
      /\ \A s \in Slots : net'[s] = slots[s] \/ (slots[s] = Free /\ net'[s] \in r.sent)
  BY <1>1, TakeDoes
<1>3. \A q \in r.sent : \E s \in Slots : net'[s] = q
  BY <1>1, TakeDoes DEF Keeps
<1>4. PushTypes'
  BY <1>1, <1>2 DEF PushInv, PushTypes, BarPage, BarLocals, Flights, Candidate, Request, Free
<1>5. PageIsInOrder'
  BY DEF PageIsInOrder
<1>6. BarIsInPlace'
  BY <1>2 DEF BarIsInPlace, InPlace, BarEligible
<1>7. MenuIsAttended'
  BY <1>2 DEF MenuIsAttended, Attended, BarEligible
<1>8. ASSUME push'.flight PROVE \E s \in Slots : net'[s].kind = "fetch"
  <2>1. p.flight \/ \E q \in r.sent : q.kind = "fetch"
    BY <1>2, <1>8 DEF Keeps
  <2>2. CASE p.flight
    <3>1. PICK s \in Slots : slots[s].kind = "fetch"
      BY <2>2
    <3>2. net'[s] = slots[s]
      BY <1>2, <3>1, FreeIsNoRequest
    <3> QED BY <3>1, <3>2
  <2> QED BY <1>3, <2>1, <2>2
<1>9. FlightIsReal'
  BY <1>8 DEF FlightIsReal
<1> QED BY <1>4, <1>5, <1>6, <1>7, <1>9 DEF PushInv

\* It also keeps to its order, when what it leaves at home is nothing.
LEMMA TakenIsOfOrder ==
  ASSUME order' = order,
         NEW p \in BarLocals, NEW r, Keeps(p, r), NEW slots \in Flights, Take(r, slots),
         OfOrder(p), \A s \in Slots : slots[s] # Free => slots[s].order = order,
         ~ ui'.running => /\ due' = 0 /\ r.push.seen = {} /\ r.push.ready = <<>>
                          /\ \A s \in Slots : net'[s] = Free
  PROVE  OnlyThisOrder'
<1>1. r.push \in BarLocals /\ r.sent \subseteq Request
  BY DEF Keeps
<1>2. /\ push' = r.push
      /\ \A s \in Slots : net'[s] = slots[s] \/ (slots[s] = Free /\ net'[s] \in r.sent)
  BY <1>1, TakeDoes
<1>3. OfOrder(r.push) /\ \A q \in r.sent : q.order = order
  BY DEF Keeps
<1>4. OfOrder(push)'
  BY <1>2, <1>3 DEF OfOrder
<1>5. \A s \in Slots : net'[s] # Free => net'[s].order = order'
  BY <1>2, <1>3
<1> QED BY <1>2, <1>4, <1>5 DEF OnlyThisOrder, Free
-----------------------------------------------------------------------------
(* The steps.                                                              *)

\* What a step without Take may do, and what it needs.
LEMMA PlainStep ==
  ASSUME PushInv, order' = order, net' = net, ui' \in BarPage, due' = due, started' = started,
         ui'.completed => ui'.payment, ui'.payment => ui'.running,
         push' \in BarLocals, push'.flight => push.flight,
         InPlace(push', ui'), started' => Attended(push', ui')
  PROVE  PushInv'
<1>1. PushTypes'
  BY DEF PushInv, PushTypes, BarPage, BarLocals, Flights, Candidate, Request, Free
<1>2. PageIsInOrder'
  BY DEF PageIsInOrder
<1>3. BarIsInPlace'
  BY DEF BarIsInPlace, InPlace, BarEligible
<1>4. MenuIsAttended'
  BY DEF MenuIsAttended, Attended, BarEligible
<1>5. FlightIsReal'
  BY DEF PushInv, FlightIsReal
<1> QED BY <1>1, <1>2, <1>3, <1>4, <1>5 DEF PushInv

LEMMA PlainIsOfOrder ==
  ASSUME PushInv, OnlyThisOrder, order' = order, net' = net, due' = due, ui'.running = ui.running,
         push'.seen = push.seen, push'.ready = push.ready
  PROVE  OnlyThisOrder'
BY DEF OnlyThisOrder, OfOrder, Free

\* What the invariant says of the present state, for the operators.
LEMMA InvSays ==
  ASSUME PushInv
  PROVE  /\ PushTypes /\ push \in BarLocals /\ ui \in BarPage /\ net \in Flights
         /\ order \in 0..MaxOrders /\ due \in Nat /\ started \in BOOLEAN
         /\ InPlace(push, ui) /\ (started => Attended(push, ui))
         /\ push.flight => \E s \in Slots : net[s].kind = "fetch"
         /\ ui.completed => ui.payment
         /\ ui.payment => ui.running
BY DEF PushInv, PushTypes, BarIsInPlace, MenuIsAttended, FlightIsReal, InPlace, Attended,
       PageIsInOrder

LEMMA NotInOrder ==
  ASSUME PushInv, OnlyThisOrder, ~ ui.running
  PROVE  /\ due = 0 /\ push.seen = {} /\ push.ready = <<>>
         /\ \A s \in Slots : net[s] = Free
         /\ ~ BarEligible(ui) /\ ~ push.bar
BY DEF PushInv, OnlyThisOrder, BarEligible, BarIsInPlace

LEMMA StartFiresKeeps ==
  ASSUME PushInv, StartFires
  PROVE  PushInv' /\ (OnlyThisOrder => OnlyThisOrder')
<1> DEFINE r == StartController(push, ui)
<1>1. /\ due > 0 /\ due' = due - 1 /\ started' = ui.running /\ Take(r, net)
      /\ order' = order /\ ui' = ui
  BY DEF StartFires
<1>2. Keeps(push, r) /\ InPlace(r.push, ui) /\ Attended(r.push, ui)
  BY InvSays, StartKeeps
<1> HIDE DEF r
<1>3. due' \in Nat /\ started' \in BOOLEAN
  BY <1>1, InvSays DEF BarPage
<1>4. PushInv'
  BY <1>1, <1>2, <1>3, InvSays, TakenStep
<1>5. ASSUME OnlyThisOrder PROVE OnlyThisOrder'
  <2>1. ui'.running
    BY <1>1, <1>5, NotInOrder
  <2>2. OfOrder(push) /\ \A s \in Slots : net[s] # Free => net[s].order = order
    BY <1>5 DEF OnlyThisOrder
  <2> QED BY <1>1, <1>2, <2>1, <2>2, InvSays, TakenIsOfOrder
<1> QED BY <1>4, <1>5

LEMMA PushTimerKeeps ==
  ASSUME PushInv, PushTimerFires
  PROVE  PushInv' /\ (OnlyThisOrder => OnlyThisOrder')
<1> DEFINE p == [push EXCEPT !.timer = FALSE]
           p2 == [p EXCEPT !.bar = @ \/ p.current # NoItem]
           r == IF ~ BarEligible(ui) THEN Result(Hide(p), {}) ELSE Fetch(p2, ui, TRUE)
<1>1. /\ Take(r, net) /\ order' = order /\ ui' = ui /\ due' = due /\ started' = started
  BY DEF PushTimerFires
<1>2. p \in BarLocals
  BY InvSays, Zenon DEF BarLocals
<1>3. /\ p.flight = push.flight /\ p.bar = push.bar /\ p.current = push.current
      /\ p.seen = push.seen /\ p.ready = push.ready
  BY InvSays, SMT DEF BarLocals
<1>4. OfOrder(push) => OfOrder(p)
  BY <1>3 DEF OfOrder
<1> HIDE DEF p
<1>5. (p.bar \/ p.current # NoItem) \in BOOLEAN
  BY <1>2 DEF BarLocals
<1>6. p2 \in BarLocals
  BY <1>2, <1>5, Zenon DEF BarLocals
<1>7. /\ p2.flight = p.flight /\ p2.current = p.current /\ p2.seen = p.seen /\ p2.ready = p.ready
  BY <1>2, SMT DEF BarLocals
<1>8. p2.bar = (p.bar \/ p.current # NoItem)
  BY <1>2, <1>5, SMT DEF BarLocals
<1>9. OfOrder(p) => OfOrder(p2)
  BY <1>7 DEF OfOrder
<1> HIDE DEF p2
<1>10. /\ Keeps(push, r) /\ InPlace(r.push, ui) /\ (started => Attended(r.push, ui))
       /\ ~ BarEligible(ui) => r.sent = {} /\ r.push.seen = push.seen /\ r.push.ready = push.ready
  <2>1. CASE ~ BarEligible(ui)
    <3>1. r = Result(Hide(p), {})
      BY <2>1
    <3>2. /\ Hide(p) \in BarLocals /\ ~ Hide(p).bar /\ Hide(p).flight = push.flight
          /\ Hide(p).seen = push.seen /\ Hide(p).ready = push.ready
          /\ OfOrder(push) => OfOrder(Hide(p))
      BY <1>2, <1>3, <1>4, HideDoes
    <3> HIDE DEF r
    <3>3. Keeps(push, r) /\ r.push = Hide(p) /\ r.sent = {}
      BY <3>1, <3>2, InvSays, NothingSent
    <3> QED BY <2>1, <3>2, <3>3 DEF InPlace, Attended
  <2>2. CASE BarEligible(ui)
    <3>1. r = Fetch(p2, ui, TRUE)
      BY <2>2
    <3> HIDE DEF r
    <3>2. /\ Keeps(p2, r)
          /\ InPlace(p2, ui) => InPlace(r.push, ui)
          /\ p2.bar => Attended(r.push, ui)
      BY <1>6, <3>1, InvSays, FetchKeeps
    <3>3. Keeps(push, r)
      BY <3>2, <1>3, <1>4, <1>7, <1>9 DEF Keeps
    <3>4. InPlace(p2, ui)
      BY <1>3, <1>7, <1>8, <2>2, InvSays DEF InPlace
    <3>5. started => p2.bar
      BY <1>3, <1>8, <2>2, InvSays DEF Attended
    <3> QED BY <2>2, <3>2, <3>3, <3>4, <3>5
  <2> QED BY <2>1, <2>2
<1> HIDE DEF r
<1>11. PushInv'
  BY <1>1, <1>10, InvSays, TakenStep
<1>12. ASSUME OnlyThisOrder PROVE OnlyThisOrder'
  <2>1. OfOrder(push) /\ \A s \in Slots : net[s] # Free => net[s].order = order
    BY <1>12 DEF OnlyThisOrder
  <2>2. r.sent \subseteq Request /\ (r.sent = {} => net' = net)
    BY <1>1, <1>10, InvSays, TakeDoes DEF Keeps
  <2>3. ~ ui'.running => /\ due' = 0 /\ r.push.seen = {} /\ r.push.ready = <<>>
                         /\ \A s \in Slots : net'[s] = Free
    BY <1>1, <1>10, <1>12, <2>2, NotInOrder
  <2> QED BY <1>1, <1>10, <2>1, <2>3, InvSays, TakenIsOfOrder
<1> QED BY <1>11, <1>12

LEMMA FetchReturnsKeeps ==
  ASSUME PushInv, NEW s \in Slots, FetchReturns(s)
  PROVE  PushInv' /\ (OnlyThisOrder => OnlyThisOrder')
<1>1. net[s].kind = "fetch" /\ order' = order /\ ui' = ui /\ due' = due /\ started' = started
  BY DEF FetchReturns
<1>2. net[s] \in Request /\ net[s] # Free
  BY <1>1, InvSays, FreeIsNoRequest DEF Flights
<1>3. PICK item \in Generated(net[s].exclude) \cup Local(net[s].anew) :
        Take(PrefetchNext([Render(push, ui, [item |-> item, order |-> net[s].order])
                             EXCEPT !.flight = FALSE, !.timer = TRUE], ui),
             [net EXCEPT ![s] = Free])
  BY DEF FetchReturns
<1> DEFINE c == [item |-> item, order |-> net[s].order]
           p == Render(push, ui, c)
           p2 == [p EXCEPT !.flight = FALSE, !.timer = TRUE]
           r == PrefetchNext(p2, ui)
           slots == [net EXCEPT ![s] = Free]
<1>4. c \in Candidate /\ c.order = net[s].order
  BY <1>2 DEF Generated, Local, Candidate, Request
<1> HIDE DEF c
<1>5. /\ p \in BarLocals /\ p.current # NoItem /\ p.bar = BarEligible(ui)
      /\ OfOrder(push) /\ c.order = order => OfOrder(p)
  BY <1>4, InvSays, RenderDoes
<1>6. Take(r, slots)
  BY <1>3 DEF c
<1> HIDE DEF p
<1>7. p2 \in BarLocals
  BY <1>5, Zenon DEF BarLocals
<1>8. /\ ~ p2.flight /\ p2.timer /\ p2.bar = p.bar /\ p2.current = p.current
      /\ p2.seen = p.seen /\ p2.ready = p.ready
  BY <1>5, SMT DEF BarLocals
<1> HIDE DEF p2
<1>9. OfOrder(p) => OfOrder(p2)
  BY <1>8 DEF OfOrder
<1>10. Keeps(p2, r) /\ r.push = p2
  BY <1>7, InvSays, PrefetchKeeps
<1> HIDE DEF r
<1>11. /\ slots \in Flights
       /\ \A t \in Slots : slots[t] = IF t = s THEN Free ELSE net[t]
  BY InvSays DEF Flights
<1> HIDE DEF slots
<1>12. InPlace(r.push, ui) /\ Attended(r.push, ui)
  BY <1>5, <1>8, <1>10 DEF InPlace, Attended
<1>13. PushInv'
  BY <1>1, <1>6, <1>7, <1>8, <1>10, <1>11, <1>12, InvSays, TakenStep
<1>14. ASSUME OnlyThisOrder PROVE OnlyThisOrder'
  <2>1. OfOrder(push) /\ \A t \in Slots : net[t] # Free => net[t].order = order
    BY <1>14 DEF OnlyThisOrder
  <2>2. OfOrder(p2)
    BY <1>2, <1>4, <1>5, <1>9, <2>1
  <2>3. ui'.running
    BY <1>1, <1>2, <1>14, NotInOrder
  <2>4. \A t \in Slots : slots[t] # Free => slots[t].order = order
    BY <1>11, <2>1
  <2> QED BY <1>1, <1>6, <1>7, <1>10, <1>11, <2>2, <2>3, <2>4, TakenIsOfOrder
<1> QED BY <1>13, <1>14

LEMMA PrefetchReturnsKeeps ==
  ASSUME PushInv, NEW s \in Slots, PrefetchReturns(s)
  PROVE  PushInv' /\ (OnlyThisOrder => OnlyThisOrder')
<1>1. /\ net[s].kind = "prefetch" /\ net' = [net EXCEPT ![s] = Free]
      /\ order' = order /\ ui' = ui /\ due' = due /\ started' = started
  BY DEF PrefetchReturns
<1>2. net[s] \in Request /\ net[s] # Free
  BY <1>1, InvSays, FreeIsNoRequest DEF Flights
<1>3. /\ net' \in Flights
      /\ \A t \in Slots : net'[t] = IF t = s THEN Free ELSE net[t]
  BY <1>1, InvSays DEF Flights
<1>4. /\ push' \in BarLocals
      /\ push'.timer = push.timer /\ push'.flight = push.flight /\ push'.bar = push.bar
      /\ push'.current = push.current /\ push'.seen = push.seen
      /\ OnlyThisOrder => OfOrder(push')
  <2>1. CASE push' = push
    BY <2>1, InvSays DEF OnlyThisOrder
  <2>2. CASE \E item \in Generated(net[s].exclude) \ ItemsOf(push.seen) :
               push' = [push EXCEPT !.ready = Append(@, [item |-> item, order |-> net[s].order])]
    <3>1. PICK item \in Generated(net[s].exclude) \ ItemsOf(push.seen) :
                 push' = [push EXCEPT !.ready = Append(@, [item |-> item, order |-> net[s].order])]
      BY <2>2
    <3> DEFINE c == [item |-> item, order |-> net[s].order]
    <3>2. c \in Candidate /\ c.order = net[s].order
      BY <1>2 DEF Generated, Candidate, Request
    <3>3. push' = [push EXCEPT !.ready = Append(@, c)]
      BY <3>1
    <3> HIDE DEF c
    <3>4. push.ready \in Seq(Candidate)
      BY InvSays DEF BarLocals
    <3>5. /\ Append(push.ready, c) \in Seq(Candidate)
          /\ \A i \in DOMAIN Append(push.ready, c) :
               \/ i \in DOMAIN push.ready /\ Append(push.ready, c)[i] = push.ready[i]
               \/ Append(push.ready, c)[i] = c
      BY <3>2, <3>4, SMT
    <3> HIDE DEF c
    <3>9. push' \in BarLocals
      BY <3>3, <3>5, InvSays, Zenon DEF BarLocals
    <3>6. /\ push'.ready = Append(push.ready, c)
          /\ push'.timer = push.timer /\ push'.flight = push.flight /\ push'.bar = push.bar
          /\ push'.current = push.current /\ push'.seen = push.seen
      <4> DEFINE longer == Append(push.ready, c)
      <4>1. push' = [push EXCEPT !.ready = longer]
        BY <3>3
      <4> HIDE DEF longer
      <4>2. /\ push'.ready = longer
            /\ push'.timer = push.timer /\ push'.flight = push.flight /\ push'.bar = push.bar
            /\ push'.current = push.current /\ push'.seen = push.seen
        BY <4>1, InvSays, SMT DEF BarLocals
      <4> QED BY <4>2 DEF longer
    <3>7. OnlyThisOrder => OfOrder(push) /\ c.order = order
      BY <1>2, <3>2 DEF OnlyThisOrder
    <3>8. OnlyThisOrder => OfOrder(push')
      BY <3>5, <3>6, <3>7 DEF OfOrder
    <3> QED BY <3>6, <3>8, <3>9
  <2> QED BY <2>1, <2>2 DEF PrefetchReturns
<1>5. PushTypes'
  BY <1>1, <1>3, <1>4, InvSays DEF PushTypes, BarPage, BarLocals, Flights, Candidate, Request, Free
<1>6. PageIsInOrder' /\ BarIsInPlace' /\ MenuIsAttended'
  BY <1>1, <1>4 DEF PushInv, PageIsInOrder, BarIsInPlace, MenuIsAttended, BarEligible
<1>7. FlightIsReal'
  BY <1>1, <1>3, <1>4 DEF PushInv, FlightIsReal
<1>8. ASSUME OnlyThisOrder PROVE OnlyThisOrder'
  <2>1. ui.running
    BY <1>2, <1>8, NotInOrder
  <2>2. OfOrder(push)'
    BY <1>1, <1>4, <1>8 DEF OfOrder
  <2> QED BY <1>1, <1>3, <1>8, <2>1, <2>2 DEF OnlyThisOrder, Free
<1> QED BY <1>5, <1>6, <1>7, <1>8 DEF PushInv

\* The pages that the handlers of the customer leave.
LEMMA PageKeeps ==
  ASSUME NEW u \in BarPage, NEW b \in BOOLEAN
  PROVE  /\ [u EXCEPT !.cart = b] \in BarPage
         /\ [u EXCEPT !.cart = b].running = u.running
         /\ [u EXCEPT !.cart = b].completed = u.completed
         /\ [u EXCEPT !.cart = b].payment = u.payment
         /\ [u EXCEPT !.payment = b] \in BarPage
         /\ [u EXCEPT !.payment = b].running = u.running
         /\ [u EXCEPT !.payment = b].completed = u.completed
         /\ [u EXCEPT !.payment = b].payment = b
         /\ [u EXCEPT !.completed = b] \in BarPage
         /\ [u EXCEPT !.completed = b].running = u.running
         /\ [u EXCEPT !.completed = b].completed = b
         /\ [u EXCEPT !.completed = b].payment = u.payment
         /\ [u EXCEPT !.visible = b] \in BarPage
         /\ [u EXCEPT !.visible = b].running = u.running
         /\ [u EXCEPT !.visible = b].completed = u.completed
         /\ [u EXCEPT !.visible = b].payment = u.payment
<1>1. /\ [u EXCEPT !.cart = b] \in BarPage /\ [u EXCEPT !.payment = b] \in BarPage
      /\ [u EXCEPT !.completed = b] \in BarPage /\ [u EXCEPT !.visible = b] \in BarPage
  BY Zenon DEF BarPage
<1>2. /\ [u EXCEPT !.cart = b].running = u.running
      /\ [u EXCEPT !.cart = b].completed = u.completed
      /\ [u EXCEPT !.cart = b].payment = u.payment
  BY SMT DEF BarPage
<1>3. /\ [u EXCEPT !.payment = b].running = u.running
      /\ [u EXCEPT !.payment = b].completed = u.completed
      /\ [u EXCEPT !.completed = b].running = u.running
      /\ [u EXCEPT !.completed = b].payment = u.payment
  BY SMT DEF BarPage
<1>4. [u EXCEPT !.payment = b].payment = b /\ [u EXCEPT !.completed = b].completed = b
  BY Zenon DEF BarPage
<1>5. /\ [u EXCEPT !.visible = b].running = u.running
      /\ [u EXCEPT !.visible = b].completed = u.completed
      /\ [u EXCEPT !.visible = b].payment = u.payment
  BY SMT DEF BarPage
<1> QED BY <1>1, <1>2, <1>3, <1>4, <1>5

\* The page that begins, and the one that is left.
LEMMA FreshPage ==
  ASSUME NEW b \in BOOLEAN
  PROVE  /\ [StartPage EXCEPT !.running = TRUE, !.visible = b] \in BarPage
         /\ ~ [StartPage EXCEPT !.running = TRUE, !.visible = b].completed
         /\ ~ [StartPage EXCEPT !.running = TRUE, !.visible = b].payment
         /\ [StartPage EXCEPT !.running = TRUE, !.visible = b].running
         /\ [StartPage EXCEPT !.visible = b] \in BarPage
         /\ ~ [StartPage EXCEPT !.visible = b].completed
         /\ ~ [StartPage EXCEPT !.visible = b].payment
         /\ ~ [StartPage EXCEPT !.visible = b].running
<1>1. StartPage \in BarPage
  BY StartPages
<1>2. /\ [StartPage EXCEPT !.running = TRUE, !.visible = b] \in BarPage
      /\ [StartPage EXCEPT !.visible = b] \in BarPage
  BY <1>1, Zenon DEF BarPage
<1>3. /\ ~ [StartPage EXCEPT !.running = TRUE, !.visible = b].completed
      /\ ~ [StartPage EXCEPT !.running = TRUE, !.visible = b].payment
      /\ [StartPage EXCEPT !.running = TRUE, !.visible = b].running
  BY SMT DEF StartPage
<1>4. /\ ~ [StartPage EXCEPT !.visible = b].completed
      /\ ~ [StartPage EXCEPT !.visible = b].payment
      /\ ~ [StartPage EXCEPT !.visible = b].running
  BY SMT DEF StartPage
<1> QED BY <1>2, <1>3, <1>4

LEMMA BeginOrderKeeps ==
  ASSUME PushInv, BeginOrder
  PROVE  PushInv' /\ (OnlyThisOrder => OnlyThisOrder')
<1>1. /\ ~ ui.running /\ order < MaxOrders /\ order' = order + 1
      /\ ui' = [StartPage EXCEPT !.running = TRUE, !.visible = ui.visible]
      /\ due' = due + 1 /\ started' = FALSE /\ push' = push /\ net' = net
  BY DEF BeginOrder
<1>2. ui' \in BarPage /\ ~ ui'.completed /\ ~ ui'.payment /\ ui'.running
  BY <1>1, InvSays, FreshPage DEF BarPage
<1>3. order' \in 0..MaxOrders /\ due' \in Nat
  BY <1>1, InvSays, KioskPushAssumption
<1>4. PushTypes'
  BY <1>1, <1>2, <1>3, InvSays DEF PushTypes, BarPage, BarLocals, Flights, Candidate, Request, Free
<1>5. ~ push.bar
  BY <1>1, InvSays DEF InPlace, BarEligible
<1>6. PageIsInOrder' /\ BarIsInPlace' /\ MenuIsAttended' /\ FlightIsReal'
  BY <1>1, <1>2, <1>5, InvSays DEF PageIsInOrder, BarIsInPlace, MenuIsAttended, FlightIsReal
<1>7. ASSUME OnlyThisOrder PROVE OnlyThisOrder'
  <2>1. /\ push.seen = {} /\ push.ready = <<>> /\ \A s \in Slots : net[s] = Free
    BY <1>1, <1>7, NotInOrder
  <2>2. DOMAIN push.ready = {}
    BY <2>1
  <2>3. OfOrder(push)'
    BY <1>1, <2>1, <2>2 DEF OfOrder
  <2> QED BY <1>1, <1>2, <2>1, <2>3 DEF OnlyThisOrder, Free
<1> QED BY <1>4, <1>6, <1>7 DEF PushInv

LEMMA RefreshKeeps ==
  ASSUME PushInv, Refresh
  PROVE  PushInv' /\ (OnlyThisOrder => OnlyThisOrder')
<1> DEFINE r == Fetch(push, ui, TRUE)
<1>1. /\ push.bar /\ Take(r, net)
      /\ order' = order /\ ui' = ui /\ due' = due /\ started' = started
  BY DEF Refresh
<1>2. /\ Keeps(push, r) /\ InPlace(r.push, ui) /\ Attended(r.push, ui)
  BY <1>1, InvSays, FetchKeeps
<1> HIDE DEF r
<1>3. PushInv'
  BY <1>1, <1>2, InvSays, TakenStep
<1>4. ASSUME OnlyThisOrder PROVE OnlyThisOrder'
  <2>1. OfOrder(push) /\ \A s \in Slots : net[s] # Free => net[s].order = order
    BY <1>4 DEF OnlyThisOrder
  <2>2. ui'.running
    BY <1>1, <1>4, NotInOrder
  <2> QED BY <1>1, <1>2, <2>1, <2>2, InvSays, TakenIsOfOrder
<1> QED BY <1>3, <1>4

LEMMA PickKeeps ==
  ASSUME PushInv, Pick
  PROVE  PushInv' /\ (OnlyThisOrder => OnlyThisOrder')
<1>1. /\ push.bar /\ push' = [push EXCEPT !.timer = TRUE]
      /\ order' = order /\ ui' = ui /\ due' = due /\ started' = started /\ net' = net
  BY DEF Pick
<1>2. push' \in BarLocals
  BY <1>1, InvSays, Zenon DEF BarLocals
<1>3. /\ push'.timer /\ push'.bar = push.bar /\ push'.flight = push.flight
      /\ push'.current = push.current /\ push'.seen = push.seen /\ push'.ready = push.ready
  <2> DEFINE later == [push EXCEPT !.timer = TRUE]
  <2>1. /\ later.timer /\ later.bar = push.bar /\ later.flight = push.flight
        /\ later.current = push.current /\ later.seen = push.seen /\ later.ready = push.ready
    BY InvSays, SMT DEF BarLocals
  <2> HIDE DEF later
  <2>2. push' = later
    BY <1>1 DEF later
  <2> QED BY <2>1, <2>2
<1>4. InPlace(push', ui') /\ Attended(push', ui')
  BY <1>1, <1>3, InvSays DEF InPlace, Attended
<1>5. PushInv'
  BY <1>1, <1>2, <1>3, <1>4, InvSays, PlainStep
<1> QED BY <1>1, <1>3, <1>5, PlainIsOfOrder

\* A handler that ends with syncVisibility on the page u.
LEMMA SyncStep ==
  ASSUME PushInv, order' = order, due' = due, started' = started,
         ui' \in BarPage, ui'.running = ui.running,
         ui'.completed => ui'.payment, ui'.payment => ui'.running,
         Take(Sync(push, ui'), net)
  PROVE  PushInv' /\ (OnlyThisOrder => OnlyThisOrder')
<1> DEFINE r == Sync(push, ui')
<1>1. /\ Keeps(push, r) /\ InPlace(r.push, ui') /\ Attended(r.push, ui')
      /\ ~ BarEligible(ui') => r.sent = {} /\ r.push = Hide(push)
  BY InvSays, SyncKeeps
<1> HIDE DEF r
<1>2. Take(r, net)
  BY DEF r
<1>3. PushInv'
  BY <1>1, <1>2, InvSays, TakenStep
<1>4. ASSUME OnlyThisOrder PROVE OnlyThisOrder'
  <2>1. OfOrder(push) /\ \A s \in Slots : net[s] # Free => net[s].order = order
    BY <1>4 DEF OnlyThisOrder
  <2>2. ASSUME ~ ui'.running
        PROVE  /\ due' = 0 /\ r.push.seen = {} /\ r.push.ready = <<>>
               /\ \A s \in Slots : net'[s] = Free
    <3>1. ~ BarEligible(ui')
      BY <2>2 DEF BarEligible
    <3>2. r.sent = {} /\ r.push.seen = push.seen /\ r.push.ready = push.ready
      BY <1>1, <3>1, InvSays, HideDoes
    <3>3. net' = net
      BY <1>2, <3>2, InvSays, TakeDoes
    <3> QED BY <1>4, <2>2, <3>2, <3>3, NotInOrder
  <2> QED BY <1>1, <1>2, <2>1, <2>2, InvSays, TakenIsOfOrder
<1> QED BY <1>3, <1>4

LEMMA VoiceEventKeeps ==
  ASSUME PushInv, VoiceEvent
  PROVE  PushInv' /\ (OnlyThisOrder => OnlyThisOrder')
<1>1. /\ order' = order /\ due' = due /\ started' = started /\ ui' = ui
      /\ Take(Sync(push, ui), net)
  BY DEF VoiceEvent
<1>2. Take(Sync(push, ui'), net)
  BY <1>1
<1> QED BY <1>1, <1>2, InvSays, SyncStep

LEMMA TurnKeeps ==
  ASSUME PushInv, Turn
  PROVE  PushInv' /\ (OnlyThisOrder => OnlyThisOrder')
<1>1. /\ ui' = [ui EXCEPT !.visible = ~ @] /\ Take(Sync(push, ui'), net)
      /\ order' = order /\ due' = due /\ started' = started
  BY DEF Turn
<1>2. ui \in BarPage /\ (~ ui.visible) \in BOOLEAN
  BY InvSays DEF BarPage
<1>3. ui' = [ui EXCEPT !.visible = (~ ui.visible)]
  BY <1>1
<1>4. /\ ui' \in BarPage /\ ui'.running = ui.running /\ ui'.completed = ui.completed
      /\ ui'.payment = ui.payment
  <2>1. ui' \in BarPage
    BY <1>2, <1>3, Zenon DEF BarPage
  <2>2. /\ ui'.running = ui.running /\ ui'.completed = ui.completed
        /\ ui'.payment = ui.payment
    BY <1>2, <1>3, SMT DEF BarPage
  <2> QED BY <2>1, <2>2
<1> QED BY <1>1, <1>4, InvSays, SyncStep

LEMMA HideCartKeeps ==
  ASSUME PushInv, HideCartScreen
  PROVE  PushInv' /\ (OnlyThisOrder => OnlyThisOrder')
<1>1. /\ ui' = [ui EXCEPT !.cart = FALSE] /\ Take(Sync(push, ui'), net)
      /\ order' = order /\ due' = due /\ started' = started
  BY DEF HideCartScreen
<1>2. /\ ui' \in BarPage /\ ui'.running = ui.running /\ ui'.completed = ui.completed
      /\ ui'.payment = ui.payment
  BY <1>1, InvSays, PageKeeps
<1> QED BY <1>1, <1>2, InvSays, SyncStep

LEMMA PressBannerKeeps ==
  ASSUME PushInv, PressBanner
  PROVE  PushInv' /\ (OnlyThisOrder => OnlyThisOrder')
<1> DEFINE r == StartController(push, ui)
<1>1. /\ InOrder /\ Take(r, net)
      /\ order' = order /\ ui' = ui /\ due' = due /\ started' = started
  BY DEF PressBanner
<1>2. Keeps(push, r) /\ InPlace(r.push, ui) /\ Attended(r.push, ui)
  BY InvSays, StartKeeps
<1> HIDE DEF r
<1>3. PushInv'
  BY <1>1, <1>2, InvSays, TakenStep
<1>4. ASSUME OnlyThisOrder PROVE OnlyThisOrder'
  <2>1. OfOrder(push) /\ \A s \in Slots : net[s] # Free => net[s].order = order
    BY <1>4 DEF OnlyThisOrder
  <2>2. ui'.running
    BY <1>1 DEF InOrder
  <2> QED BY <1>1, <1>2, <2>1, <2>2, InvSays, TakenIsOfOrder
<1> QED BY <1>3, <1>4

LEMMA CancelOrderKeeps ==
  ASSUME PushInv, CancelOrder
  PROVE  PushInv' /\ (OnlyThisOrder => OnlyThisOrder')
<1> DEFINE r == StartController(push, ui')
<1>1. /\ ui.payment /\ ~ ui.completed /\ ui' = [ui EXCEPT !.payment = FALSE] /\ Take(r, net)
      /\ order' = order /\ due' = due /\ started' = started
  BY DEF CancelOrder
<1>2. /\ ui' \in BarPage /\ ui'.running = ui.running /\ ui'.completed = ui.completed
      /\ ui'.payment = FALSE
  BY <1>1, InvSays, PageKeeps
<1>3. Keeps(push, r) /\ InPlace(r.push, ui') /\ Attended(r.push, ui')
  BY <1>2, InvSays, StartKeeps
<1> HIDE DEF r
<1>4. PushInv'
  BY <1>1, <1>2, <1>3, InvSays, TakenStep
<1>5. ASSUME OnlyThisOrder PROVE OnlyThisOrder'
  <2>1. OfOrder(push) /\ \A s \in Slots : net[s] # Free => net[s].order = order
    BY <1>5 DEF OnlyThisOrder
  <2>2. ui'.running
    BY <1>1, <1>2, InvSays
  <2> QED BY <1>1, <1>3, <2>1, <2>2, InvSays, TakenIsOfOrder
<1> QED BY <1>4, <1>5

\* A screen that covers the menu and hides the bar.
LEMMA CoveredStep ==
  ASSUME PushInv, order' = order, due' = due, started' = started, net' = net,
         push' = [push EXCEPT !.bar = FALSE],
         ui' \in BarPage, ui'.running = ui.running, ~ BarEligible(ui'),
         ui'.completed => ui'.payment, ui'.payment => ui'.running
  PROVE  PushInv' /\ (OnlyThisOrder => OnlyThisOrder')
<1>1. push' \in BarLocals
  BY InvSays, Zenon DEF BarLocals
<1>2. /\ ~ push'.bar /\ push'.flight = push.flight
      /\ push'.seen = push.seen /\ push'.ready = push.ready
  <2> DEFINE later == [push EXCEPT !.bar = FALSE]
  <2>1. /\ ~ later.bar /\ later.flight = push.flight
        /\ later.seen = push.seen /\ later.ready = push.ready
    BY InvSays, SMT DEF BarLocals
  <2> HIDE DEF later
  <2>2. push' = later
    BY DEF later
  <2> QED BY <2>1, <2>2
<1>3. InPlace(push', ui') /\ Attended(push', ui')
  BY <1>2 DEF InPlace, Attended
<1>4. PushInv'
  BY <1>1, <1>2, <1>3, PlainStep
<1> QED BY <1>2, <1>4, PlainIsOfOrder

LEMMA OpenCartKeeps ==
  ASSUME PushInv, OpenCart
  PROVE  PushInv' /\ (OnlyThisOrder => OnlyThisOrder')
<1>1. /\ OnMenu /\ ui' = [ui EXCEPT !.cart = TRUE] /\ push' = [push EXCEPT !.bar = FALSE]
      /\ order' = order /\ due' = due /\ started' = started /\ net' = net
  BY DEF OpenCart
<1>2. /\ ui' \in BarPage /\ ui'.running = ui.running /\ ui'.completed = ui.completed
      /\ ui'.payment = ui.payment
  BY <1>1, InvSays, PageKeeps
<1>3. ui'.cart
  BY <1>1, InvSays, Zenon DEF BarPage
<1>4. ~ BarEligible(ui')
  BY <1>3 DEF BarEligible
<1> QED BY <1>1, <1>2, <1>4, InvSays, CoveredStep

LEMMA BackToCartKeeps ==
  ASSUME PushInv, BackToCart
  PROVE  PushInv' /\ (OnlyThisOrder => OnlyThisOrder')
<1>1. /\ ui.payment /\ ~ ui.completed
      /\ ui' = [ui EXCEPT !.cart = TRUE, !.payment = FALSE] /\ push' = [push EXCEPT !.bar = FALSE]
      /\ order' = order /\ due' = due /\ started' = started /\ net' = net
  BY DEF BackToCart
<1>2. ui' \in BarPage
  BY <1>1, InvSays, Zenon DEF BarPage
<1>3. ui'.running = ui.running /\ ui'.completed = ui.completed
  BY <1>1, InvSays, SMT DEF BarPage
<1>4. ui'.cart
  BY <1>1, InvSays, Zenon DEF BarPage
<1>5. ~ BarEligible(ui')
  BY <1>4 DEF BarEligible
<1> QED BY <1>1, <1>2, <1>3, <1>5, InvSays, CoveredStep

\* showPaymentScreen: the request that hideCartScreen sent is on its way, and
\* the controller has stopped.
LEMMA ShowPaymentKeeps ==
  ASSUME PushInv, ShowPaymentScreen
  PROVE  PushInv' /\ (OnlyThisOrder => OnlyThisOrder')
<1> DEFINE u == [ui EXCEPT !.cart = FALSE]
           closed == Sync(push, u)
           r == Result(Hide(Stop(closed.push)), closed.sent)
<1>1. /\ InOrder /\ ui' = [ui EXCEPT !.cart = FALSE, !.payment = TRUE] /\ Take(r, net)
      /\ order' = order /\ due' = due /\ started' = started
  BY DEF ShowPaymentScreen
<1>2. u \in BarPage
  BY InvSays, PageKeeps
<1>3. ui' \in BarPage
  BY <1>1, InvSays, Zenon DEF BarPage
<1>4. ui'.running = ui.running /\ ui'.completed = ui.completed
  BY <1>1, InvSays, SMT DEF BarPage
<1>5. ui'.payment
  BY <1>1, InvSays, Zenon DEF BarPage
<1>6. Keeps(push, closed)
  BY <1>2, InvSays, SyncKeeps
<1>7. /\ Hide(Stopped) \in BarLocals /\ ~ Hide(Stopped).bar /\ ~ Hide(Stopped).flight
      /\ OfOrder(Hide(Stopped))
  BY StartPages, HideDoes DEF Stopped
<1>8. r.push = Hide(Stopped) /\ r.sent = closed.sent
  BY DEF Result, Stop
<1> HIDE DEF closed, r
<1>9. Keeps(push, r)
  BY <1>6, <1>7, <1>8 DEF Keeps
<1>10. ~ BarEligible(ui')
  BY <1>5 DEF BarEligible
<1>11. InPlace(r.push, ui') /\ Attended(r.push, ui')
  BY <1>7, <1>8, <1>10 DEF InPlace, Attended
<1>12. ui'.running
  BY <1>1, <1>4 DEF InOrder
<1>13. PushInv'
  BY <1>1, <1>3, <1>5, <1>9, <1>11, <1>12, InvSays, TakenStep
<1>14. ASSUME OnlyThisOrder PROVE OnlyThisOrder'
  <2>1. OfOrder(push) /\ \A s \in Slots : net[s] # Free => net[s].order = order
    BY <1>14 DEF OnlyThisOrder
  <2> QED BY <1>1, <1>9, <1>12, <2>1, InvSays, TakenIsOfOrder
<1> QED BY <1>13, <1>14

LEMMA OrderFinishesKeeps ==
  ASSUME PushInv, OrderFinishes
  PROVE  PushInv' /\ (OnlyThisOrder => OnlyThisOrder')
<1>1. /\ ui.payment /\ ui' = [ui EXCEPT !.completed = TRUE] /\ push' = Stopped
      /\ order' = order /\ due' = due /\ started' = started /\ net' = net
  BY DEF OrderFinishes, Stop
<1>2. /\ ui' \in BarPage /\ ui'.running = ui.running /\ ui'.completed /\ ui'.payment = ui.payment
  BY <1>1, InvSays, PageKeeps
<1>3. push' \in BarLocals /\ ~ push'.bar /\ ~ push'.flight
  BY <1>1, StartPages DEF Stopped
<1>4. ~ BarEligible(ui')
  BY <1>2 DEF BarEligible
<1>5. PushInv'
  BY <1>1, <1>2, <1>3, <1>4, InvSays, PlainStep DEF InPlace, Attended
<1>6. ASSUME OnlyThisOrder PROVE OnlyThisOrder'
  <2>1. OfOrder(push)'
    BY <1>1, StartPages DEF OfOrder
  <2> QED BY <1>1, <1>2, <1>6, <2>1, InvSays DEF OnlyThisOrder, Free
<1> QED BY <1>5, <1>6

LEMMA FinishFailsKeeps ==
  ASSUME PushInv, FinishFails
  PROVE  PushInv' /\ (OnlyThisOrder => OnlyThisOrder')
<1>1. /\ ui.completed /\ ui' = [ui EXCEPT !.completed = FALSE] /\ push' = push
      /\ order' = order /\ due' = due /\ started' = started /\ net' = net
  BY DEF FinishFails
<1>2. /\ ui' \in BarPage /\ ui'.running = ui.running /\ ui'.payment = ui.payment
      /\ ui'.completed = FALSE
  BY <1>1, InvSays, PageKeeps
<1>3. ~ BarEligible(ui) /\ ~ BarEligible(ui')
  BY <1>1, <1>2, InvSays DEF BarEligible
<1>4. PushInv'
  BY <1>1, <1>2, <1>3, InvSays, PlainStep DEF InPlace, Attended
<1> QED BY <1>1, <1>2, <1>4, PlainIsOfOrder

LEMMA LoadedAgainKeeps ==
  ASSUME PushInv, LoadedAgain
  PROVE  PushInv' /\ OnlyThisOrder'
<1>1. /\ ui' = StartPage /\ due' = 0 /\ started' = FALSE /\ push' = Stopped
      /\ net' = [s \in Slots |-> Free] /\ order' = order
  BY DEF LoadedAgain
<1>2. ui' \in BarPage /\ push' \in BarLocals /\ net' \in Flights /\ \A s \in Slots : net'[s] = Free
  BY <1>1, StartPages DEF Flights
<1>3. PushTypes'
  BY <1>1, <1>2, InvSays DEF PushTypes, BarPage, BarLocals, Flights, Candidate, Request, Free
<1>4. ~ ui'.running /\ ~ ui'.completed /\ ~ ui'.payment
  BY <1>1 DEF StartPage
<1>5. /\ ~ push'.bar /\ ~ push'.flight /\ push'.seen = {} /\ push'.ready = <<>>
  BY <1>1 DEF Stopped
<1>6. PageIsInOrder' /\ BarIsInPlace' /\ MenuIsAttended' /\ FlightIsReal'
  BY <1>1, <1>4, <1>5 DEF PageIsInOrder, BarIsInPlace, MenuIsAttended, FlightIsReal
<1>7. OfOrder(push)'
  BY <1>1, StartPages DEF OfOrder, Stopped
<1>8. OnlyThisOrder'
  BY <1>1, <1>2, <1>4, <1>5, <1>7 DEF OnlyThisOrder, Free
<1> QED BY <1>3, <1>6, <1>8 DEF PushInv

\* The customer who goes home leaves nothing under way, unless LeavesRequest.
LEMMA GoHomeKeeps ==
  ASSUME PushInv, GoHome
  PROVE  /\ PushInv'
         /\ ~ LeavesRequest /\ OnlyThisOrder => OnlyThisOrder'
<1> DEFINE closed == Sync(push, ui)
           r == Result(Stop(closed.push), closed.sent)
<1>1. /\ ui' = [StartPage EXCEPT !.visible = ui.visible] /\ Take(r, net)
      /\ order' = order /\ due' = due /\ started' = started
      /\ LeavesRequest \/ Quiet'
  BY DEF GoHome
<1>2. ui' \in BarPage /\ ~ ui'.completed /\ ~ ui'.payment /\ ~ ui'.running
  BY <1>1, InvSays, FreshPage DEF BarPage
<1>3. Keeps(push, closed)
  BY InvSays, SyncKeeps
<1>4. r.push = Stopped /\ r.sent = closed.sent
  BY DEF Result, Stop
<1>5. /\ ~ Stopped.bar /\ ~ Stopped.flight /\ Stopped.seen = {} /\ Stopped.ready = <<>>
  BY DEF Stopped
<1> HIDE DEF closed, r
<1>6. Keeps(push, r)
  BY <1>3, <1>4, <1>5, StartPages DEF Keeps
<1>7. InPlace(r.push, ui') /\ Attended(r.push, ui')
  BY <1>2, <1>4, <1>5 DEF InPlace, Attended, BarEligible
<1>8. PushInv'
  BY <1>1, <1>2, <1>6, <1>7, InvSays, TakenStep
<1>9. ASSUME ~ LeavesRequest, OnlyThisOrder PROVE OnlyThisOrder'
  <2>1. OfOrder(push) /\ \A s \in Slots : net[s] # Free => net[s].order = order
    BY <1>9 DEF OnlyThisOrder
  <2>2. due' = 0 /\ \A s \in Slots : net'[s] = Free
    BY <1>1, <1>9 DEF Quiet, Free
  <2> QED BY <1>1, <1>4, <1>5, <1>6, <2>1, <2>2, InvSays, TakenIsOfOrder
<1> QED BY <1>8, <1>9

-----------------------------------------------------------------------------
(* What the bar keeps.                                                     *)

LEMMA PushInvInit == KioskPushInit => PushInv /\ OnlyThisOrder
<1> SUFFICES ASSUME KioskPushInit PROVE PushInv /\ OnlyThisOrder
  OBVIOUS
<1>1. /\ order = 0 /\ ui = StartPage /\ due = 0 /\ started = FALSE
      /\ push = Stopped /\ net = [s \in Slots |-> Free]
  BY DEF KioskPushInit
<1>2. net \in Flights /\ \A s \in Slots : net[s] = Free
  BY <1>1 DEF Flights
<1>3. 0 \in 0..MaxOrders
  BY KioskPushAssumption
<1>4. PushTypes
  BY <1>1, <1>2, <1>3, StartPages DEF PushTypes
<1>5. ~ ui.running /\ ~ ui.completed /\ ~ ui.payment
  BY <1>1 DEF StartPage
<1>6. ~ push.bar /\ ~ push.flight /\ push.seen = {} /\ push.ready = <<>>
  BY <1>1 DEF Stopped
<1>7. PageIsInOrder /\ BarIsInPlace /\ MenuIsAttended /\ FlightIsReal
  BY <1>1, <1>5, <1>6 DEF PageIsInOrder, BarIsInPlace, MenuIsAttended, FlightIsReal
<1>8. OnlyThisOrder
  BY <1>1, <1>2, <1>5, <1>6, StartPages DEF OnlyThisOrder
<1> QED BY <1>4, <1>7, <1>8 DEF PushInv

LEMMA PushInvNext ==
  ASSUME PushInv, [KioskPushNext]_kioskPush
  PROVE  /\ PushInv'
         /\ ~ LeavesRequest /\ OnlyThisOrder => OnlyThisOrder'
<1>1. CASE UNCHANGED kioskPush
  <2>1. PushInv'
    BY <1>1 DEF kioskPush, PushInv, PushTypes, PageIsInOrder, BarIsInPlace, MenuIsAttended,
             FlightIsReal, BarEligible, BarPage, BarLocals, Flights, Candidate, Request, Free
  <2>2. OnlyThisOrder => OnlyThisOrder'
    BY <1>1, PlainIsOfOrder DEF kioskPush
  <2> QED BY <2>1, <2>2
<1>2. CASE StartFires \/ PushTimerFires \/ BeginOrder \/ Refresh \/ Pick
  BY <1>2, StartFiresKeeps, PushTimerKeeps, BeginOrderKeeps, RefreshKeeps, PickKeeps
<1>3. CASE VoiceEvent \/ PressBanner \/ OpenCart \/ HideCartScreen \/ ShowPaymentScreen
  BY <1>3, VoiceEventKeeps, PressBannerKeeps, OpenCartKeeps, HideCartKeeps, ShowPaymentKeeps
<1>4. CASE \E s \in Slots : FetchReturns(s) \/ PrefetchReturns(s)
  BY <1>4, FetchReturnsKeeps, PrefetchReturnsKeeps
<1>5. CASE BackToCart \/ CancelOrder \/ OrderFinishes \/ FinishFails \/ LoadedAgain
  BY <1>5, BackToCartKeeps, CancelOrderKeeps, OrderFinishesKeeps, FinishFailsKeeps,
     LoadedAgainKeeps
<1>6. CASE GoHome
  BY <1>6, GoHomeKeeps
<1>7. CASE Turn
  BY <1>7, TurnKeeps
<1> QED BY <1>1, <1>2, <1>3, <1>4, <1>5, <1>6, <1>7 DEF KioskPushNext

\* The bar of aiRecommendationController stands on the menu of an order only,
\* and over it always, with a next look at it to come: the invariant that it
\* rests on holds also when customers leave a request behind.
THEOREM BarIsAttended ==
  KioskPushSpec => [](BarIsInPlace /\ MenuIsAttended /\ FlightIsReal)
<1>1. KioskPushInit => PushInv
  BY PushInvInit
<1>2. PushInv /\ [KioskPushNext]_kioskPush => PushInv'
  BY PushInvNext
<1>3. PushInv => BarIsInPlace /\ MenuIsAttended /\ FlightIsReal
  BY DEF PushInv
<1> QED BY <1>1, <1>2, <1>3, PTL DEF KioskPushSpec

\* However the requests of fetchNext and prefetchNext overlap, return late or
\* fail, the bar is where it should be, and what counts as seen and what was
\* fetched in advance is of the present order, when nobody goes home while a
\* request or a start is under way.
THEOREM RecommendationsAreInPlace ==
  ASSUME ~ LeavesRequest
  PROVE  KioskPushSpec => []RecommendationIsInPlace
<1>1. KioskPushInit => PushInv /\ OnlyThisOrder
  BY PushInvInit
<1>2. PushInv /\ OnlyThisOrder /\ [KioskPushNext]_kioskPush => PushInv' /\ OnlyThisOrder'
  BY PushInvNext
<1>3. ASSUME OnlyThisOrder PROVE PushIsOfThisOrder
  <2>1. OfOrder(push)
    BY <1>3 DEF OnlyThisOrder
  <2> QED BY <2>1 DEF OfOrder, PushIsOfThisOrder
<1>4. PushInv /\ OnlyThisOrder => RecommendationIsInPlace
  BY <1>3 DEF PushInv, RecommendationIsInPlace
<1> QED BY <1>1, <1>2, <1>4, PTL DEF KioskPushSpec
(* Prices: the invariant.                                                  *)

\* The price of every row stays at or below what its quote says: an offer that
\* the row names and that still applies is no dearer than the quote.
QuoteIsHeld ==
  quote.status = "ready" =>
    \A i \in DOMAIN rows : PriceOf(i, rows[i]) <= quote.prices[i]

-----------------------------------------------------------------------------
(* The selection of an offer.                                              *)

LEMMA LeastNumber ==
  ASSUME NEW T \in SUBSET Nat, T # {}
  PROVE  \E n \in T : \A m \in T : n <= m
<1> DEFINE R == OpToRel(<, Nat)
<1>1. IsWellFoundedOn(R, Nat)
  BY NatLessThanWellFounded
<1>2. \A m, n \in Nat : m < n => <<m, n>> \in R
  BY DEF OpToRel
<1> HIDE DEF R
<1>3. PICK n \in T : \A m \in T : ~ (<<m, n>> \in R)
  BY <1>1, WFMin
<1>4. n \in Nat /\ \A m \in T : m \in Nat
  OBVIOUS
<1>5. \A m \in T : ~ (m < n)
  BY <1>2, <1>3, <1>4, Zenon
<1>6. \A m \in T : n <= m
  BY <1>4, <1>5
<1> QED BY <1>6

\* What is sold, and what offers say.
RulesType == base \in [Goods -> MenuPrices] /\ rules \in [Offers -> Rule] /\ running \subseteq Offers

LEMMA RuleFacts ==
  ASSUME RulesType
  PROVE  /\ \A o \in Offers : /\ rules[o].price \in OfferPrices /\ rules[o].price \in Nat
                              /\ rules[o].priority \in 0..1
                              /\ rules[o].requires \subseteq Goods
                              /\ o \in Nat /\ o # 0 /\ o \in 0..MaxOffers
         /\ \A i \in Goods : base[i] \in MenuPrices /\ base[i] \in Nat
         /\ 0 \notin Offers /\ 0 \in 0..MaxOffers
<1>1. MaxOffers \in Nat /\ MenuPrices \subseteq Nat /\ OfferPrices \subseteq Nat
  BY CartPricingAssumption
<1>2. \A o \in Offers : rules[o] \in Rule
  BY DEF RulesType
<1>3. \A r \in Rule : r.price \in OfferPrices /\ r.priority \in 0..1 /\ r.requires \subseteq Goods
  BY DEF Rule
<1>4. \A o \in Offers : o \in Nat /\ o # 0 /\ o \in 0..MaxOffers
  BY <1>1 DEF Offers
<1>5. 0 \notin Offers /\ 0 \in 0..MaxOffers
  BY <1>1 DEF Offers
<1>6. \A i \in Goods : base[i] \in MenuPrices /\ base[i] \in Nat
  BY <1>1 DEF RulesType
<1> QED BY <1>1, <1>2, <1>3, <1>4, <1>5, <1>6

\* One of some offers is the cheapest.
LEMMA CheapestOffer ==
  ASSUME RulesType, NEW C \in SUBSET Offers, C # {}
  PROVE  \E o \in C : \A p \in C : rules[o].price <= rules[p].price
<1> DEFINE T == {rules[o].price : o \in C}
<1>1. T \in SUBSET Nat /\ T # {}
  BY RuleFacts
<1>2. PICK n \in T : \A m \in T : n <= m
  BY <1>1, LeastNumber
<1>3. PICK o \in C : n = rules[o].price
  BY <1>2
<1> QED BY <1>2, <1>3

\* The keys of min order any offers: one of them precedes all others.
LEMMA FirstOffer ==
  ASSUME RulesType, NEW C \in SUBSET Offers, C # {}, NEW preferred
  PROVE  \E o \in C : \A p \in C \ {o} : Precedes(o, p, preferred)
<1>1. PICK c \in C : \A p \in C : rules[c].price <= rules[p].price
  BY CheapestOffer
<1> DEFINE C1 == {o \in C : rules[o].price = rules[c].price}
           C2 == {o \in C1 : \A p \in C1 : rules[o].priority >= rules[p].priority}
<1>2. c \in C1 /\ C1 \subseteq Offers
  OBVIOUS
<1>3. \A o \in C1, p \in C \ C1 : rules[o].price < rules[p].price
  BY <1>1, <1>2, RuleFacts
<1>4. C2 # {}
  <2>1. \A o \in C1 : rules[o].priority \in 0..1
    BY <1>2, RuleFacts
  <2>2. CASE \E o \in C1 : rules[o].priority = 1
    <3>1. PICK o \in C1 : rules[o].priority = 1
      BY <2>2
    <3>2. o \in C2
      BY <2>1, <3>1
    <3> QED BY <3>2
  <2>3. CASE \A o \in C1 : rules[o].priority # 1
    <3>1. \A o \in C1 : rules[o].priority = 0
      BY <2>1, <2>3
    <3>2. c \in C2
      BY <1>2, <3>1
    <3> QED BY <3>2
  <2> QED BY <2>2, <2>3
<1>5. \A o \in C2, p \in C1 \ C2 : rules[o].priority > rules[p].priority
  <2> SUFFICES ASSUME NEW o \in C2, NEW p \in C1 \ C2
               PROVE  rules[o].priority > rules[p].priority
    OBVIOUS
  <2>1. o \in Offers /\ p \in Offers /\ \A q \in C1 : rules[q].priority \in 0..1
    BY RuleFacts
  <2>2. PICK q \in C1 : ~ (rules[p].priority >= rules[q].priority)
    OBVIOUS
  <2>3. rules[o].priority >= rules[q].priority
    OBVIOUS
  <2>4. rules[p].priority \in 0..1 /\ rules[q].priority \in 0..1 /\ rules[o].priority \in 0..1
    BY <2>1
  <2> QED BY <2>2, <2>3, <2>4
<1>6. \A o, p \in C2 : rules[o].priority = rules[p].priority
  <2> SUFFICES ASSUME NEW o \in C2, NEW p \in C2
               PROVE  rules[o].priority = rules[p].priority
    OBVIOUS
  <2>1. rules[o].priority >= rules[p].priority /\ rules[p].priority >= rules[o].priority
    OBVIOUS
  <2>2. rules[o].priority \in 0..1 /\ rules[p].priority \in 0..1
    BY RuleFacts
  <2> QED BY <2>1, <2>2
<1>7. PICK o \in C2 : \A p \in C2 \ {o} : o = preferred \/ (p # preferred /\ o < p)
  <2>1. CASE preferred \in C2
    BY <2>1
  <2>2. CASE preferred \notin C2
    <3>1. C2 \in SUBSET Nat
      BY RuleFacts
    <3>2. PICK n \in C2 : \A m \in C2 : n <= m
      BY <1>4, <3>1, LeastNumber
    <3>3. \A p \in C2 \ {n} : p # preferred /\ n < p
      BY <2>2, <3>1, <3>2
    <3> QED BY <3>3
  <2> QED BY <2>1, <2>2
<1>8. o \in C /\ o \in C1
  OBVIOUS
<1>9. ASSUME NEW p \in C \ {o} PROVE Precedes(o, p, preferred)
  <2>1. CASE p \notin C1
    BY <1>3, <1>8, <2>1 DEF Precedes
  <2>2. CASE p \in C1 /\ p \notin C2
    <3>1. rules[o].price = rules[p].price /\ rules[o].priority > rules[p].priority
      BY <1>5, <1>7, <2>2
    <3> QED BY <3>1 DEF Precedes
  <2>3. CASE p \in C2
    <3>1. rules[o].price = rules[p].price /\ rules[o].priority = rules[p].priority
      BY <1>6, <1>7, <2>3
    <3>2. o = preferred \/ (p # preferred /\ o < p)
      BY <1>7, <1>9, <2>3
    <3> QED BY <3>1, <3>2 DEF Precedes
  <2> QED BY <2>1, <2>2, <2>3
<1> QED BY <1>8, <1>9

\* select_promotion_quote: an offer that applies, and no other one is cheaper.
LEMMA SelectDoes ==
  ASSUME RulesType, NEW item \in Goods, NEW ids, NEW isMember, NEW preferred
  PROVE  LET o == SelectOffer(item, ids, isMember, preferred)
         IN /\ o \in 0..MaxOffers
            /\ o # 0 => o \in Offers /\ Eligible(o, item, ids, isMember)
            /\ PriceOf(item, o) \in Nat /\ PriceOf(item, o) \in Prices
            /\ PriceOf(item, o) <= base[item]
            /\ \A p \in Offers : Eligible(p, item, ids, isMember) =>
                                   PriceOf(item, o) <= rules[p].price
<1> DEFINE C == {o \in Offers : Eligible(o, item, ids, isMember)}
           o == SelectOffer(item, ids, isMember, preferred)
<1>1. CASE C = {}
  <2>1. o = 0
    BY <1>1 DEF SelectOffer
  <2> HIDE DEF o
  <2>2. PriceOf(item, o) = base[item]
    BY <2>1 DEF PriceOf
  <2> QED BY <1>1, <2>1, <2>2, RuleFacts DEF Prices, o
<1>2. CASE C # {}
  <2>1. o = CHOOSE x \in C : \A p \in C \ {x} : Precedes(x, p, preferred)
    BY <1>2 DEF SelectOffer
  <2>2. \E x \in C : \A p \in C \ {x} : Precedes(x, p, preferred)
    BY <1>2, FirstOffer
  <2>3. o \in C /\ \A p \in C \ {o} : Precedes(o, p, preferred)
    <3> HIDE DEF C
    <3> QED BY <2>1, <2>2
  <2> HIDE DEF o
  <2>4. o \in Offers /\ Eligible(o, item, ids, isMember) /\ o # 0 /\ o \in 0..MaxOffers
    BY <2>3, RuleFacts
  <2>5. PriceOf(item, o) = rules[o].price /\ rules[o].price \in OfferPrices
        /\ rules[o].price \in Nat
    BY <2>4, RuleFacts DEF PriceOf
  <2>6. rules[o].price <= base[item]
    BY <2>4, <2>5, RuleFacts DEF Eligible
  <2>7. \A p \in C : rules[o].price <= rules[p].price
    <3> SUFFICES ASSUME NEW p \in C PROVE rules[o].price <= rules[p].price
      OBVIOUS
    <3>1. rules[p].price \in Nat
      BY RuleFacts
    <3>2. CASE p = o
      BY <3>2, <2>5
    <3>3. CASE p # o
      <4>1. Precedes(o, p, preferred)
        BY <2>3, <3>3
      <4> QED BY <4>1, <3>1, <2>5 DEF Precedes
    <3> QED BY <3>2, <3>3
  <2> QED BY <2>4, <2>5, <2>6, <2>7 DEF Prices, o
<1> QED BY <1>1, <1>2

\* An offer that applies to a cart applies to one that holds more.
LEMMA LargerCart ==
  ASSUME NEW o, NEW item, NEW ids, NEW more, ids \subseteq more, NEW isMember,
         Eligible(o, item, ids, isMember)
  PROVE  Eligible(o, item, more, isMember)
BY DEF Eligible

-----------------------------------------------------------------------------
(* The menu.                                                               *)

\* Of the offers that need more in the cart, one is the cheapest and first.
LEMMA FirstPromise ==
  ASSUME RulesType, NEW C \in SUBSET Offers, C # {}
  PROVE  \E o \in C : \A p \in C : \/ rules[o].price < rules[p].price
                                   \/ rules[o].price = rules[p].price /\ o <= p
<1>1. PICK c \in C : \A p \in C : rules[c].price <= rules[p].price
  BY CheapestOffer
<1> DEFINE C1 == {o \in C : rules[o].price = rules[c].price}
<1>2. C1 \in SUBSET Nat /\ C1 # {}
  BY RuleFacts
<1>3. PICK o \in C1 : \A p \in C1 : o <= p
  BY <1>2, LeastNumber
<1>4. ASSUME NEW p \in C
      PROVE  rules[o].price < rules[p].price \/ (rules[o].price = rules[p].price /\ o <= p)
  <2>1. rules[o].price = rules[c].price /\ rules[c].price <= rules[p].price
    BY <1>1
  <2>2. rules[c].price \in Nat /\ rules[p].price \in Nat
    BY RuleFacts
  <2>3. CASE p \in C1
    BY <1>3, <2>1, <2>3
  <2>4. CASE p \notin C1
    <3>1. rules[p].price # rules[c].price
      BY <2>4
    <3> QED BY <2>1, <2>2, <3>1
  <2> QED BY <2>3, <2>4
<1> QED BY <1>4

\* project_item_price.
LEMMA ProjectDoes ==
  ASSUME RulesType, NEW item \in Goods, NEW ids, NEW isMember
  PROVE  LET m == Project(item, ids, isMember)
         IN /\ m \in Shown
            /\ m.offer \in 0..MaxOffers
            /\ m.offer = 0 => m.price = base[item]
            /\ m.offer # 0 => /\ m.offer \in Offers /\ Eligible(m.offer, item, ids, isMember)
                              /\ m.price = rules[m.offer].price
            /\ m.promise # 0 =>
                 \E o \in Offers : /\ Eligible(o, item, Goods, isMember)
                                   /\ m.promise = rules[o].price
                                   /\ m.requires = rules[o].requires
<1> DEFINE selected == SelectOffer(item, ids, isMember, 0)
           conditional == {o \in Offers : /\ rules[o].requires # {}
                                          /\ Eligible(o, item, Goods, isMember)}
           price == PriceOf(item, selected)
           plain == [price |-> price, offer |-> selected, promise |-> 0, requires |-> {}]
           m == Project(item, ids, isMember)
<1>1. /\ selected \in 0..MaxOffers
      /\ selected # 0 => selected \in Offers /\ Eligible(selected, item, ids, isMember)
      /\ price \in Prices
  BY SelectDoes
<1>2. /\ selected = 0 => price = base[item]
      /\ selected # 0 => price = rules[selected].price
  BY DEF PriceOf
<1> HIDE DEF selected, price
<1>3. CASE selected # 0 \/ conditional = {}
  <2>1. m = plain
    BY <1>3 DEF Project, selected, price
  <2>2. plain \in Shown
    BY <1>1 DEF Shown
  <2>3. m \in Shown /\ m.offer = selected /\ m.price = price /\ m.promise = 0
    BY <2>1, <2>2
  <2> HIDE DEF m
  <2>4. m.offer # 0 => /\ m.offer \in Offers /\ Eligible(m.offer, item, ids, isMember)
                       /\ m.price = rules[m.offer].price
    BY <1>1, <1>2, <2>3
  <2> QED BY <1>1, <1>2, <2>3, <2>4 DEF m
<1>4. CASE ~ (selected # 0 \/ conditional = {})
  <2> DEFINE o == CHOOSE o \in conditional : \A p \in conditional :
                    \/ rules[o].price < rules[p].price
                    \/ rules[o].price = rules[p].price /\ o <= p
  <2>1. m = [plain EXCEPT !.promise = rules[o].price, !.requires = rules[o].requires]
    BY <1>4 DEF Project, selected, price
  <2>2. o \in conditional
    <3>1. conditional \in SUBSET Offers /\ conditional # {}
      BY <1>4
    <3> HIDE DEF conditional
    <3>2. \E x \in conditional : \A p \in conditional :
            \/ rules[x].price < rules[p].price
            \/ rules[x].price = rules[p].price /\ x <= p
      BY <3>1, FirstPromise
    <3> QED BY <3>2
  <2> HIDE DEF o
  <2>3. /\ o \in Offers /\ Eligible(o, item, Goods, isMember)
        /\ rules[o].price \in OfferPrices /\ rules[o].requires \subseteq Goods
    BY <2>2, RuleFacts
  <2>4. m = [price |-> price, offer |-> selected, promise |-> rules[o].price,
             requires |-> rules[o].requires]
    BY <2>1
  <2>5. m \in Shown
    BY <1>1, <2>3, <2>4 DEF Shown
  <2>6. /\ m.offer = 0 /\ m.price = price /\ m.promise = rules[o].price
        /\ m.requires = rules[o].requires
    BY <1>4, <2>4
  <2> HIDE DEF m
  <2> QED BY <1>1, <1>2, <1>4, <2>3, <2>5, <2>6 DEF m
<1> QED BY <1>3, <1>4

\* What the menu sells into a cart that has a price: the offers it names apply
\* to every larger cart, so the cart is accepted again.
LEMMA MenuIsAccepted ==
  ASSUME CartPricingTypeOK, menu = Projected(DOMAIN rows, member), Accepts(rows, member),
         NEW ids \in SUBSET Goods
  PROVE  /\ DOMAIN Put(rows, ids, MenuOffers) = DOMAIN rows \cup ids
         /\ Accepts(Put(rows, ids, MenuOffers), member)
<1> DEFINE sold == Put(rows, ids, MenuOffers)
<1>1. RulesType /\ DOMAIN rows \subseteq Goods
  BY DEF CartPricingTypeOK, RulesType
<1>2. DOMAIN sold = DOMAIN rows \cup ids
  BY DEF Put
<1>3. ASSUME NEW i \in DOMAIN sold, sold[i] # 0
      PROVE  Eligible(sold[i], i, DOMAIN sold, member)
  <2>1. i \in Goods /\ i \in DOMAIN rows \cup ids
    BY <1>1, <1>2, <1>3
  <2>2. CASE i \in ids /\ (i \notin DOMAIN rows \/ MenuOffers[i] # 0)
    <3>1. sold[i] = menu[i].offer
      BY <2>1, <2>2 DEF Put, MenuOffers
    <3>2. menu[i] = Project(i, DOMAIN rows, member)
      BY <2>1 DEF Projected
    <3> HIDE DEF sold
    <3>3. Eligible(sold[i], i, DOMAIN rows, member)
      BY <1>1, <1>3, <2>1, <3>1, <3>2, ProjectDoes
    <3> QED BY <1>2, <3>3, LargerCart
  <2>3. CASE ~ (i \in ids /\ (i \notin DOMAIN rows \/ MenuOffers[i] # 0))
    <3>1. i \in DOMAIN rows /\ sold[i] = rows[i]
      BY <2>1, <2>3 DEF Put
    <3> HIDE DEF sold
    <3>2. Eligible(sold[i], i, DOMAIN rows, member)
      BY <1>3, <3>1 DEF Accepts
    <3> QED BY <1>2, <3>2, LargerCart
  <2> QED BY <2>2, <2>3
<1> QED BY <1>2, <1>3 DEF Accepts

\* The projection of the menu is a promise about every state of the right
\* types: what applies to the cart applies to a larger one.
LEMMA WordIsKept == CartPricingTypeOK => MenuKeepsItsWord
<1> SUFFICES ASSUME CartPricingTypeOK, menu = Projected(DOMAIN rows, member),
                    Accepts(rows, member), NEW i \in Goods
             PROVE  /\ LET c == Put(rows, {i}, MenuOffers)
                       IN Accepts(c, member) /\ Charged(c, member)[i] <= menu[i].price
                    /\ menu[i].promise # 0 =>
                         LET c == Put(rows, {i} \cup menu[i].requires, MenuOffers)
                         IN Accepts(c, member) /\ Charged(c, member)[i] <= menu[i].promise
  BY DEF MenuKeepsItsWord
<1>1. RulesType
  BY DEF CartPricingTypeOK, RulesType
<1>2. menu[i] = Project(i, DOMAIN rows, member) /\ menu[i] \in Shown
  BY <1>1, ProjectDoes DEF Projected
<1>3. menu[i].requires \subseteq Goods
  BY <1>2 DEF Shown
<1>4. /\ Accepts(Put(rows, {i}, MenuOffers), member)
      /\ DOMAIN Put(rows, {i}, MenuOffers) = DOMAIN rows \cup {i}
  BY MenuIsAccepted
<1>5. Charged(Put(rows, {i}, MenuOffers), member)[i] <= menu[i].price
  <2> DEFINE c == Put(rows, {i}, MenuOffers)
             o == SelectOffer(i, DOMAIN c, member, c[i])
  <2>1. i \in DOMAIN c /\ DOMAIN rows \subseteq DOMAIN c
    BY <1>4
  <2>2. Charged(c, member)[i] = PriceOf(i, o)
    BY <2>1 DEF Charged
  <2>3. /\ PriceOf(i, o) <= base[i]
        /\ \A p \in Offers : Eligible(p, i, DOMAIN c, member) => PriceOf(i, o) <= rules[p].price
    BY <1>1, SelectDoes
  <2> HIDE DEF c, o
  <2>4. CASE menu[i].offer = 0
    <3>1. menu[i].price = base[i]
      BY <1>1, <1>2, <2>4, ProjectDoes
    <3> QED BY <2>2, <2>3, <3>1 DEF c
  <2>5. CASE menu[i].offer # 0
    <3>1. /\ menu[i].offer \in Offers /\ Eligible(menu[i].offer, i, DOMAIN rows, member)
          /\ menu[i].price = rules[menu[i].offer].price
      BY <1>1, <1>2, <2>5, ProjectDoes
    <3>2. Eligible(menu[i].offer, i, DOMAIN c, member)
      BY <2>1, <3>1, LargerCart
    <3> QED BY <2>2, <2>3, <3>1, <3>2 DEF c
  <2> QED BY <2>4, <2>5
<1>6. ASSUME menu[i].promise # 0
      PROVE  /\ Accepts(Put(rows, {i} \cup menu[i].requires, MenuOffers), member)
             /\ Charged(Put(rows, {i} \cup menu[i].requires, MenuOffers), member)[i]
                  <= menu[i].promise
  <2> DEFINE ids == {i} \cup menu[i].requires
             c == Put(rows, ids, MenuOffers)
             o == SelectOffer(i, DOMAIN c, member, c[i])
  <2>1. Accepts(c, member) /\ DOMAIN c = DOMAIN rows \cup ids
    BY <1>3, MenuIsAccepted
  <2>2. i \in DOMAIN c /\ menu[i].requires \subseteq DOMAIN c
    BY <2>1
  <2>3. Charged(c, member)[i] = PriceOf(i, o)
    BY <2>2 DEF Charged
  <2>4. \A p \in Offers : Eligible(p, i, DOMAIN c, member) => PriceOf(i, o) <= rules[p].price
    BY <1>1, SelectDoes
  <2> HIDE DEF c, o, ids
  <2>5. PICK p \in Offers : /\ Eligible(p, i, Goods, member)
                            /\ menu[i].promise = rules[p].price
                            /\ menu[i].requires = rules[p].requires
    BY <1>1, <1>2, <1>6, ProjectDoes
  <2>6. Eligible(p, i, DOMAIN c, member)
    BY <2>2, <2>5 DEF Eligible
  <2> QED BY <2>1, <2>3, <2>4, <2>5, <2>6 DEF c, ids
<1> QED BY <1>4, <1>5, <1>6

-----------------------------------------------------------------------------
(* The steps.                                                              *)

\* The type invariant in the parts that steps disturb.
StaffType == RulesType /\ changes \in 0..MaxChanges /\ member \in BOOLEAN
RowsType == DOMAIN rows \subseteq Goods /\ \A i \in DOMAIN rows : rows[i] \in 0..MaxOffers
QuoteType ==
  /\ quote.status \in {"idle", "pending", "ready", "failed"}
  /\ quote.status = "ready" => quote.prices \in [DOMAIN rows -> Prices]
MenuType ==
  /\ menu \in [Goods -> Shown]
  /\ menuAsked \subseteq [ids : SUBSET Goods, member : BOOLEAN]
  /\ banners \subseteq Offers

LEMMA TypeParts ==
  CartPricingTypeOK <=> StaffType /\ RowsType /\ QuoteType /\ MenuType
BY DEF CartPricingTypeOK, StaffType, RulesType, RowsType, QuoteType, MenuType

LEMMA TypePartsNext ==
  CartPricingTypeOK' <=> StaffType' /\ RowsType' /\ QuoteType' /\ MenuType'
BY DEF CartPricingTypeOK, StaffType, RulesType, RowsType, QuoteType, MenuType, Shown, Rule,
       Prices, Offers

LEMMA StaffStays == StaffType /\ UNCHANGED staff /\ member' \in BOOLEAN => StaffType'
BY DEF StaffType, RulesType, staff, Rule, Offers

LEMMA RowsStay == RowsType /\ UNCHANGED rows => RowsType'
BY DEF RowsType

LEMMA QuoteStays == QuoteType /\ UNCHANGED <<rows, quote>> => QuoteType'
BY DEF QuoteType, Prices

LEMMA MenuStays == MenuType /\ UNCHANGED <<menu, menuAsked, banners>> => MenuType'
BY DEF MenuType, Shown, Prices, Offers

\* What a step keeps that raises no price.
PricesKept == CartPricingTypeOK' /\ (QuoteIsHeld => QuoteIsHeld')

\* A quote without prices.
LEMMA NoPrices ==
  ASSUME quote' = NoQuote \/ quote' = [status |-> "pending"] \/ quote' = [status |-> "failed"]
  PROVE  QuoteType' /\ quote'.status # "ready"
BY DEF QuoteType, NoQuote

LEMMA AskingKeepsMenu ==
  ASSUME MenuType, NEW ids \in SUBSET Goods, NEW isMember \in BOOLEAN, Asks(ids, isMember),
         UNCHANGED <<menu, banners>>
  PROVE  MenuType'
<1>1. menuAsked' = menuAsked \cup {[ids |-> ids, member |-> isMember]}
  BY DEF Asks
<1>2. [ids |-> ids, member |-> isMember] \in [ids : SUBSET Goods, member : BOOLEAN]
  OBVIOUS
<1>3. menuAsked' \subseteq [ids : SUBSET Goods, member : BOOLEAN]
  BY <1>1, <1>2 DEF MenuType
<1> QED BY <1>3 DEF MenuType, Shown, Prices, Offers

LEMMA ProjectedType ==
  ASSUME RulesType, NEW ids, NEW isMember
  PROVE  Projected(ids, isMember) \in [Goods -> Shown]
BY ProjectDoes DEF Projected

\* The rows that an item is put into.
LEMMA PutType ==
  ASSUME RowsType, NEW ids \in SUBSET Goods, NEW offers, \A i \in ids : offers[i] \in 0..MaxOffers
  PROVE  /\ DOMAIN Put(rows, ids, offers) \subseteq Goods
         /\ \A i \in DOMAIN Put(rows, ids, offers) : Put(rows, ids, offers)[i] \in 0..MaxOffers
BY DEF RowsType, Put

\* handleCartChange: whatever was quoted is forgotten.
LEMMA ChangeKeeps ==
  ASSUME CartPricingTypeOK, NEW c, HandleCartChange(c),
         DOMAIN c \subseteq Goods, \A i \in DOMAIN c : c[i] \in 0..MaxOffers
  PROVE  PricesKept
<1>1. StaffType /\ MenuType
  BY TypeParts
<1>2. /\ rows' = c /\ UNCHANGED <<staff, member, menu, banners>>
      /\ IF DOMAIN c = {} THEN quote' = NoQuote /\ Asks({}, member)
         ELSE quote' = [status |-> "pending"] /\ UNCHANGED menuAsked
  BY DEF HandleCartChange
<1>3. StaffType'
  BY <1>1, <1>2, StaffStays DEF StaffType
<1>4. RowsType'
  BY <1>2 DEF RowsType
<1>5. QuoteType' /\ quote'.status # "ready"
  BY <1>2, NoPrices
<1>6. MenuType'
  <2>1. CASE DOMAIN c = {}
    BY <1>1, <1>2, <2>1, AskingKeepsMenu DEF StaffType
  <2>2. CASE DOMAIN c # {}
    BY <1>1, <1>2, <2>2, MenuStays
  <2> QED BY <2>1, <2>2
<1>7. QuoteIsHeld'
  BY <1>5 DEF QuoteIsHeld
<1> QED BY <1>3, <1>4, <1>5, <1>6, <1>7, TypePartsNext DEF PricesKept

LEMMA AddFromMenuKeeps ==
  ASSUME CartPricingTypeOK, NEW item \in Goods, AddFromMenu(item)
  PROVE  PricesKept
<1>1. RowsType /\ MenuType
  BY TypeParts
<1>2. \A i \in {item} : MenuOffers[i] \in 0..MaxOffers
  BY <1>1 DEF MenuOffers, MenuType, Shown
<1>3. /\ DOMAIN Put(rows, {item}, MenuOffers) \subseteq Goods
      /\ \A i \in DOMAIN Put(rows, {item}, MenuOffers) :
           Put(rows, {item}, MenuOffers)[i] \in 0..MaxOffers
  BY <1>1, <1>2, PutType
<1>4. HandleCartChange(Put(rows, {item}, MenuOffers))
  BY DEF AddFromMenu
<1> DEFINE c == Put(rows, {item}, MenuOffers)
<1> HIDE DEF c
<1> QED BY <1>3, <1>4, ChangeKeeps

LEMMA AddFromBannerKeeps ==
  ASSUME CartPricingTypeOK, NEW o \in Offers, AddFromBanner(o)
  PROVE  PricesKept
<1>1. RowsType /\ StaffType /\ RulesType
  BY TypeParts DEF StaffType
<1>2. PICK item \in rules[o].on : HandleCartChange(Put(rows, {item}, [i \in {item} |-> o]))
  BY DEF AddFromBanner
<1>3. item \in Goods
  BY <1>1 DEF RulesType, Rule
<1>4. \A i \in {item} : [j \in {item} |-> o][i] \in 0..MaxOffers
  BY <1>1, RuleFacts
<1>5. /\ DOMAIN Put(rows, {item}, [i \in {item} |-> o]) \subseteq Goods
      /\ \A i \in DOMAIN Put(rows, {item}, [j \in {item} |-> o]) :
           Put(rows, {item}, [j \in {item} |-> o])[i] \in 0..MaxOffers
  BY <1>1, <1>3, <1>4, PutType
<1> QED BY <1>2, <1>5, ChangeKeeps

LEMMA RemoveKeeps ==
  ASSUME CartPricingTypeOK, NEW item \in Goods, Remove(item)
  PROVE  PricesKept
<1>1. RowsType
  BY TypeParts
<1> DEFINE c == [i \in DOMAIN rows \ {item} |-> rows[i]]
<1>2. HandleCartChange(c)
  BY DEF Remove
<1>3. DOMAIN c \subseteq Goods /\ \A i \in DOMAIN c : c[i] \in 0..MaxOffers
  BY <1>1 DEF RowsType
<1> HIDE DEF c
<1> QED BY <1>2, <1>3, ChangeKeeps

LEMMA ChangeQuantityKeeps == ASSUME CartPricingTypeOK, ChangeQuantity PROVE PricesKept
<1>1. RowsType
  BY TypeParts
<1>2. HandleCartChange(rows)
  BY DEF ChangeQuantity
<1> QED BY <1>1, <1>2, ChangeKeeps DEF RowsType

\* The quote is the price of the offers that the rows take with it.
LEMMA QuoteArrivesKeeps == ASSUME CartPricingTypeOK, QuoteArrives PROVE PricesKept
<1>1. StaffType /\ RulesType /\ RowsType /\ MenuType
  BY TypeParts DEF StaffType
<1>2. /\ rows' = Applied(rows, member)
      /\ quote' = [status |-> "ready", prices |-> Charged(rows, member)]
      /\ Asks(DOMAIN rows, member) /\ UNCHANGED <<staff, member, menu, banners>>
  BY DEF QuoteArrives
<1>3. StaffType'
  BY <1>1, <1>2, StaffStays DEF StaffType
<1> DEFINE o(i) == SelectOffer(i, DOMAIN rows, member, rows[i])
<1>4. \A i \in DOMAIN rows : /\ o(i) \in 0..MaxOffers
                             /\ PriceOf(i, o(i)) \in Prices /\ PriceOf(i, o(i)) \in Nat
  BY <1>1, SelectDoes DEF RowsType
<1>5. rows' = [i \in DOMAIN rows |-> o(i)]
  BY <1>2 DEF Applied
<1>6. quote'.status = "ready" /\ quote'.prices = [i \in DOMAIN rows |-> PriceOf(i, o(i))]
  BY <1>2 DEF Charged
<1> HIDE DEF o
<1>7. RowsType'
  BY <1>1, <1>4, <1>5 DEF RowsType
<1>8. QuoteType'
  BY <1>4, <1>5, <1>6 DEF QuoteType, Prices
<1>9. MenuType'
  BY <1>1, <1>2, AskingKeepsMenu DEF StaffType, RowsType
<1>10. \A i \in DOMAIN rows' :
         (IF rows'[i] = 0 THEN base[i] ELSE rules[rows'[i]].price) <= quote'.prices[i]
  <2> SUFFICES ASSUME NEW i \in DOMAIN rows
               PROVE  (IF rows'[i] = 0 THEN base[i] ELSE rules[rows'[i]].price)
                        <= quote'.prices[i]
    BY <1>5
  <2>1. rows'[i] = o(i) /\ quote'.prices[i] = PriceOf(i, o(i))
    BY <1>5, <1>6
  <2>2. PriceOf(i, o(i)) = IF o(i) = 0 THEN base[i] ELSE rules[o(i)].price
    BY DEF PriceOf
  <2> QED BY <1>4, <2>1, <2>2
<1>11. base' = base /\ rules' = rules
  BY <1>2 DEF staff
<1>12. QuoteIsHeld'
  BY <1>10, <1>11 DEF QuoteIsHeld, PriceOf
<1> QED BY <1>3, <1>7, <1>8, <1>9, <1>12, TypePartsNext DEF PricesKept

LEMMA QuoteFailsKeeps == ASSUME CartPricingTypeOK, QuoteFails PROVE PricesKept
<1>1. StaffType /\ RowsType /\ MenuType
  BY TypeParts
<1>2. /\ quote' = [status |-> "failed"]
      /\ UNCHANGED <<staff, member, rows, menu, menuAsked, banners>>
  BY DEF QuoteFails
<1>3. StaffType' /\ RowsType' /\ MenuType'
  BY <1>1, <1>2, StaffStays, RowsStay, MenuStays DEF StaffType
<1>4. QuoteType' /\ quote'.status # "ready"
  BY <1>2, NoPrices
<1> QED BY <1>3, <1>4, TypePartsNext DEF PricesKept, QuoteIsHeld

\* What leaves the cart and its quote alone, and the store too.
LEMMA QuoteHolds ==
  ASSUME QuoteIsHeld, UNCHANGED <<base, rules, rows, quote>>
  PROVE  QuoteIsHeld'
BY DEF QuoteIsHeld, PriceOf

LEMMA ProjectionKeeps ==
  ASSUME CartPricingTypeOK, ProjectionArrives \/ ProjectionFails
  PROVE  PricesKept
<1>1. StaffType /\ RulesType /\ RowsType /\ QuoteType /\ MenuType
  BY TypeParts DEF StaffType
<1>2. UNCHANGED <<staff, member, rows, quote, banners>>
  BY DEF ProjectionArrives, ProjectionFails
<1>3. menuAsked' \subseteq menuAsked
  BY DEF ProjectionArrives, ProjectionFails
<1>4. menu' \in [Goods -> Shown]
  <2>1. CASE ProjectionArrives
    BY <1>1, <2>1, ProjectedType DEF ProjectionArrives
  <2>2. CASE ProjectionFails
    BY <1>1, <2>2 DEF ProjectionFails, MenuType
  <2> QED BY <2>1, <2>2
<1>5. StaffType' /\ RowsType' /\ QuoteType'
  BY <1>1, <1>2, StaffStays, RowsStay, QuoteStays DEF StaffType
<1>6. MenuType'
  BY <1>1, <1>2, <1>3, <1>4 DEF MenuType, Shown, Prices, Offers
<1>7. QuoteIsHeld => QuoteIsHeld'
  BY <1>2, QuoteHolds DEF staff
<1> QED BY <1>5, <1>6, <1>7, TypePartsNext DEF PricesKept

LEMMA MemberLoginKeeps == ASSUME CartPricingTypeOK, MemberLogin PROVE PricesKept
<1>1. StaffType /\ RowsType /\ QuoteType /\ MenuType
  BY TypeParts
<1>2. member' = TRUE /\ UNCHANGED <<staff, kiosk>>
  BY DEF MemberLogin
<1>3. StaffType' /\ RowsType' /\ QuoteType' /\ MenuType'
  BY <1>1, <1>2, StaffStays, RowsStay, QuoteStays, MenuStays DEF kiosk
<1>4. QuoteIsHeld => QuoteIsHeld'
  BY <1>2, QuoteHolds DEF staff, kiosk
<1> QED BY <1>3, <1>4, TypePartsNext DEF PricesKept

\* The cart is emptied.
LEMMA EmptyRows == ASSUME rows' = EmptyCart PROVE RowsType'
BY DEF RowsType, EmptyCart

LEMMA DropOrderKeeps == ASSUME CartPricingTypeOK, DropOrder PROVE PricesKept
<1>1. StaffType /\ MenuType
  BY TypeParts
<1>2. /\ member' \in {member, FALSE} /\ rows' = EmptyCart /\ quote' = NoQuote
      /\ \E isMember \in {member, member'} : Asks({}, isMember)
      /\ UNCHANGED <<staff, menu, banners>>
  BY DEF DropOrder
<1>3. member \in BOOLEAN /\ member' \in BOOLEAN
  BY <1>1, <1>2 DEF StaffType
<1>4. StaffType' /\ RowsType'
  BY <1>1, <1>2, <1>3, StaffStays, EmptyRows
<1>5. QuoteType' /\ quote'.status # "ready"
  BY <1>2, NoPrices
<1>6. PICK isMember \in BOOLEAN : Asks({}, isMember)
  BY <1>2, <1>3
<1>7. MenuType'
  BY <1>1, <1>2, <1>6, AskingKeepsMenu
<1> QED BY <1>4, <1>5, <1>7, TypePartsNext DEF PricesKept, QuoteIsHeld

LEMMA OrderMadeKeeps == ASSUME CartPricingTypeOK, OrderMade PROVE PricesKept
<1>1. StaffType /\ RulesType
  BY TypeParts DEF StaffType
<1>2. /\ member' = FALSE /\ rows' = EmptyCart /\ quote' = NoQuote /\ menuAsked' = {}
      /\ menu' \in {Projected({}, FALSE), Unpromoted} /\ banners' = running
      /\ UNCHANGED staff
  BY DEF OrderMade
<1>3. StaffType' /\ RowsType'
  BY <1>1, <1>2, StaffStays, EmptyRows
<1>4. QuoteType' /\ quote'.status # "ready"
  BY <1>2, NoPrices
<1>5. Unpromoted \in [Goods -> Shown]
  BY <1>1, RuleFacts DEF Unpromoted, Shown, Prices
<1>6. menu' \in [Goods -> Shown]
  BY <1>1, <1>2, <1>5, ProjectedType
<1>7. MenuType'
  BY <1>1, <1>2, <1>6 DEF MenuType, RulesType, Shown, Prices, Offers
<1> QED BY <1>3, <1>4, <1>7, TypePartsNext DEF PricesKept, QuoteIsHeld

\* What staff changes, at the kiosk's back.
LEMMA ChangeFacts ==
  ASSUME CartPricingTypeOK, Change
  PROVE  /\ StaffType /\ RulesType /\ changes' \in 0..MaxChanges /\ member' = member
         /\ UNCHANGED kiosk
         /\ RowsType' /\ QuoteType' /\ MenuType'
<1>1. StaffType /\ RulesType /\ RowsType /\ QuoteType /\ MenuType
  BY TypeParts DEF StaffType
<1>2. changes < MaxChanges /\ changes' = changes + 1 /\ member' = member /\ UNCHANGED kiosk
  BY DEF Change
<1>3. MaxChanges \in Nat
  BY CartPricingAssumption
<1>4. changes' \in 0..MaxChanges
  BY <1>1, <1>2, <1>3 DEF StaffType
<1>5. RowsType' /\ QuoteType' /\ MenuType'
  BY <1>1, <1>2, RowsStay, QuoteStays, MenuStays DEF kiosk
<1> QED BY <1>1, <1>2, <1>4, <1>5

LEMMA ToggleKeeps ==
  ASSUME CartPricingTypeOK, NEW o \in Offers, Toggle(o)
  PROVE  PricesKept
<1>1. Change /\ UNCHANGED <<base, rules>>
      /\ running' = IF o \in running THEN running \ {o} ELSE running \cup {o}
  BY DEF Toggle
<1>2. /\ StaffType /\ RulesType /\ changes' \in 0..MaxChanges /\ member' = member
      /\ UNCHANGED kiosk /\ RowsType' /\ QuoteType' /\ MenuType'
  BY <1>1, ChangeFacts
<1>3. running' \subseteq Offers
  BY <1>1, <1>2 DEF RulesType
<1>4. StaffType'
  BY <1>1, <1>2, <1>3 DEF StaffType, RulesType, Rule, Offers
<1>5. QuoteIsHeld => QuoteIsHeld'
  BY <1>1, <1>2, QuoteHolds DEF kiosk
<1> QED BY <1>2, <1>4, <1>5, TypePartsNext DEF PricesKept

\* A price that staff changes: it is a price, and lower unless Raises.
LEMMA EditItemKeeps ==
  ASSUME CartPricingTypeOK, NEW item \in Goods, EditItem(item)
  PROVE  CartPricingTypeOK' /\ (~ Raises /\ QuoteIsHeld => QuoteIsHeld')
<1>1. PICK price \in MenuPrices : /\ MayBecome(base[item], price)
                                  /\ base' = [base EXCEPT ![item] = price]
  BY DEF EditItem
<1>2. Change /\ UNCHANGED <<rules, running>>
  BY DEF EditItem
<1>3. /\ StaffType /\ RulesType /\ changes' \in 0..MaxChanges /\ member' = member
      /\ UNCHANGED kiosk /\ RowsType' /\ QuoteType' /\ MenuType'
  BY <1>2, ChangeFacts
<1>4. base' \in [Goods -> MenuPrices]
  BY <1>1, <1>3 DEF RulesType
<1>5. StaffType'
  BY <1>2, <1>3, <1>4 DEF StaffType, RulesType, Rule, Offers
<1>6. CartPricingTypeOK'
  BY <1>3, <1>5, TypePartsNext
<1>7. ASSUME ~ Raises, QuoteIsHeld PROVE QuoteIsHeld'
  <2> SUFFICES ASSUME quote'.status = "ready", NEW i \in DOMAIN rows
               PROVE  (IF rows[i] = 0 THEN base'[i] ELSE rules[rows[i]].price)
                        <= quote.prices[i]
    BY <1>2, <1>3 DEF QuoteIsHeld, PriceOf, kiosk
  <2>1. quote.status = "ready" /\ RowsType /\ QuoteType
    BY <1>3, TypeParts DEF kiosk
  <2>2. (IF rows[i] = 0 THEN base[i] ELSE rules[rows[i]].price) <= quote.prices[i]
    BY <1>7, <2>1 DEF QuoteIsHeld, PriceOf
  <2>3. i \in Goods /\ base[i] \in Nat /\ price \in Nat /\ quote.prices[i] \in Nat
    BY <1>3, <2>1, RuleFacts, CartPricingAssumption DEF RowsType, QuoteType, Prices
  <2>4. price < base[item]
    BY <1>1, <1>7 DEF MayBecome
  <2>5. base'[i] = IF i = item THEN price ELSE base[i]
    BY <1>1, <1>3, <2>3 DEF RulesType
  <2>6. base'[i] <= base[i]
    BY <2>3, <2>4, <2>5
  <2>7. base'[i] \in Nat
    BY <2>3, <2>5
  <2> QED BY <2>2, <2>3, <2>6, <2>7
<1> QED BY <1>6, <1>7

LEMMA EditOfferKeeps ==
  ASSUME CartPricingTypeOK, NEW o \in Offers, EditOffer(o)
  PROVE  CartPricingTypeOK' /\ (~ Raises /\ QuoteIsHeld => QuoteIsHeld')
<1>1. PICK price \in OfferPrices : /\ MayBecome(rules[o].price, price)
                                   /\ rules' = [rules EXCEPT ![o].price = price]
  BY DEF EditOffer
<1>2. Change /\ UNCHANGED <<base, running>>
  BY DEF EditOffer
<1>3. /\ StaffType /\ RulesType /\ changes' \in 0..MaxChanges /\ member' = member
      /\ UNCHANGED kiosk /\ RowsType' /\ QuoteType' /\ MenuType'
  BY <1>2, ChangeFacts
<1> DEFINE r == [rules[o] EXCEPT !.price = price]
<1>4. rules[o] \in Rule
  BY <1>3 DEF RulesType
<1>5. r \in Rule /\ r.price = price
  BY <1>4 DEF Rule
<1>6. rules' = [rules EXCEPT ![o] = r]
  BY <1>1, <1>3 DEF RulesType
<1> HIDE DEF r
<1>7. rules' \in [Offers -> Rule]
  BY <1>3, <1>5, <1>6 DEF RulesType
<1>8. StaffType'
  BY <1>2, <1>3, <1>7 DEF StaffType, RulesType, Rule, Offers
<1>9. CartPricingTypeOK'
  BY <1>3, <1>8, TypePartsNext
<1>10. ASSUME ~ Raises, QuoteIsHeld PROVE QuoteIsHeld'
  <2> SUFFICES ASSUME quote'.status = "ready", NEW i \in DOMAIN rows
               PROVE  (IF rows[i] = 0 THEN base[i] ELSE rules'[rows[i]].price)
                        <= quote.prices[i]
    BY <1>2, <1>3 DEF QuoteIsHeld, PriceOf, kiosk
  <2>1. quote.status = "ready" /\ RowsType /\ QuoteType
    BY <1>3, TypeParts DEF kiosk
  <2>2. (IF rows[i] = 0 THEN base[i] ELSE rules[rows[i]].price) <= quote.prices[i]
    BY <1>10, <2>1 DEF QuoteIsHeld, PriceOf
  <2>3. rows[i] = 0 \/ rows[i] \in Offers
    BY <2>1, CartPricingAssumption DEF RowsType, Offers
  <2>4. CASE rows[i] = 0
    BY <2>2, <2>4
  <2>5. CASE rows[i] \in Offers
    <3>1. /\ rows[i] # 0 /\ rules[rows[i]].price \in Nat /\ rules[o].price \in Nat
          /\ price \in Nat /\ quote.prices[i] \in Nat
      BY <1>3, <2>1, <2>5, RuleFacts, CartPricingAssumption DEF QuoteType, Prices
    <3>2. rules'[rows[i]] = IF rows[i] = o THEN r ELSE rules[rows[i]]
      BY <1>3, <1>6, <2>5 DEF RulesType
    <3>3. price < rules[o].price
      BY <1>1, <1>10 DEF MayBecome
    <3>4. rules'[rows[i]].price \in Nat /\ rules'[rows[i]].price <= rules[rows[i]].price
      BY <1>5, <3>1, <3>2, <3>3
    <3> QED BY <2>2, <3>1, <3>4
  <2> QED BY <2>3, <2>4, <2>5
<1> QED BY <1>9, <1>10

-----------------------------------------------------------------------------
(* What prices keep.                                                       *)

LEMMA PricingInit == CartPricingInit => CartPricingTypeOK /\ QuoteIsHeld
<1> SUFFICES ASSUME CartPricingInit PROVE CartPricingTypeOK /\ QuoteIsHeld
  OBVIOUS
<1>1. /\ base \in [Goods -> MenuPrices] /\ rules \in [Offers -> Rule] /\ running = Offers
      /\ changes = 0 /\ member = FALSE /\ rows = EmptyCart /\ quote = NoQuote /\ menuAsked = {}
      /\ menu = Projected({}, FALSE) /\ banners = Offers
  BY DEF CartPricingInit
<1>2. RulesType /\ 0 \in 0..MaxChanges
  BY <1>1, CartPricingAssumption DEF RulesType
<1>3. menu \in [Goods -> Shown]
  BY <1>1, <1>2, ProjectedType
<1>4. StaffType /\ MenuType
  BY <1>1, <1>2, <1>3 DEF StaffType, MenuType
<1>5. RowsType /\ QuoteType /\ quote.status # "ready"
  BY <1>1 DEF RowsType, EmptyCart, QuoteType, NoQuote
<1> QED BY <1>4, <1>5, TypeParts DEF QuoteIsHeld

LEMMA PricingNext ==
  ASSUME CartPricingTypeOK, [CartPricingNext]_cartPricing
  PROVE  CartPricingTypeOK' /\ (~ Raises /\ QuoteIsHeld => QuoteIsHeld')
<1>1. CASE UNCHANGED cartPricing
  <2>1. StaffType' /\ RowsType' /\ QuoteType' /\ MenuType'
    BY <1>1, TypeParts, StaffStays, RowsStay, QuoteStays, MenuStays
       DEF cartPricing, kiosk, StaffType
  <2>2. QuoteIsHeld => QuoteIsHeld'
    BY <1>1, QuoteHolds DEF cartPricing, kiosk, staff
  <2> QED BY <2>1, <2>2, TypePartsNext
<1>2. CASE \E i \in Goods : AddFromMenu(i) \/ Remove(i) \/ EditItem(i)
  BY <1>2, AddFromMenuKeeps, RemoveKeeps, EditItemKeeps DEF PricesKept
<1>3. CASE \E o \in Offers : AddFromBanner(o) \/ Toggle(o) \/ EditOffer(o)
  BY <1>3, AddFromBannerKeeps, ToggleKeeps, EditOfferKeeps DEF PricesKept
<1>4. CASE ChangeQuantity \/ QuoteArrives \/ QuoteFails
  BY <1>4, ChangeQuantityKeeps, QuoteArrivesKeeps, QuoteFailsKeeps DEF PricesKept
<1>5. CASE ProjectionArrives \/ ProjectionFails
  BY <1>5, ProjectionKeeps DEF PricesKept
<1>6. CASE MemberLogin \/ DropOrder \/ OrderMade
  BY <1>6, MemberLoginKeeps, DropOrderKeeps, OrderMadeKeeps DEF PricesKept
<1> QED BY <1>1, <1>2, <1>3, <1>4, <1>5, <1>6 DEF CartPricingNext

\* A quote that holds charges no row more than it shows: the offer of the row
\* is among those that the server chooses the cheapest of.
LEMMA HeldIsNoDearer ==
  ASSUME CartPricingTypeOK, QuoteIsHeld
  PROVE  NoDearerThanShown
<1> SUFFICES ASSUME quote.status = "ready", NEW isMember \in {member, FALSE},
                    Accepts(rows, isMember), NEW i \in DOMAIN rows
             PROVE  Charged(rows, isMember)[i] <= quote.prices[i]
  BY DEF NoDearerThanShown
<1> DEFINE o == SelectOffer(i, DOMAIN rows, isMember, rows[i])
<1>1. RulesType /\ RowsType /\ QuoteType
  BY TypeParts DEF StaffType
<1>2. Charged(rows, isMember)[i] = PriceOf(i, o)
  BY DEF Charged
<1>3. i \in Goods
  BY <1>1 DEF RowsType
<1>4. /\ PriceOf(i, o) \in Nat /\ PriceOf(i, o) <= base[i]
      /\ \A p \in Offers : Eligible(p, i, DOMAIN rows, isMember) => PriceOf(i, o) <= rules[p].price
  BY <1>1, <1>3, SelectDoes
<1> HIDE DEF o
<1>5. PriceOf(i, rows[i]) <= quote.prices[i]
  BY DEF QuoteIsHeld
<1>6. quote.prices[i] \in Nat
  BY <1>1, CartPricingAssumption DEF QuoteType, Prices
<1>7. PriceOf(i, o) <= PriceOf(i, rows[i]) /\ PriceOf(i, rows[i]) \in Nat
  <2>1. CASE rows[i] = 0
    BY <1>1, <1>3, <1>4, <2>1, RuleFacts DEF PriceOf
  <2>2. CASE rows[i] # 0
    <3>1. Eligible(rows[i], i, DOMAIN rows, isMember)
      BY <2>2 DEF Accepts
    <3>2. rows[i] \in Offers
      BY <1>1, <3>1 DEF Eligible, RulesType
    <3>3. PriceOf(i, rows[i]) = rules[rows[i]].price
      BY <2>2 DEF PriceOf
    <3> QED BY <1>1, <1>4, <3>1, <3>2, <3>3, RuleFacts
  <2> QED BY <2>1, <2>2
<1> QED BY <1>2, <1>4, <1>5, <1>6, <1>7

\* Menu prices, offers, the rows of the cart and what they remember of offers
\* keep their types (price_checkout_cart, project_item_price, cart.js).
THEOREM CartPricingTypes == CartPricingSpec => []CartPricingTypeOK
<1>1. CartPricingInit => CartPricingTypeOK
  BY PricingInit
<1>2. CartPricingTypeOK /\ [CartPricingNext]_cartPricing => CartPricingTypeOK'
  BY PricingNext
<1> QED BY <1>1, <1>2, PTL DEF CartPricingSpec

\* Whatever offers say, end or change to while a cart is at the kiosk, what
\* price_checkout_cart charges for a cart that it accepts is no row more than
\* the quote that the kiosk shows, when staff raises no price meanwhile.
THEOREM NothingIsDearer ==
  ASSUME ~ Raises
  PROVE  CartPricingSpec => []NoDearerThanShown
<1>1. CartPricingInit => CartPricingTypeOK /\ QuoteIsHeld
  BY PricingInit
<1>2. CartPricingTypeOK /\ QuoteIsHeld /\ [CartPricingNext]_cartPricing =>
        CartPricingTypeOK' /\ QuoteIsHeld'
  BY PricingNext
<1>3. CartPricingTypeOK /\ QuoteIsHeld => NoDearerThanShown
  BY HeldIsNoDearer
<1> QED BY <1>1, <1>2, <1>3, PTL DEF CartPricingSpec

\* The prices and the promises that project_item_price puts on the menu are
\* kept by price_checkout_cart, whatever staff changes.
THEOREM TheMenuKeepsItsWord == CartPricingSpec => []MenuKeepsItsWord
<1>1. CartPricingTypeOK => MenuKeepsItsWord
  BY WordIsKept
<1> QED BY <1>1, CartPricingTypes, PTL

-----------------------------------------------------------------------------
(* One kiosk.                                                              *)

LEMMA PushIsTyped == PushInv => KioskPushTypeOK
<1> SUFFICES ASSUME PushInv PROVE KioskPushTypeOK
  OBVIOUS
<1>1. BarPage = [{"running", "completed", "cart", "payment", "visible"} -> BOOLEAN]
  BY Zenon DEF BarPage
<1>2. /\ push.timer \in BOOLEAN /\ push.flight \in BOOLEAN /\ push.bar \in BOOLEAN
      /\ push.current \in Items \cup {NoItem}
      /\ push.seen \subseteq Candidate /\ push.ready \in Seq(Candidate)
  BY InvSays DEF BarLocals
<1> QED BY <1>1, <1>2, InvSays DEF KioskPushTypeOK, Flights

\* What the modules keep, together.
KioskInv == IInv /\ PriceInv /\ VoiceInv /\ PushInv /\ CartPricingTypeOK

\* Whichever part of a kiosk takes steps, what it stores keeps its types: the
\* flows of modules/ordering_entry, the handlers of app.js with their quotes and
\* payments, the turn and the draft of voice.js, the requests of
\* aiRecommendationController, the carts and offers of _pricing_service.py.
THEOREM KioskTypes == Spec => []TypeOK
<1>1. Init => KioskInv
  <2> SUFFICES ASSUME Init PROVE KioskInv
    OBVIOUS
  <2>1. EntryFlowInit /\ KioskCheckoutInit /\ KioskVoiceInit /\ KioskPushInit /\ CartPricingInit
    BY DEF Init
  <2> QED BY <2>1, IInvInit, PriceInvInit, VoiceInvInit, PushInvInit, PricingInit DEF KioskInv
<1>2. KioskInv /\ [Next]_vars => KioskInv'
  <2> SUFFICES ASSUME KioskInv, [Next]_vars PROVE KioskInv'
    OBVIOUS
  <2>1. /\ [EntryFlowNext]_entryFlow /\ [KioskCheckoutNext]_kioskCheckout
        /\ [KioskVoiceNext]_kioskVoice /\ [KioskPushNext]_kioskPush
        /\ [CartPricingNext]_cartPricing
    BY DEF Next, vars
  <2> QED BY <2>1, IInvNext, PriceInvStep, VoiceInvStep, PushInvNext, PricingNext DEF KioskInv
<1>3. KioskInv => TypeOK
  BY PushIsTyped DEF KioskInv, IInv, PriceInv, CheckoutInv, VoiceInv, TypeOK
<1> QED BY <1>1, <1>2, <1>3, PTL DEF Spec
=============================================================================
