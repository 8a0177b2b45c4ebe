---------------------------- MODULE CartPricing -----------------------------
(***************************************************************************)
(* What a cart costs: the pricing of                                       *)
(* modules/checkout_confirmation/_pricing_service.py by the rules of       *)
(* modules/promotion/application.py, and the kiosk in front of it, whose   *)
(* cart rows and menu remember offers (cart.js, kioskMenuController.js).   *)
(* Both quotes of a cart, the kiosk's and the one that is ordered, are     *)
(* computed by the same function, at different times and from the offers   *)
(* that the rows name.                                                     *)
(*                                                                         *)
(* Quantities and options multiply and add to what is modelled.  An answer *)
(* to an earlier cart is dropped (the module KioskCheckout), so a quote is *)
(* one step; the menu's prices are asked and answered in two.              *)
(***************************************************************************)
EXTENDS Integers, FiniteSets

CONSTANTS
  Goods,        \* what the menu sells
  MaxOffers,    \* the offers are 1..MaxOffers, in the order of their ids
  MenuPrices,   \* prices of items
  OfferPrices,  \* prices of offers
  Raises,       \* TRUE: staff also raises prices
  MaxChanges,   \* bound on what staff changes
  MaxAsked      \* bound on requests for the menu's prices under way

ASSUME CartPricingAssumption ==
  /\ {MaxOffers, MaxChanges, MaxAsked} \subseteq Nat
  /\ MenuPrices \cup OfferPrices \subseteq Nat \ {0}
  /\ Raises \in BOOLEAN

VARIABLES
  base,      \* menu price of every item
  rules,     \* promotion_records: what every offer says
  running,   \* the offers that are active and within their dates
  changes,   \* how much staff has changed
  member,    \* whether the session is a member's
  rows,      \* cart of cartManager: applied_offer_id of every row, 0 if none
  quote,     \* quoteState, with the unit prices its total is the sum of
  menu,      \* menuData: what every item is said to cost
  menuAsked, \* requests for price projections under way
  banners    \* the offers of the banners, loaded once for a page

staff == <<base, rules, running, changes>>
kiosk == <<rows, quote, menu, menuAsked, banners>>
cartPricing == <<staff, member, kiosk>>

Offers == 1..MaxOffers
Prices == MenuPrices \cup OfferPrices
\* An offer that names no item and no category is on every item.
Rule == [price : OfferPrices, priority : 0..1, on : (SUBSET Goods) \ {{}},
         requires : SUBSET Goods, members : BOOLEAN]
Shown == [price : Prices, offer : 0..MaxOffers, promise : {0} \cup OfferPrices,
          requires : SUBSET Goods]

CartPricingTypeOK ==
  /\ base \in [Goods -> MenuPrices]
  /\ rules \in [Offers -> Rule]
  /\ running \subseteq Offers
  /\ changes \in 0..MaxChanges
  /\ member \in BOOLEAN
  /\ DOMAIN rows \subseteq Goods /\ \A i \in DOMAIN rows : rows[i] \in 0..MaxOffers
  /\ quote.status \in {"idle", "pending", "ready", "failed"}
  /\ quote.status = "ready" => quote.prices \in [DOMAIN rows -> Prices]
  /\ menu \in [Goods -> Shown]
  /\ menuAsked \subseteq [ids : SUBSET Goods, member : BOOLEAN]
  /\ banners \subseteq Offers

-----------------------------------------------------------------------------
(* modules/promotion/application.py.                                       *)

\* evaluate_promotion and quote_promotion, for a cart with the items ids.
Eligible(o, item, ids, isMember) ==
  /\ o \in running
  /\ rules[o].members => isMember
  /\ rules[o].requires \subseteq ids
  /\ item \in rules[o].on
  /\ rules[o].price \in 1..base[item]

\* The key of min: the price, the priority, the preference, the id.
Precedes(o, p, preferred) ==
  \/ rules[o].price < rules[p].price
  \/ /\ rules[o].price = rules[p].price
     /\ \/ rules[o].priority > rules[p].priority
        \/ /\ rules[o].priority = rules[p].priority
           /\ o = preferred \/ (p # preferred /\ o < p)

\* select_promotion_quote: 0 if no offer applies.
SelectOffer(item, ids, isMember, preferred) ==
  LET candidates == {o \in Offers : Eligible(o, item, ids, isMember)}
  IN IF candidates = {} THEN 0
     ELSE CHOOSE o \in candidates : \A p \in candidates \ {o} : Precedes(o, p, preferred)

PriceOf(item, o) == IF o = 0 THEN base[item] ELSE rules[o].price

\* Mutant of Project: an item is projected as if the cart held everything.
ProjectFullCart(item, ids, isMember) ==
  LET o == SelectOffer(item, Goods, isMember, 0)
  IN [price |-> PriceOf(item, o), offer |-> o, promise |-> 0, requires |-> {}]

\* project_item_price, as the menu takes it: an offer that applies, or else the
\* cheapest that would if the cart held what it requires.
Project(item, ids, isMember) ==
  LET selected == SelectOffer(item, ids, isMember, 0)
      conditional == {o \in Offers : /\ rules[o].requires # {}
                                     /\ Eligible(o, item, Goods, isMember)}
      plain == [price |-> PriceOf(item, selected), offer |-> selected, promise |-> 0,
                requires |-> {}]
  IN IF selected # 0 \/ conditional = {} THEN plain
     ELSE LET o == CHOOSE o \in conditional : \A p \in conditional :
                     \/ rules[o].price < rules[p].price
                     \/ rules[o].price = rules[p].price /\ o <= p
          IN [plain EXCEPT !.promise = rules[o].price, !.requires = rules[o].requires]

Projected(ids, isMember) == [i \in Goods |-> Project(i, ids, isMember)]

-----------------------------------------------------------------------------
(* price_checkout_cart.                                                    *)

\* Mutant of Accepts: an offer that does not apply is left out of the price.
AcceptsAnything(cart, isMember) == TRUE

\* An offer that a row names and that does not apply refuses the whole cart.
Accepts(cart, isMember) ==
  \A i \in DOMAIN cart : cart[i] # 0 => Eligible(cart[i], i, DOMAIN cart, isMember)

\* The offer every row gets, and its price.
Applied(cart, isMember) ==
  [i \in DOMAIN cart |-> SelectOffer(i, DOMAIN cart, isMember, cart[i])]
Charged(cart, isMember) ==
  [i \in DOMAIN cart |-> PriceOf(i, SelectOffer(i, DOMAIN cart, isMember, cart[i]))]

-----------------------------------------------------------------------------
(* The kiosk.                                                              *)

EmptyCart == [i \in {} |-> 0]
NoQuote == [status |-> "idle"]
Unpromoted == [i \in Goods |-> [price |-> base[i], offer |-> 0, promise |-> 0, requires |-> {}]]

\* addToCart of the items ids, each with its offer: a row that exists keeps its
\* own if there is none.
Put(cart, ids, offers) ==
  [i \in DOMAIN cart \cup ids |->
     IF i \in ids /\ (i \notin DOMAIN cart \/ offers[i] # 0) THEN offers[i] ELSE cart[i]]
MenuOffers == [i \in Goods |-> menu[i].offer]

CartPricingInit ==
  /\ base \in [Goods -> MenuPrices]
  /\ rules \in [Offers -> Rule]
  /\ running = Offers
  /\ changes = 0
  /\ member = FALSE
  /\ rows = EmptyCart /\ quote = NoQuote /\ menuAsked = {}
  /\ menu = Projected({}, FALSE)
  /\ banners = Offers

Asks(ids, isMember) ==
  /\ Cardinality(menuAsked) < MaxAsked
  /\ menuAsked' = menuAsked \cup {[ids |-> ids, member |-> isMember]}

\* handleCartChange: the price is asked for, or, of an empty cart, the menu's prices.
HandleCartChange(cart) ==
  /\ rows' = cart
  /\ IF DOMAIN cart = {} THEN quote' = NoQuote /\ Asks({}, member)
     ELSE quote' = [status |-> "pending"] /\ UNCHANGED menuAsked
  /\ UNCHANGED <<staff, member, menu, banners>>

\* A row takes the offer that the menu names.
AddFromMenu(item) == HandleCartChange(Put(rows, {item}, MenuOffers))

\* handlePromotionCta: the offer of a banner, for its item or the first of its
\* category.
AddFromBanner(o) ==
  /\ o \in banners
  /\ rules[o].members => member
  /\ rules[o].requires \subseteq DOMAIN rows
  /\ \E item \in rules[o].on : HandleCartChange(Put(rows, {item}, [i \in {item} |-> o]))

\* updateCartQty, deleteCartItem.
Remove(item) ==
  /\ item \in DOMAIN rows
  /\ HandleCartChange([i \in DOMAIN rows \ {item} |-> rows[i]])
ChangeQuantity == DOMAIN rows # {} /\ HandleCartChange(rows)

\* quoteCart and applyServerQuote: the rows take the offers that the server
\* selected, and the menu's prices are asked for.
QuoteArrives ==
  /\ quote.status = "pending"
  /\ Accepts(rows, member)
  /\ rows' = Applied(rows, member)
  /\ quote' = [status |-> "ready", prices |-> Charged(rows, member)]
  /\ Asks(DOMAIN rows, member)
  /\ UNCHANGED <<staff, member, menu, banners>>

\* The cart is refused, or the request fails.
QuoteFails ==
  /\ quote.status = "pending"
  /\ quote' = [status |-> "failed"]
  /\ UNCHANGED <<staff, member, rows, menu, menuAsked, banners>>

\* refreshPriceProjections applies every answer, in the order they come in.
ProjectionArrives ==
  /\ \E request \in menuAsked :
       /\ menu' = Projected(request.ids, request.member)
       /\ menuAsked' = menuAsked \ {request}
  /\ UNCHANGED <<staff, member, rows, quote, banners>>

ProjectionFails ==
  /\ \E request \in menuAsked : menuAsked' = menuAsked \ {request}
  /\ UNCHANGED <<staff, member, rows, quote, menu, banners>>

\* A member signs in, at the entry or for the offer of a banner.
MemberLogin ==
  /\ ~member /\ member' = TRUE
  /\ UNCHANGED <<staff, kiosk>>

\* The order is cancelled, or the customer leaves and the next one begins.  The
\* menu's prices are asked for in the old session, which may be unbound first.
DropOrder ==
  /\ member' \in {member, FALSE}
  /\ rows' = EmptyCart /\ quote' = NoQuote
  /\ \E isMember \in {member, member'} : Asks({}, isMember)
  /\ UNCHANGED <<staff, menu, banners>>

\* The order is made: the completion screen ends in a new page, whose first
\* projection can fail.
OrderMade ==
  /\ quote.status = "ready"
  /\ member' = FALSE
  /\ rows' = EmptyCart /\ quote' = NoQuote /\ menuAsked' = {}
  /\ menu' \in {Projected({}, FALSE), Unpromoted}
  /\ banners' = running
  /\ UNCHANGED staff

-----------------------------------------------------------------------------
(* The store.                                                              *)

Change == changes < MaxChanges /\ changes' = changes + 1 /\ UNCHANGED <<member, kiosk>>

\* An offer starts, ends, is paused or resumed.
Toggle(o) ==
  /\ Change
  /\ running' = IF o \in running THEN running \ {o} ELSE running \cup {o}
  /\ UNCHANGED <<base, rules>>

MayBecome(old, new) == new < old \/ (Raises /\ new > old)

\* The menu, and a campaign that is paused, edited and resumed.
EditItem(item) ==
  /\ Change
  /\ \E price \in MenuPrices : /\ MayBecome(base[item], price)
                               /\ base' = [base EXCEPT ![item] = price]
  /\ UNCHANGED <<rules, running>>
EditOffer(o) ==
  /\ Change
  /\ \E price \in OfferPrices : /\ MayBecome(rules[o].price, price)
                                /\ rules' = [rules EXCEPT ![o].price = price]
  /\ UNCHANGED <<base, running>>

CartPricingNext ==
  \/ \E i \in Goods : AddFromMenu(i) \/ Remove(i) \/ EditItem(i)
  \/ \E o \in Offers : AddFromBanner(o) \/ Toggle(o) \/ EditOffer(o)
  \/ ChangeQuantity \/ QuoteArrives \/ QuoteFails
  \/ ProjectionArrives \/ ProjectionFails
  \/ MemberLogin \/ DropOrder \/ OrderMade

CartPricingSpec == CartPricingInit /\ [][CartPricingNext]_cartPricing

-----------------------------------------------------------------------------
(* Properties.                                                             *)

\* Whatever happened since the kiosk showed the price of the cart (offers end,
\* prices are cut, the customer signs in, membership cannot be looked up), the
\* quote that is ordered charges no row more than was shown, or is refused.
NoDearerThanShown ==
  quote.status = "ready" =>
    \A isMember \in {member, FALSE} :
      Accepts(rows, isMember) =>
        \A i \in DOMAIN rows : Charged(rows, isMember)[i] <= quote.prices[i]

\* The menu keeps its word: while its prices are those of this cart, an item put
\* into a cart that has a price gives one again, at no more than the menu says,
\* and together with what an offer requires at no more than it promises.
MenuKeepsItsWord ==
  LET Sold(ids, item, price) ==
        LET cart == Put(rows, ids, MenuOffers)
        IN Accepts(cart, member) /\ Charged(cart, member)[item] <= price
  IN menu = Projected(DOMAIN rows, member) /\ Accepts(rows, member) =>
       \A i \in Goods :
         /\ Sold({i}, i, menu[i].price)
         /\ menu[i].promise # 0 => Sold({i} \cup menu[i].requires, i, menu[i].promise)

=============================================================================
