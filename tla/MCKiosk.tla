------------------------------- MODULE MCKiosk -------------------------------
(***************************************************************************)
(* What happens around one kiosk, checked by one run: the entry flow at    *)
(* the server, the checkout, the voice turns and the recommendations of    *)
(* the browser, and the prices that both agree on.  A behavior chooses one *)
(* of them and takes the steps of that one only; the properties are those  *)
(* of the five modules.                                                    *)
(***************************************************************************)
EXTENDS EntryFlow, KioskCheckout, KioskVoice, KioskPush, CartPricing, TLC

VARIABLES active

vars == <<active, entryFlow, kioskCheckout, kioskVoice, kioskPush, cartPricing>>

OneItem == CHOOSE i \in Goods : TRUE
Cheapest == CHOOSE p \in OfferPrices : \A q \in OfferPrices : p <= q
Dearest == CHOOSE p \in MenuPrices : \A q \in MenuPrices : p >= q

\* What offers say, up to the names of items and offers: the first one is the
\* cheapest, the priority tells offers of one price apart, no offer requires
\* an item it is on, and not both are for members.
Rules == {r \in [Offers -> {x \in Rule : x.on \cap x.requires = {}}] :
            /\ \E o \in Offers : ~r[o].members
            /\ \A o \in Offers :
              /\ o = 1 => /\ r[o].price = Cheapest
                          /\ r[o].priority = 0
                          /\ OneItem \in r[o].on
              /\ r[o].price # Cheapest => r[o].priority = 0}

\* Only where prices are at stake are the rules whatever they may be.
Init ==
  /\ EntryFlowInit /\ KioskCheckoutInit /\ KioskVoiceInit /\ KioskPushInit
  /\ base = [i \in Goods |-> Dearest]
  /\ \/ active \in {"entry", "checkout", "voice", "push"} /\ rules = CHOOSE r \in Rules : TRUE
     \/ active = "pricing" /\ rules \in Rules
  /\ CartPricingInit

Next ==
  \/ /\ active = "entry" /\ EntryFlowNext
     /\ UNCHANGED <<active, kioskCheckout, kioskVoice, kioskPush, cartPricing>>
  \/ /\ active = "checkout" /\ KioskCheckoutNext
     /\ UNCHANGED <<active, entryFlow, kioskVoice, kioskPush, cartPricing>>
  \/ /\ active = "voice" /\ KioskVoiceNext
     /\ UNCHANGED <<active, entryFlow, kioskCheckout, kioskPush, cartPricing>>
  \/ /\ active = "push" /\ KioskPushNext
     /\ UNCHANGED <<active, entryFlow, kioskCheckout, kioskVoice, cartPricing>>
  \/ /\ active = "pricing" /\ CartPricingNext
     /\ UNCHANGED <<active, entryFlow, kioskCheckout, kioskVoice, kioskPush>>

Spec == Init /\ [][Next]_vars

Symmetry ==
  Permutations(FlowIds) \cup Permutations(Sessions) \cup Permutations(Members)
    \cup Permutations(Workers)

\* The types of the modules.
TypeOK ==
  /\ EntryFlowTypeOK /\ KioskCheckoutTypeOK /\ KioskVoiceTypeOK /\ KioskPushTypeOK
  /\ CartPricingTypeOK
=============================================================================
