\* Staff raises the price of an item or an offer while a cart is at the kiosk.
CONSTANTS
  Goods = {m1}
  MaxOffers = 1
  MenuPrices = {7, 10}
  OfferPrices = {6, 8}
  Raises = TRUE
  MaxChanges = 1
  MaxAsked = 1
SPECIFICATION CartPricingSpec
CHECK_DEADLOCK FALSE
INVARIANTS
  NoDearerThanShown
