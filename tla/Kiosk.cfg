\* One kiosk: its entry flow, checkout, voice turns, recommendations and prices,
\* one per behavior; the prices are of two items and two offers with whatever rules
SPECIFICATION Spec
CONSTANTS
  Devices = {d1}
  FlowIds = {f1, f2}
  Sessions = {s1, s2}
  Members = {m1}
  Workers = {w1, w2}
  None = None
  MaxRevision = 4
  MayFail = TRUE
  Lines = {c1, c2}
  Empty = Empty
  MaxSequence = 3
  MaxCarts = 2
  MaxQuotes = 2
  Presses = {p1, p2}
  Payments = {y1, y2}
  Timeouts = FALSE
  LeavesCheckout = FALSE
  LeavesTurn = FALSE
  LeavesRequest = FALSE
  MaxCustomers = 2
  MaxTurns = 2
  MaxEvents = 3
  Reconnects = 3
  MaxSessions = 2
  Items = {i1, i2, i3}
  Default = i1
  NoItem = NoItem
  Slots = {r1, r2}
  MaxOrders = 2
  Goods = {m1, m2}
  MaxOffers = 2
  MenuPrices = {7, 10}
  OfferPrices = {6, 8}
  Raises = FALSE
  MaxChanges = 1
  MaxAsked = 1
\* a module that used up its bounds stops
CHECK_DEADLOCK FALSE
SYMMETRY Symmetry
INVARIANTS
  TypeOK
  LogReplays
  FlowsAreSound
  PriceIsOfTheCart
  OutcomeIsTold
  VoiceIsHeeded
  RecommendationIsInPlace
  NoDearerThanShown
  MenuKeepsItsWord
PROPERTIES
  FlowIsKept
