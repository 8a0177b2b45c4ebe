\* A confirmation that outlives the bound of the client
SPECIFICATION KioskCheckoutSpec
CONSTANTS
  Lines = {c1}
  Empty = Empty
  MaxSessions = 1
  MaxSequence = 2
  MaxCarts = 1
  MaxQuotes = 1
  Presses = {p1}
  Payments = {y1}
  Timeouts = TRUE
  LeavesCheckout = FALSE
CHECK_DEADLOCK FALSE
INVARIANTS
  FailureIsCertain
