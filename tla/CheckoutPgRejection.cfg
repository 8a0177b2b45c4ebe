\* PostgreSQL: a stored rejection and an Order for the same quote.
CONSTANTS
  Sessions = {s1}
  Items = {i1}
  QuoteIds = {q1, q2}
  OrderIds = {o1, o2}
  Keys = {k1, k2}
  Workers = {w1, w2}
  None = None
  Serialized = FALSE
  EventInserts = TRUE
  QuoteTTL = 1
  MaxRevision = 1
  MaxClock = 0
SPECIFICATION Spec
CHECK_DEADLOCK FALSE
INVARIANTS
  RejectionIsFinal
