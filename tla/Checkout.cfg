\* Both backends: on PostgreSQL two threads interleave at every statement, with
\* cart edits; on SQLite BEGIN IMMEDIATE serialises the transactions.
CONSTANTS
  Sessions = {s1}
  Items = {i1}
  QuoteIds = {q1, q2}
  OrderIds = {o1, o2}
  Keys = {k1, k2}
  Workers = {w1, w2}
  None = None
  Serialized = TRUE
  EventInserts = TRUE
  QuoteTTL = 1
  MaxRevision = 2
  PostgresRevision = 1
  MaxClock = 1
SPECIFICATION RunSpec
SYMMETRY Symmetry
CHECK_DEADLOCK FALSE
INVARIANTS
  TypesOK
  OrdersAsQuoted
  PostgresOrdersAsQuoted
