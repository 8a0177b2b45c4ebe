\* A customer goes home while a recommendation is asked for, and another begins
SPECIFICATION KioskPushSpec
CONSTANTS
  Items = {i1, i2}
  Default = i1
  NoItem = NoItem
  Slots = {r1, r2}
  MaxOrders = 2
  LeavesRequest = TRUE
\* the bounds are used up
CHECK_DEADLOCK FALSE
INVARIANTS
  PushIsOfThisOrder
