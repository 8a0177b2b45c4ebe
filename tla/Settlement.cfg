\* Jobs: one with a timely handler, one that operators cancel and whose handler may
\* outlive its lease, so that several workers run and report it.  Events: dispatches
\* end within their lease; other Orders keep spawning dispatches.  Turns: two threads
\* on one turn, two crashes or failing statements, SQLite.
CONSTANTS
  Jobs = {j1, j2}
  Workers = {w1, w2}
  None = None
  Nil = Nil
  MaxAttempts = 2
  MaxCrashes = 2
  Timely = {j1}
  Cancellable = {j2}
  Events = {e1, e2}
  Members = {e1}
  Dispatchers = {d1, d2}
  NoEvent = NoEvent
  MaxDeliveries = 2
  Limit = 2
  MaxFaults = 1
  Punctual = TRUE
  Busy = TRUE
  Turns = {t1}
  Texts = {x1, x2}
  Runs = {w1, w2}
  Attempts = 3
  MaxVoiceFaults = 2
  Locking = TRUE
SPECIFICATION SettlementSpec
CHECK_DEADLOCK FALSE
INVARIANTS
  SettlementTypeOK
  OneRunnerPerJob
  CreditsAreExplained
  TurnIsTold
PROPERTIES
  EveryJobSettles
  ImplementsLedger
  EveryEventSettles
  PhaseWorkIsKept
  ImplementsStream
  RunTurnEnds
