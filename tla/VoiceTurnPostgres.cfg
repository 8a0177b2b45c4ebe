\* Two threads on one turn, PostgreSQL.
CONSTANTS
  Turns = {t1}
  Texts = {x1}
  Runs = {w1, w2}
  Nil = Nil
  Attempts = 3
  MaxVoiceFaults = 1
  Locking = FALSE
SPECIFICATION VoiceTurnSpec
CHECK_DEADLOCK FALSE
SYMMETRY Symmetry
INVARIANTS
  OneTerminalEvent
