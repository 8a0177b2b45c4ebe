SPECIFICATION FairSpec
CONSTANTS
  MaxVersion = 2
  Admins <- TwoAdmins
  Workers <- OneWorker
  MaxClaims = 2
  MaxFaults = 2
  Timely = TRUE
  Lossy = FALSE
  Prompt = TRUE
  Torn = FALSE
  OnSqlite = TRUE
  r1 = r1
  r2 = r2
  w1 = w1
CHECK_DEADLOCK FALSE
INVARIANTS
  TypeOK
  StatusTellsPointer
PROPERTIES
  ImplementsServing
  OpenJobSettles
