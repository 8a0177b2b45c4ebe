SPECIFICATION FairSpec
CONSTANTS
  MaxVersion = 1
  Admins <- OneAdmin
  Workers <- OneWorker
  MaxClaims = 1
  MaxFaults = 1
  Timely = TRUE
  Lossy = FALSE
  Prompt = TRUE
  Torn = FALSE
  OnSqlite = TRUE
  r1 = r1
  r2 = r2
  w1 = w1
CHECK_DEADLOCK FALSE
PROPERTY
  RestoredAttemptSettles
