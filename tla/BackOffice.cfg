\* Eleven independent components, one of them per behavior
SPECIFICATION Spec
CONSTANTS
  Operators = {a1, a2}
  MemberRequests = {a1, a2}
  Editors = {a1, a2}
  Clients = {a1, a2}
  Admins = {a1, a2}
  Processes = {a1, a2}
  Workers = {a1, a2}
  Staff = {a1, a2}
  CatalogCalls = {a1, a2}
  Requests = {a1, a2}
  Threads = {h1, h2, h3}
  MaximumSize = 2
  MaxCandidates = 1
  Contents = {x1, x2}
  MaxRevision = 3
  OnSqlite = TRUE
  MaxId = 2
  Orders = {d1, d2}
  Designs = {g1, g2}
  MaxVersions = 5
  Overtaking = FALSE
  MaxCredentials = 2
  MaxSessions = 2
  Methods = {m1, m2}
  MaxIndex = 1
  MaxVersion = 2
  MaxChecks = 1
  Reused = FALSE
  Turns = {t1, t2}
  MaxAttempts = 2
  ProjectionAttempts = 2
  MaxFaults = 1
  Immediate = FALSE
  Events = {e1, e2}
  MaxClaims = 3
  Lapsing = FALSE
  Items = {i1, i2}
  MaxBatches = 1
  MaxRuns = 2
  Overlap = TRUE
  SeedItems = {s1}
  NewItems = {n1}
  MaxObjects = 2
  Callers = {"copy", "lab"}
  PoolThreads = 1
  MaxRetries = 1
\* a component that used up its bounds stops
CHECK_DEADLOCK FALSE
SYMMETRY Symmetry
INVARIANTS
  TypeOK
  AppliedAsAccepted
  DataNeedsConsent
  CampaignIsKept
  ReadinessIsEarned
  EvidenceIsComplete
  SettledOneWay
  OutcomeIsEarned
  ImagesAreStored
  SlotsAreCounted
  AnswerIsEarned
PROPERTIES
  RevocationHolds
  ErasureIsFinal
