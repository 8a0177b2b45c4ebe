\* The assistant of one voice turn, and two providers that fail
SPECIFICATION GatewaySpec
CONSTANTS
  Requests = {r1}
  Callers = {"voice"}
  PoolThreads = 1
  MaxRetries = 0
\* a request that was answered stops
CHECK_DEADLOCK FALSE
INVARIANTS
  ExhaustedAssistantFails
