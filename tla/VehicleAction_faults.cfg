\* Requests fail, are refused, time out and arrive late; the layer is stopped, and
\* the process may die.
CONSTANTS
  None = None
  Plans <- MCPlans
  Capacity = 1
  Poll = 1
  Renew = 1
  Lease = 2
  Timeout = 2
  MaxRetries = 1
  Backoff = 1
  Latency = 2
  Faults <- AllFaults
  MaxLate = 1
  Watch = 0
SPECIFICATION FairSpec
INVARIANTS TypeOK StaleMotionLapses ExecutionBounded
PROPERTIES EndsAtRest
