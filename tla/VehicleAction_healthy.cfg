\* Every request is answered within a tick.  The lease is the shortest that
\* lasts: Renew + Poll + (MostRequests + 1) * Latency <= Lease.
CONSTANTS
  None = None
  Plans <- HealthyPlans
  Capacity = 2
  Poll = 1
  Renew = 5
  Lease = 10
  Timeout = 4
  MaxRetries = 1
  Backoff = 1
  Latency = 1
  Faults <- NoFaults
  MaxLate = 1
  Watch = 21
SPECIFICATION Spec
INVARIANTS NoStall ReactsInTime
