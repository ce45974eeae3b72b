\* Three callers, three tokens: the first, its replacement and a late one.
CONSTANTS
  c1 = c1
  c2 = c2
  c3 = c3
  Callers <- MCCallers
  None = None
  MaxTokens = 3
SPECIFICATION FairSpec
INVARIANTS TypeOK AcquiresOnlyWhenStale
PROPERTIES RetryUsesNewToken LockIsPassedOn
