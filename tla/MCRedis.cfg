SPECIFICATION FairRedisSpec
CHECK_DEADLOCK FALSE
CONSTANTS
  c1 = c1
  c2 = c2
  Nothing = Nothing
  Streams = {"requests", "control"}
  Payloads = {"x"}
  Consumers <- MCConsumers
  GroupOf <- MCGroupOf
  Subs <- MCSubs
  ReclaimIdle = 2
  Punctual = FALSE
  MaxPublish = 2
  MaxCrashes = 1
  Prefetch = 1
  ClaimMost = 1
INVARIANT PrefetchStranded
PROPERTIES RedeliveredIfOvertaken AllHandled
