SPECIFICATION FairSpec
CHECK_DEADLOCK FALSE
CONSTANTS
  j1 = j1
  j2 = j2
  Nothing = Nothing
  Streams <- MCStreams
  Payloads = {"x"}
  Consumers <- MCConsumers
  GroupOf <- MCGroupOf
  Subs <- MCSubs
  ReclaimIdle = 2
  Punctual = FALSE
  MaxPublish = 2
  MaxCrashes = 2
INVARIANTS TypeOK NothingLost
PROPERTIES NeverRedelivered KeepsPromise AllHandled
