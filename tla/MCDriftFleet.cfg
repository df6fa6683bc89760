SPECIFICATION DriftSpec
CHECK_DEADLOCK FALSE
CONSTANTS
  w1 = w1
  Nothing = Nothing
  Nobody = Nobody
  N = 6
  Sampled <- MCSampled
  Winner <- MCWinner
  Workers <- MCWorkers
  Batch <- MCBatch
  ReclaimIdle = 2
  Punctual = TRUE
  Suspends <- MCSuspends
  Monitored = TRUE
  Ramped = FALSE
  TimesOut = TRUE
  MaxKills = 0
  Up = 1
  Down = 2
  H = 2
  PromoteAt <- MCPromoteAt
  Topic <- MCTopic
  Window = 2
  Stride = 1
  Drifted <- MCDrifted
INVARIANTS AlarmsWhenDue EvidenceSinceReset
