SPECIFICATION CanarySpec
CHECK_DEADLOCK FALSE
CONSTANTS
  w1 = w1
  Nothing = Nothing
  Nobody = Nobody
  N = 5
  Sampled <- AllSampled
  Winner <- WinsAndLosses
  Workers <- SoleWorker
  Batch <- MCBatch
  ReclaimIdle = 2
  Punctual = TRUE
  Suspends <- AtCalls
  Monitored = FALSE
  Ramped = TRUE
  TimesOut = FALSE
  MaxKills = 1
  Up = 2
  Down = 1
  H = 3
  PromoteAt <- NoFewerWins
  GateAt <- NoFewerWins
  Draw <- FirstDraw
INVARIANTS FreshGates Audited
PROPERTIES NeverServesAgain UsesBus
