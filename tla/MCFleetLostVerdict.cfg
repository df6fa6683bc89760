SPECIFICATION Spec
CHECK_DEADLOCK FALSE
CONSTANTS
  w1 = w1
  w2 = w2
  Nothing = Nothing
  Nobody = Nobody
  N = 3
  Sampled <- AllThree
  Winner <- LossTieWin
  Workers <- TwoWorkers
  Batch <- FlushPairs
  ReclaimIdle = 2
  Punctual = TRUE
  Suspends <- AtJudge
  Monitored = FALSE
  Ramped = FALSE
  TimesOut = FALSE
  MaxKills = 1
  Up = 1
  Down = 2
  H = 1
  PromoteAt <- OneWin
INVARIANTS EveryPairJudged
