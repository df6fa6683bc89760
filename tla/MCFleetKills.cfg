SPECIFICATION FairSpec
CHECK_DEADLOCK FALSE
CONSTANTS
  w1 = w1
  w2 = w2
  Nothing = Nothing
  Nobody = Nobody
  N = 4
  Sampled <- FirstTwo
  Winner <- LossLossTieWin
  Workers <- TwoWorkers
  Batch <- FlushTwoOne
  ReclaimIdle = 2
  Punctual = TRUE
  Suspends <- AtJudge
  Monitored = FALSE
  Ramped = FALSE
  TimesOut = TRUE
  MaxKills = 2
  Up = 1
  Down = 2
  H = 1
  PromoteAt <- OneWin
INVARIANTS VerdictOnce VerdictBacked EveryPairJudged RequestsRecorded SameAlarm
PROPERTIES Completes
