SPECIFICATION FairSpec
CHECK_DEADLOCK FALSE
CONSTANTS
  Types <- MCTypes
  BatchSize = 3
  Close = Close
  StoreFails = TRUE
  N = 2
  Sampled = {0, 1}
  TopicBefore <- MCBefore
  TopicAfter <- MCAfter
  TopicShiftAt = 1
  Coin <- MCCoin
  Epsilon = 3
  Changepoint = 1
  RegressedTopic = "science"
  AllTopics = "all"
INVARIANTS PrefixRecorded Complete FinishedCounts GroundTruth
PROPERTIES UsersAnswered RunEnds
