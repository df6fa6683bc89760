SPECIFICATION FairSystem
CHECK_DEADLOCK FALSE
CONSTANTS
  w1 = w1
  w2 = w2
  r = r
  Nobody = Nobody
  Tasks <- MCTasks
  Sinks <- MCSinks
  SinkOf <- MCSinkOf
  Batch <- MCBatch
  EventSeqs = {1, 2, 3}
  MaxEmits = 4
  MaxCancels = 2
INVARIANT LossBounded
PROPERTIES RowsStand Drains
