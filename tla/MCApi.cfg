SPECIFICATION Spec
CHECK_DEADLOCK FALSE
CONSTANTS
  Nobody = Nobody
  Tasks <- MCTasks
  Handlers <- MCHandlers
  Judges <- MCJudges
  Sinks <- MCSinks
  Batch <- MCBatch
  Winner <- WinThenLoss
  Sampled = {1, 3}
  Up = 2
  Down = 1
  H = 2
  GateAt <- FirstWin
INVARIANTS ServedHonestly ClosedLog
PROPERTIES NoNewVictims Fresh
