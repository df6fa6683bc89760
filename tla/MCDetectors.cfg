SPECIFICATION DetectorsSpec
CHECK_DEADLOCK FALSE
CONSTANTS
  x = x
  y = y
  Arms <- MCArms
  MaxVerdicts = 6
  Rebaseline = 2
  Window = 2
  Stride = 2
  Designs <- MCDesigns
INVARIANTS BatchIsScalar MaxCalibrates StreamsAlone GateSplits
