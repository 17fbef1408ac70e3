SPECIFICATION EngineSpec
CONSTANTS
  G = 10
  INT_MAX = 8
  MaxSeconds = 5
  MaxStamp = 5
  FilterWidth = 8
  FilterOrder = 3
  SampleSizes = {0, 1, 16, 17, 63}
  MaxError = 60
  MaxRate = 3
  Noise = 1
  AdjFreqMax = 10
  MaxAdjOffset = 40
  Calibrated = 5
  Uncalibrated = 20
INVARIANTS Exact FilterFits
PROPERTIES ServoSettles DelayKeepsMeasuring TimersKeepFiring PortTakesOver
