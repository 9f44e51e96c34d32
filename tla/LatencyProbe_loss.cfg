SPECIFICATION Spec
CONSTANTS
  Rtts = {5}
  Failed = Failed
  Capacity = 2
  SleepSteps = 1
  Width = 16
  MaxProbes = 3
  MaxStarts = 1
INVARIANTS LossIsPercentage
