SPECIFICATION FairSpec
CONSTANTS
  Rtts = {5, 9}
  Failed = Failed
  Capacity = 2
  SleepSteps = 1
  Width = 16
  MaxProbes = 3
  MaxStarts = 2
INVARIANTS PublishedExact QuietReadExact RecentLossIsPercentage
PROPERTIES StopReturns
