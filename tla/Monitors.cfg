SPECIFICATION Spec
CONSTANTS
  a1 = a1  r1 = r1  r2 = r2  m1 = m1  m2 = m2  m3 = m3  m4 = m4
  Addresses = {a1}
  Routes = {r1, r2}
  RawSignals <- MCRawSignals
  NA = NA
  Failed = Failed
  Capacity = 3
  Second = 3
  MaxPolls = 5
  MaxDelay = 2
  Macs = {m1, m2, m3, m4}
  MaxPaired = 1
  MaxEvents = 3
  BatchMax = 2
  MaxHeard = 6
INVARIANTS HintsOfConnection RecordExact ListsTellWhatWasHeard
SYMMETRY Symmetry
CHECK_DEADLOCK FALSE
