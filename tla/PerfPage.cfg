CONSTANTS
  LockMod = 6
  LongBits = 5
  PmcBits = 2
  ClockBits = 2
  Clocks <- MCClocks
  Caps <- MCCaps
  Indexes = {1}
  MaxUpdates = 2
  MaxTotal = 2
  MaxTsc = 24
  InitLock <- MCInitLock
  InitTsc <- MCInitTsc
SPECIFICATION FairSpec
INVARIANTS
  ResultTrue
  SampleClock
PROPERTIES
  AcceptsSnapshot
  ResultsMonotone
  ReadEnds
CHECK_DEADLOCK FALSE
