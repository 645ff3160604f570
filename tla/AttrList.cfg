CONSTANTS
  Family <- MCFamily
  Payload <- MCPayload
  LongData <- MCLongData
  MaxRecs = 4
  Junk <- MCJunk
  Skips <- MCSkips
SPECIFICATION FairSpec
INVARIANTS
  OnlyWholeRecords
  AllWholeRecords
  TableVerdict
PROPERTY WalkEnds
CHECK_DEADLOCK FALSE
