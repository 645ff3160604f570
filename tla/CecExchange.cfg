SPECIFICATION Spec
CONSTANTS
  Calls <- MCCalls
  Answered <- MCAnswered
  Addresses <- MCAddresses
  Stale <- MCStale
  PhysAddr <- MCPhysAddr
INVARIANTS TypeOK OperandsArrive ReadsInFrame AnswerGoesBack AbortNamesMessage StatusTruth
