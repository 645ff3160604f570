SPECIFICATION Spec
CONSTANTS
  Calls <- MCCalls
  Answered <- MCAnswered
  Addresses <- MCAddresses
  Stale <- MCStale
  PhysAddr <- MCPhysAddr
INVARIANT AllOperandsArrive
