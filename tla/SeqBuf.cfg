CONSTANTS
  seqbuflen = 12
  LittleEndian = TRUE
  Dev <- MCDev
  Chn <- MCChn
  Note <- MCNote
  Value <- MCValue
  Ticks <- MCTicks
  PatchId <- MCPatchId
  Patch <- MCPatch
  Sysex <- MCSysex
  MaxSent = 24
SPECIFICATION Spec
INVARIANTS
  InOrder
  WholeWrites
  PatchAlone
  SelfDelimiting
  SysexRules
CHECK_DEADLOCK FALSE
