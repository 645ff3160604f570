CONSTANTS
  Starts <- MCStarts
  MaxRegs = 130
SPECIFICATION EngineSpec
INVARIANTS
  CountsRegisters
  SkipsExactly
  FindsNatBits
CHECK_DEADLOCK FALSE
