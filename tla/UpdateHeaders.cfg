CONSTANTS
  d1 = d1
  x86 = x86
  arm = arm
  um = um
  Version <- MCVersion
  Arch <- MCArch
  Name <- MCName
  Asm <- MCAsm
  Gen <- MCGen
  Matches <- MCMatches
  Dir <- MCDir
SPECIFICATION Spec
INVARIANTS
  NoMixedTree
  CleanRunIsComplete
