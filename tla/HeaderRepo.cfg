CONSTANTS
  d1 = d1
  d2 = d2
  x86 = x86
  Version <- MCVersion
  Arch <- MCArch
  Name <- MCName
  Asm <- MCExports
  Gen <- MCExports
  Matches <- MCMatches
  Dir <- MCDir
  MaxFaults = 1
SPECIFICATION FairRepoSpec
INVARIANT PublishedSound
PROPERTIES
  ImplementsMirror
  JobPublishes
