CONSTANTS
  Arch <- MCArch
  AsmName <- MCAsmName
  GenName <- MCGenName
  Choices <- MCChoices
  Cpu <- MCCpu
  Rev <- MCRev
SPECIFICATION Spec
INVARIANTS
  MakeInstallsAll
  MesonInstallsAll
