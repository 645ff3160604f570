CONSTANTS
  Mod = 8
  Num <- MCNum
  Align <- MCAlign
SPECIFICATION FairSpec
INVARIANTS
  NoLostKick
  NoLostInterrupt
  LayoutFits
PROPERTY BuffersComeBack
