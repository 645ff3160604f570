CONSTANTS
  Kinds <- MCKinds
  Machines <- MCMachines
  Images <- MCImages
  Values <- MCValues
  ChunkTypes <- MCChunkTypes
  Controls <- MCControls
SPECIFICATION Spec
INVARIANTS
  FieldsRead
  FlagsOnDisk
  SwabsAgree
  ChunkMapTrue
  ControlSurvives
