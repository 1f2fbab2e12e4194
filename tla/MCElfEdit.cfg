SPECIFICATION FairSpec
CONSTANTS
  PAGE = 4
  AddrMod = 128
  Images <- AllImages
  CodeLens = {0, 3}
  MaxCalls = 3
  MallocFails = TRUE
  WritesFail = 1
INVARIANTS
  TypeOK
  InjectedMapped
  OnlyFirstNotes
  SegmentsDisjoint
  WrittenIsImage
PROPERTY CallsReturn
