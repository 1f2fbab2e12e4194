SPECIFICATION QuerySpec
CONSTANTS
  PAGE = 4
  AddrMod = 128
  Images <- QueryImages
  QueryNames <- Names
  Sizes = {1, 2}
  CodeLens = {0, 3}
  MaxCalls = 3
  MallocFails = TRUE
  WritesFail = 0
INVARIANTS
  HandedOutMapped
  PatchesStand
  CorruptsOnlyFromBss
PROPERTY InjectionKeepsSymbols
