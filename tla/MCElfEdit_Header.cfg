SPECIFICATION Spec
CONSTANTS
  PAGE = 4
  AddrMod = 128
  Images <- AllImages
  CodeLens = {0, 3}
  MaxCalls = 3
  MallocFails = FALSE
  WritesFail = 0
INVARIANT HeaderCopied
