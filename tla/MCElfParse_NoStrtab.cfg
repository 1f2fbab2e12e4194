SPECIFICATION Spec
CONSTANTS
  HalfMod <- MCHalfMod
  WordMod <- MCWordMod
  XwordMod <- MCXwordMod
  Files <- MCFiles
  SpuriousNull = TRUE
  HeapNodes = 8
INVARIANT MissingStrtabReported
