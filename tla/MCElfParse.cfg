SPECIFICATION FairSpec
CONSTANTS
  HalfMod <- MCHalfMod
  WordMod <- MCWordMod
  XwordMod <- MCXwordMod
  Files <- MCFiles
  SpuriousNull = TRUE
  HeapNodes = 8
INVARIANTS
  TypeOK
  AcceptedEntriesInImage
  StrtabBelongsToSymtab
  SymtabNeverMissing
  SymsInImage
  SymSectionTrace
  ViewInv
PROPERTIES
  Terminates
  ImplementsView
