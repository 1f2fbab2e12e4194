SPECIFICATION FairSpec
CONSTANTS
  Lists <- AllLists
  SpuriousNull = TRUE
INVARIANTS
  TypeOK
  SelectionOrder
  LossBounded
  PrintsListing
  LettersTell
  CrashOnlyBehindSkipped
PROPERTY Ends
