SPECIFICATION FairSpec
CONSTANTS
  CommandLines <- AllLines
  MallocFails = TRUE
  Files <- SomeFiles
  DisksFor <- SomeDisks
  MaxFaults = 1
INVARIANTS
  TypeOK
  GetoptAnswers
  ReadsDisk
  OutfileHoldsLast
  DumpsWhole
  NothingHeld
  EndingExplained
PROPERTY Ends
