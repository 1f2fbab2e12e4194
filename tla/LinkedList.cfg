SPECIFICATION FairSpec
CONSTANTS
  Nodes = {n1, n2, n3, n4}
  NULL = NULL
  MaxIndex = 5
INVARIANTS
  TypeOK
  Spelled
  NoLeakNoDangling
  GetAnswers
PROPERTIES
  CallsReturn
  ImplementsSeq
