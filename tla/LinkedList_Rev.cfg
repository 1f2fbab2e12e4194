SPECIFICATION RevSpec
CONSTANTS
  Nodes = {n1, n2, n3}
  NULL = NULL
  MaxIndex = 0
PROPERTY RevReturns
