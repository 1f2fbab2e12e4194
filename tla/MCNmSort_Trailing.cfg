SPECIFICATION Spec
CONSTANTS
  Lists <- AsciiLists
  SpuriousNull = FALSE
INVARIANT NeverCrashes
