SPECIFICATION Spec
CONSTANTS
  CommandLines <- LoneLine
  MallocFails = FALSE
  Files <- SomeFiles
  DisksFor <- OneDisk
  MaxFaults = 1
INVARIANT SuccessMeansDone
