SPECIFICATION LoadSpec
CONSTANTS
  Path = {a, b, c, d}
  Root = a
  Fourth = d
  Syntax = {v1, v2}
  Disk <- MCDisk
INVARIANTS
  CycleIsReal
  OutcomeDetermined
  LoadedIsClosed
  MergedOnce
PROPERTIES
  LoadTerminates
