SPECIFICATION FamilySpec
CONSTANTS
  Path = {"a", "b", "c"}
  Root = "a"
  Syntax = {"v1", "v2"}
  Disk <- AnyDisk
  Body <- AnyBody
  BaseType <- MCBaseType
  DataType <- MCDataType
INVARIANTS
  SpecIsWhole
  NothingTwice
PROPERTIES
  ImplementsParse
