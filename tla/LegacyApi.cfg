SPECIFICATION Spec
CONSTANTS
  Families <- MCFamilies
  Lead <- MCLead
  Alphabet <- MCAlphabet
  MaxTokens <- MCMaxTokens
  Catalog <- MCCatalog
  Worlds <- MCWorlds
CHECK_DEADLOCK FALSE
INVARIANT ChecksSuffice NamesApart ImportedOnce LinesAreFields
