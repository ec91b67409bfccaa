SPECIFICATION Spec
CONSTANTS
  Families <- MCFamilies
  Lead <- MCLead
  Alphabet <- MCAlphabet
  Length <- MCLength
CHECK_DEADLOCK FALSE
INVARIANT ReadAsWritten TokensApart
