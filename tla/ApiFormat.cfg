SPECIFICATION Spec
CONSTANTS
  Families <- MCFamilies
  Lead <- MCLead
  Alphabet <- MCAlphabet
  MaxTokens <- MCMaxTokens
  MaxComments <- MCMaxComments
CHECK_DEADLOCK FALSE
INVARIANT FormattedParses
