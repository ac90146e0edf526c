SPECIFICATION FairSpec
CONSTANTS
  Tables <- MCTables
  Texts <- MCTexts
  MaxTokens = 300
CHECK_DEADLOCK FALSE
INVARIANTS ResultIsReference
PROPERTIES Terminates
