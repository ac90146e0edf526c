SPECIFICATION InitializerSpec
CONSTANTS
  Members <- MCMembers
  Alignments = {16}
  Kinds = {"struct", "union"}
  Names <- MCNames
  Tokens <- MCTokens
  MaxTokens = 9
  Shapes <- MCShapes
  ArrayLen = 2
INVARIANTS MembersDisjoint LayoutIsABI MembersIndependent InitializerIsReference PlainIsAccepted GlobalIsLocal
CHECK_DEADLOCK FALSE
