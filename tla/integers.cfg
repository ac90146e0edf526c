SPECIFICATION Spec
CONSTANTS
  Types = {"bool", "char", "uchar", "int", "uint", "long", "ulong"}
  Bits <- MCBits
  SkippedOps <- WeakOps
  SkippedCasts <- WeakCasts
  AlikeOps <- WeakAlike
  FoldedTypes = {"char", "uchar", "int", "long", "ulong"}
CHECK_DEADLOCK FALSE
INVARIANTS TypeIsRight RegisterHoldsValue ConstantIsValue
