SPECIFICATION Spec
CONSTANTS
  Callees <- MCCallees
  RoutineFt = {0}
  MaxOps = 7
CONSTRAINT Plain
INVARIANTS ValuesArrive OnlyDeepIsRejected CallersRegistersKept
CHECK_DEADLOCK FALSE
