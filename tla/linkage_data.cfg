CONSTANTS
  Funs = {f, g}
  Vars = {x}
  Literal = literal
  MaxObjs = 5
SPECIFICATION Spec
INVARIANTS DataResolved
CHECK_DEADLOCK FALSE
