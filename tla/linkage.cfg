CONSTANTS
  Funs = {f, g}
  Vars = {x}
  Literal = literal
  MaxObjs = 5
SPECIFICATION Spec
INVARIANTS CallsResolved EmittedIsNeeded OneDefinition
SYMMETRY Interchangeable
CHECK_DEADLOCK FALSE
