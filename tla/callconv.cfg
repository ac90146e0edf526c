SPECIFICATION Spec
CONSTANTS
  MAX_ARG_REGS = 2
  Functions <- MCFunctions
  Calls <- MCCalls
  Inner <- MCInner
  MaxLevel = 3
INVARIANTS ArgumentsArrive AlignedAtCall
PROPERTIES StackRestored
