CONSTANTS
  Threads = {1, 2, 3}
  HALF = 4
  Kind = "int"
  Start = {0, 3}
  Calls <- MCCalls
SPECIFICATION FairSpec
PROPERTIES Linearizable CallsReturn
CHECK_DEADLOCK FALSE
