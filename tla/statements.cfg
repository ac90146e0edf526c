SPECIFICATION FairSpec
CONSTANTS
  Limits <- MCLimits
  Ranges <- MCRanges
  Names = {"L"}
  Values = {0, 1, 2, 3}
CHECK_DEADLOCK FALSE
INVARIANTS SameEvents RejectedIsWrong
PROPERTIES ReachesEvents
