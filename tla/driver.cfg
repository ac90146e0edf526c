SPECIFICATION FairSpec
CONSTANTS
  d1 = d1
  d2 = d2
  Drivers <- MCDrivers
  Commands <- MCCommands
  TmpNames = {t1, t2, t3}
  NoFile = NoFile
CHECK_DEADLOCK FALSE
INVARIANTS NoTmpfileLeft SuccessMeansBuilt FailureKeepsOutputs
PROPERTIES Terminates
