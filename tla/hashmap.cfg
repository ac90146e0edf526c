CONSTANTS
  k1 = k1
  k2 = k2
  k3 = k3
  Keys = {k1, k2, k3}
  Vals = {v1, v2}
  Hash <- MCHash
  INIT_SIZE = 4
  HIGH_WATERMARK = 70
  LOW_WATERMARK = 50
  NULL = NULL
  TOMBSTONE = TOMBSTONE
  Absent = Absent
  Deletable = {k1, k3}
SPECIFICATION MCSpec
INVARIANTS UsedIsOccupancy NoHoles ProbesEnd NoNestedRehash SoundWithoutDelete
PROPERTIES OpEffects ImplementsSymbolTable PutReturns
CHECK_DEADLOCK FALSE
