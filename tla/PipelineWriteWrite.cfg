SPECIFICATION Spec
CONSTANTS
  g1 = g1
  g2 = g2
  ArrayGroup = {g1, g2}
  Register = {0, 1}
  Capacity = 2
  Programs <- OverwritePrograms
  LoopPrograms = {}
  Laps = 0
INVARIANTS NoWriteAfterWrite
CHECK_DEADLOCK FALSE
