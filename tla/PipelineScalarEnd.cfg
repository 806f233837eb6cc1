SPECIFICATION Spec
CONSTANTS
  g1 = g1
  g2 = g2
  ArrayGroup = {g1, g2}
  Register = {0, 1}
  Capacity = 2
  Programs <- ScalarEnd
  LoopPrograms = {}
  Laps = 0
INVARIANTS FinishIsLast
CHECK_DEADLOCK FALSE
