CONSTANTS
  c1 = c1
  c2 = c2
  c3 = c3
  Core = {c1, c2, c3}
  GlobalMemory = GlobalMemory
  None = None
  EventRegister = {0}
  Programs <- MatchingAndEndless
  LoopPrograms <- Endless
SPECIFICATION LoopSpec
INVARIANTS TypeOK PairedInOrder
PROPERTIES AllFinish NeverStops ImplementsProgress
CHECK_DEADLOCK FALSE
