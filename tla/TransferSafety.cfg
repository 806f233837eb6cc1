CONSTANTS
  c1 = c1
  c2 = c2
  c3 = c3
  Core = {c1, c2, c3}
  GlobalMemory = GlobalMemory
  None = None
  EventRegister = {0}
  Programs <- AllDataAndSignalPrograms
  LoopPrograms = {}
SPECIFICATION Spec
SYMMETRY Symmetry
INVARIANTS NoThrow FrontIsThere OfferInOnePlace NotedOfferIsCurrent PermitHasBothEnds DataFindsReceiver PairedInOrder StallsOnlyForPeers SignalsConserved
PROPERTIES OneSourceWaitIsExact ImplementsRendezvous
CHECK_DEADLOCK FALSE
