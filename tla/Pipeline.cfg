SPECIFICATION FairSpec
CONSTANTS
  g1 = g1
  g2 = g2
  ArrayGroup = {g1, g2}
  Register = {0, 1}
  Capacity = 3
  Programs <- Latency
  LoopPrograms <- Throughput
  Laps = 5
INVARIANTS TypeOK OperandsAreSequential FinishIsLast BufferNeverThrows BufferTracksUnits
INVARIANTS NoDataHazard RoundsAreNearlyDone
PROPERTIES ImplementsProgramOrder ProgramFinishes
CHECK_DEADLOCK FALSE
