CONSTANTS
  Core = {"c1", "c2"}
  Levels = 3
  Chunk = 4
  Poll = 5
  Timeout = 7
  Tolerance = 34
SPECIFICATION HistFairSpec
INVARIANTS TypeOK BoundariesAreRounds ConvergesAtOnce ReportIsMeasured LatencyVerdict
PROPERTIES EndsWithoutRest
CHECK_DEADLOCK FALSE
