CONSTANTS
  Core = {"c1", "c2"}
  Levels = 1
  Chunk = 2
  Poll = 2
  Timeout = 3
  Tolerance = 34
SPECIFICATION HistFairSpec
PROPERTIES Terminates
CHECK_DEADLOCK FALSE
