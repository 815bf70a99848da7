CONSTANTS
  NR = 1
  Kinds = {"own", "cylinder"}
  Shifts <- MCShifts
  Heard <- MCHeard
  Places <- MCPlaces
  Dead = {4, 8, 19}
  Reads <- MCReads
  Truth <- MCTruth
  Bits <- MCBits
  OUTLIER_BITS = 2
  MAX_BURST = 1
  LastBurst = 12
  min_reads = 3
  MaxReads = 0
  NC = 0
  Captures <- MCCaptures
  Written <- MCWritten
  Leftover = 432
  DeadSectors = {0, 16}
SPECIFICATION MCSpec
INVARIANT SectorRecovered
\* The tool has ended.
CHECK_DEADLOCK FALSE
