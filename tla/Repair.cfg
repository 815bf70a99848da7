CONSTANTS
  NR = 2
  Kinds = {"own", "cylinder"}
  Shifts <- MCShifts
  Heard <- MCHeard
  Places <- MCPlaces
  Dead = {4, 8, 19}
  Reads <- MCReads
  Truth <- MCTruth
  Bits <- MCBits
  OUTLIER_BITS = 2
  MAX_BURST = 1
  LastBurst = 12
  min_reads = 3
  MaxReads = 5
  NC = 3
  Captures <- MCCaptures
  Written <- MCWritten
  Leftover = 432
  DeadSectors = {0, 16}
SPECIFICATION MCSpec
INVARIANTS OwnSector Unanimous HeldIsFound Outvoted CrcExact
\* The tool has ended.
CHECK_DEADLOCK FALSE
