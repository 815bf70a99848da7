\* Three cylinders whose addresses use both bytes, and whose bytes also make
\* up an address past the last; numbers that wrap to each of them;
\* the registers, and three bytes.
CONSTANTS
  PRIAM_MAX_CYLINDER = 2
  PRIAM_NUM_HEADS = 2
  Low = 2
  Wrap = 4
  Regs = {0, 1, 2, 3}
  Values = {0, 1, 255}
SPECIFICATION MCSpec
INVARIANTS IInv OnTrack StairVerified SequenceTrue
           BusSafe AccessTrue
PROPERTIES NoBlindRetry FailHasCause PromptReturns
