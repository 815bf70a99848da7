CONSTANTS
  Fnode <- MCFnode
  FnBlocks <- MCFnBlocks
  Indirect <- MCIndirect
  Entries <- MCEntries
  Blocks <- MCBlocks
  Content <- MCContent
  rootfn = 1
  Losses <- MCLosses
  CYL = 4
  HEAD = 2
  SPT = 3
  BADTRK_CYL = 3
  MaxEntries = 127
  Tables <- MCTables
  CopyAt <- MCCopyAt
  Strays <- MCStrays
SPECIFICATION MCSpec
INVARIANTS EachOnce Complete VerdictTrue TableFound RowsTrue
\* The script has ended.
CHECK_DEADLOCK FALSE
