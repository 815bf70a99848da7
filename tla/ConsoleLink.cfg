CONSTANTS
  Tracks = {t0, t1}
  Backlog = 2
  Sessions = 6
  Captures = 2
SPECIFICATION FairSpec
INVARIANT RightTrack
PROPERTY AnswerComes
\* After the last session nothing happens.
CHECK_DEADLOCK FALSE
