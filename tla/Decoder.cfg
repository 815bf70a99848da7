CONSTANTS
  Headers <- MCHeaders
  Fields <- MCFields
  MaxHeaders = 2
  N = 80
SPECIFICATION MCSpec
INVARIANTS OwnField Recovered FillSeen BurstTrue
\* decode_track or correct_burst returns.
CHECK_DEADLOCK FALSE
