\* Two tracks of two sectors, one of them on cylinder 0: tools that have
\* repaired one track when they are killed on the other, saves that publish
\* two tracks at once.
CONSTANTS
  t0 = t0
  t1 = t1
  r0 = r0
  r1 = r1
  Tracks = {t0, t1}
  CylZero = {t1}
  NS = 2
  Raws = {r0, r1}
  Decode <- MCDecode
  MaxReads = 2
  DryLimit = 1
  MinReads = 1
  Checkpoint = 2
SPECIFICATION Spec
INVARIANT ClaimedStored
PROPERTY ImplementsArchive
