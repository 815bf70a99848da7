CONSTANTS
  t0 = t0
  t1 = t1
  r0 = r0
  r1 = r1
  Tracks = {t0}
  CylZero = {}
  NS = 3
  Raws = {r0, r1}
  Decode <- MCDecode
  MaxReads = 3
  DryLimit = 2
  MinReads = 2
  Checkpoint = 2
SPECIFICATION Spec
INVARIANT ArchiveBitFaithful
