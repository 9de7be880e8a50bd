SPECIFICATION Spec

CONSTANTS
  u1 = u1
  u2 = u2
  r1 = r1
  r2 = r2
  Urls <- TwoUrls
  Requests <- OneRequest

INVARIANTS
  AnnouncedMeansListening

CHECK_DEADLOCK FALSE
