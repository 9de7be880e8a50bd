SPECIFICATION FairSpec

CONSTANTS
  u1 = u1
  u2 = u2
  r1 = r1
  r2 = r2
  Urls <- ThreeUrls
  Requests <- TwoRequests

INVARIANTS
  UsableList
  ServesOnlyWhenReady
  PanicsWithCause
  NeverStuck

PROPERTIES
  SignalEndsProcess
  ImplementsServerLife

CHECK_DEADLOCK FALSE
