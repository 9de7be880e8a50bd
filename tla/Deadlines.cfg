SPECIFICATION FairSpec

CONSTANTS
  h1 = h1
  h2 = h2
  h3 = h3
  nobody = nobody
  NoHandler = nobody
  Handlers <- TwoHandlers
  N = 2
  Ops <- SendAndProbe
  Answering <- AllNodes
  Failing <- AllNodes
  Slow <- AllNodes
  Tips <- NearAndFar
  Modulus = 10

INVARIANTS
  LockIsPassedOn
  SentIffAcknowledged
  ProbeVerdict

PROPERTIES
  EveryOperationReturns
