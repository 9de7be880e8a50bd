SPECIFICATION Spec

CONSTANTS
  h1 = h1
  h2 = h2
  h3 = h3
  nobody = nobody
  NoHandler = nobody
  Handlers <- OneHandler
  N = 3
  Ops <- Probe
  Answering <- AllNodes
  Failing <- AllNodes
  Slow <- NoNodes
  Tips <- SpreadTips
  Modulus = 10

INVARIANTS
  AnyDisparityReported
