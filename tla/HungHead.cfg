SPECIFICATION Spec

CONSTANTS
  h1 = h1
  h2 = h2
  h3 = h3
  nobody = nobody
  NoHandler = nobody
  Handlers <- TwoHandlers
  N = 3
  Ops <- AllOps
  Answering <- Nodes12
  Failing <- Node1
  Slow <- Node0
  Tips <- OneTip
  Modulus = 10

SYMMETRY Symmetry

INVARIANTS
  HungHeadServesNothing
