SPECIFICATION Spec

CONSTANTS
  h1 = h1
  h2 = h2
  h3 = h3
  nobody = nobody
  NoHandler = nobody
  Handlers <- TwoHandlers
  N = 3
  Ops <- BalanceAndProbe
  Answering <- AllNodes
  Failing <- AllNodes
  Slow <- NoNodes
  Tips <- OneTip
  Modulus = 10

SYMMETRY Symmetry

INVARIANTS
  TypeOK
  NoNodeLost
  LockDiscipline
  NodeStable
  NoSilentSkip
  NoSilentRepeat

PROPERTIES
  OperationsWindDown
  ImplementsFailover
  PromotionEarned
