SPECIFICATION LoadedSpec

CONSTANTS
  h1 = h1
  h2 = h2
  h3 = h3
  nobody = nobody
  NoHandler = nobody
  Handlers <- ThreeHandlers
  N = 3
  Ops <- Balance
  Answering <- Last
  Failing <- AllButLast
  Slow <- NoNodes
  Tips <- OneTip
  Modulus = 10

INVARIANTS
  ServedMovesUp

PROPERTIES
  ServersStayAhead
  ReliableHeadEventually
  EveryOperationReturns
