SPECIFICATION FairSpec

CONSTANTS
  r1 = r1
  r2 = r2
  nobody = nobody
  Nobody = nobody
  Requests <- TwoRequests
  Endpoints <- DistinctEndpoints
  N = 2
  Answering <- BothNodes
  Failing <- Node0
  Slow <- Node1
  Tips <- FarTips
  Modulus = 10

INVARIANTS
  CodeTellsOutcome
  ErrorsLoggedAsErrors
  LinesAreFresh
  OnlyHealthIsMute
  NoAnswerThrownAway
  SendIsTold
  HealthIsTold
  NothingLeftBehind
  NobodyHangs

PROPERTIES
  ImplementsRemoteCall
  EveryStepCounts
  EveryCallReturns

CONSTRAINT
  SendsAlongside

ACTION_CONSTRAINT
  Patience

CHECK_DEADLOCK FALSE
