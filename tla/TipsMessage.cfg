SPECIFICATION Spec

CONSTANTS
  N = 3
  Tips <- Heights
  Modulus = 12

INVARIANTS
  TipsNamedRight

CHECK_DEADLOCK FALSE
