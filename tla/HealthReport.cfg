SPECIFICATION Spec

CONSTANTS
  N = 4
  Tips <- Heights
  Modulus = 12

INVARIANTS
  HealthListsEveryFault
  NothingInvented

CHECK_DEADLOCK FALSE
