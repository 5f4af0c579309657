SPECIFICATION Spec
CONSTANTS
  Null = Null
  Names = {a}
  MaxSends = 2
  MaxPieces = 2
  MaxAnswers = 2
  MaxTurns = 2
  StreamCap = 1
  MaxOrders = 2
INVARIANTS
  NoMutualWait
CHECK_DEADLOCK FALSE
