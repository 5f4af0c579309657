SPECIFICATION FairSpec
CONSTANTS
  Null = Null
  Names = {a}
  MaxSends = 2
  MaxPieces = 2
  MaxAnswers = 2
  MaxTurns = 2
  StreamCap = 1
  MaxOrders = 2
INVARIANTS
  Coherent
  HistoriesAnswerable
  AnswerShown
PROPERTIES
  InterruptEnds
CHECK_DEADLOCK FALSE
