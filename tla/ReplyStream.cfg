SPECIFICATION FairSpec
CONSTANTS
  Answers <- MCAnswers
  Price <- MCPrice
  Windowless <- MCWindowless
  MaxConnections = 2
INVARIANTS NothingLostInFlight CallsAssembled ChargedOnce
PROPERTIES CancelEndsBoth KeepsContract
CHECK_DEADLOCK FALSE
