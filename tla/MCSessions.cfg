SPECIFICATION Spec
CONSTANTS
  MAX_CLIENTS = 2
  ID = {c1, c2, c3}
  NoID = NoID
  NoConn = NoConn
  MinusOne = MinusOne
  MaxOpen = 3
SYMMETRY ConnSymmetry
INVARIANTS TypeOK CounterWithinSlots AtMostOneAnswer OwnAnswers NothingLeaks
CHECK_DEADLOCK FALSE
