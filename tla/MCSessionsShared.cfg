SPECIFICATION Spec
CONSTANTS
  MAX_CLIENTS = 2
  ID = {c1, c2}
  NoID = NoID
  NoConn = NoConn
  MinusOne = MinusOne
  MaxOpen = 2
SYMMETRY ConnSymmetry
INVARIANTS ClientsGetTheirOwn
CHECK_DEADLOCK FALSE
