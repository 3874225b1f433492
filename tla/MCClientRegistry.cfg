SPECIFICATION Spec
CONSTANTS
  MAX_CLIENTS = 4
  ID = {c1, c2, c3, c4, c5, c6}
  NoID = NoID
SYMMETRY IDSymmetry
INVARIANTS TypeOK RegistryInv
PROPERTIES SlotKeepsClient
