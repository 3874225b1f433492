SPECIFICATION LiveSpec
CONSTANTS
  m = m
  d = d
  f = f
  x = x
  Client = {h1, h2}
  NoClient = NoClient
  Group = Group
  Trie <- MCFlatTrie
  Path <- MCFlatPath
  Op = {"READ", "WRITE"}
  CanReset = {h1}
  MaxOpen = 2
INVARIANTS TypeOK NameIsEmpty OneResponseButToText CountsWithDrift
PROPERTIES FileLocksAsAgreed ExitCompletes AnsweredUnlessLeaked
CHECK_DEADLOCK FALSE
