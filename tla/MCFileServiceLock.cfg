SPECIFICATION Spec
CONSTANTS
  m = m
  d = d
  f = f
  x = x
  Client = {h1, h2}
  NoClient = NoClient
  Group = Group
  Trie <- MCTrie
  Path <- MCPath
  Op = {"READ", "INFO"}
  CanReset = {}
  MaxOpen = 2
INVARIANTS LocksRequestedNode
CHECK_DEADLOCK FALSE
