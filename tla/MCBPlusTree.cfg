SPECIFICATION BPlusTreeSpec
CONSTANTS
  Keys = {1, 2, 3, 4, 5, 6}
  Rids = {1, 2}
  Orders = {2, 3, 4}
  MaxNodes = 10
INVARIANTS
  BTTypeOK
  DescentFindsLeaf
  ChainAscends
  TreeShaped
  LookupsExact
PROPERTY ImplementsEntryIndex
VIEW TreeView
