SPECIFICATION FairSpec
CONSTANTS
  i1 = i1
  i2 = i2
  i3 = i3
  NoItem = NoItem
  Items <- MCItems
  Priority <- MCPriority
  Getters = {g1, g2}
  Capacity = 2
  Clears = TRUE
INVARIANTS NoStrandedItem OneOwner
PROPERTIES Refines
