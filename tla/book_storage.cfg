SPECIFICATION Spec
CONSTANTS
  NumLevels = 5
  NumSlots = 3
  WordBits = 2
INVARIANTS
  ListsReadBothWays
  SearchesExact
  OpenOrdersExact
PROPERTIES
  ImplementsLevelQueues
