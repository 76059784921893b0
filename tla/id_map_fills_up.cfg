SPECIFICATION SessionSpec
CONSTANTS
  Ids = {1, 2, 3, 4, 5, 6, 7, 8, 9, 10, 11, 12, 13, 14}
  Values = {21, 22, 23, 24}
  Capacity = 8
  Ideal <- SplitMix
  LastId = 14
INVARIANTS
  SearchesEnd
VIEW IdsOnly
