SPECIFICATION Spec
CONSTANTS
  Ids = {2, 9, 19, 33}
  Values = {s1, s2, s3, s4}
  Capacity = 8
  Ideal <- SplitMix
INVARIANTS
  LinearProbing
  HoldsLiveOrders
PROPERTIES
  ImplementsDictionary
SYMMETRY SlotSymmetry
