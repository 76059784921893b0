SPECIFICATION Spec
CONSTANTS
  OrderIds = {a, b, c, d}
  kInvalidOrderId = 0
  BasePrice = 1
  NumLevels = 2
  MaxOrders = 3
  QuantityMod = 4
  Quantities = {0, 1, 2}
  Types = {"Limit", "Market"}
  Tifs = {"GTC", "IOC", "FOK", "PostOnly"}
  Ids = {a, b, c, d}
  Values = {1, 2, 3}
  Maps <- Dictionaries
  EmptyMap <- Empty
  MapFind <- DictFind
  MapInsert <- DictInsert
  MapErase <- DictErase
SYMMETRY IdSymmetry
INVARIANTS
  TypeOK
  BestIsExtremal
  LevelsShadowQueues
  TotalsShadowQueues
  BookIntegrity
  NotCrossed
  FokPreCheckExact
  SnapshotExact
  FokAllOrNone
  AbortsBeforeTrading
CHECK_DEADLOCK FALSE
