SPECIFICATION Spec
CONSTANTS
  OrderIds = {a, b, c, d}
  kInvalidOrderId = 0
  BasePrice = 0
  NumLevels = 3
  MaxOrders = 3
  QuantityMod = 16
  Quantities = {1, 2}
  Types = {"Limit", "Market"}
  Tifs = {"GTC"}
  Ids = {a, b, c, d}
  Values = {1, 2, 3}
  Maps <- Dictionaries
  EmptyMap <- Empty
  MapFind <- DictFind
  MapInsert <- DictInsert
  MapErase <- DictErase
SYMMETRY IdSymmetry
PROPERTIES
  TradesWalkAway
  QueueOrderKept
CHECK_DEADLOCK FALSE
