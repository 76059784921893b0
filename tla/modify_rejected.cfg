SPECIFICATION Spec
CONSTANTS
  OrderIds = {a, b}
  kInvalidOrderId = 0
  BasePrice = 1
  NumLevels = 2
  MaxOrders = 3
  QuantityMod = 16
  Quantities = {0, 1, 2}
  Types = {"Limit", "Market"}
  Tifs = {"GTC", "IOC", "FOK", "PostOnly"}
  Ids = {a, b}
  Values = {1, 2, 3}
  Maps <- Dictionaries
  EmptyMap <- Empty
  MapFind <- DictFind
  MapInsert <- DictInsert
  MapErase <- DictErase
INVARIANTS
  RejectedBeforeSideEffects
CHECK_DEADLOCK FALSE
