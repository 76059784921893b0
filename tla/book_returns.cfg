SPECIFICATION FairSpec
CONSTANTS
  OrderIds = {a, b, c}
  kInvalidOrderId = 0
  BasePrice = 0
  NumLevels = 3
  MaxOrders = 2
  QuantityMod = 16
  Quantities = {1, 2}
  Types = {"Limit", "Market"}
  Tifs = {"Day", "IOC"}
  Ids = {a, b, c}
  Values = {1, 2}
  Maps <- Dictionaries
  EmptyMap <- Empty
  MapFind <- DictFind
  MapInsert <- DictInsert
  MapErase <- DictErase
PROPERTIES
  CallsReturn
CHECK_DEADLOCK FALSE
