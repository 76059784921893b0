SPECIFICATION Spec
CONSTANTS
  OrderIds = {a, b, c}
  kInvalidOrderId = 0
  BasePrice = 1
  NumLevels = 3
  MaxOrders = 2
  QuantityMod = 16
  Quantities = {0, 1, 2}
  Types = {"Limit", "Market"}
  Tifs = {"GTC", "IOC", "FOK", "PostOnly"}
  Ids = {a, b, c}
  Values = {1, 2}
  Maps <- Dictionaries
  EmptyMap <- Empty
  MapFind <- DictFind
  MapInsert <- DictInsert
  MapErase <- DictErase
SYMMETRY IdSymmetry
PROPERTIES
  ImplementsPriceTimeBook
CHECK_DEADLOCK FALSE
