SPECIFICATION ReplaySpec
CONSTANTS
  OrderIds = {1, 2, 3}
  kInvalidOrderId = 0
  BasePrice = 1
  NumLevels = 2
  MaxOrders = 2
  QuantityMod = 16
  Quantities = {2}
  Types = {"Limit"}
  Tifs = {"GTC"}
  Ids = {1, 2, 3}
  Values = {1, 2}
  Capacity = 4
  Ideal <- CollidingIds
  Maps <- Tables
  EmptyMap <- NewTable
  MapFind <- HashFind
  MapInsert <- HashInsert
  MapErase <- HashErase
  Locates = {7, 8}
  Wanted = 7
  WirePrices = {2, 4, 6}
  itch_tick = 2
  MaxListed = 2
INVARIANTS
  MirrorsExchange
  NeverMatches
  NeverRunsOut
