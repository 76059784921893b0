SPECIFICATION Spec
CONSTANTS
  Capacity = 4
  CounterMod = 8
  Items = 12
INVARIANTS
  NoDataRace
  SizeApproxInRange
  RefusalsExact
PROPERTIES
  ImplementsBoundedFifo
  EveryItemArrives
