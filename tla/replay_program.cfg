SPECIFICATION ProgramSpec
CONSTANTS
  Locates = {7, 8}
  Wanted = 7
  ByteMod = 4
  WireLength <- Lengths
  Tapes <- MCTapes
  kLinearMax = 6
  kLogBuckets = 4
  Durations = {0, 5, 6, 17}
  Percentiles <- SummaryPercentiles
INVARIANTS
  DispatchExact
  PercentilesExact
  CsvExact
  CountersExact
  NothingLeaks
PROPERTIES
  ProgramEnds
CHECK_DEADLOCK FALSE
