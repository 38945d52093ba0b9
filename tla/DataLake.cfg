SPECIFICATION Spec
CONSTANTS
  Symbols <- TwoSymbols
  Days <- TwoDays
  Batches <- SomeBatches
  Latency = 1
  Queries <- SomeQueries
  Missing = Missing
  NoFile = NoFile
  Torn = Torn
  MaxIngests = 3
INVARIANTS
  TypeOK
  NoLookahead
  IntegrityMeansWhole
  FinishedMeansIntact
CHECK_DEADLOCK FALSE
