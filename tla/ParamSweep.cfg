SPECIFICATION FairSpec
CONSTANTS
  p1 = p1
  p2 = p2
  p3 = p3
  Points <- ThreePoints
  Combos <- GridWithRepeat
  Outcomes <- SomeOutcomes
  Knobs <- SomeKnobs
  Earlier <- OnePoint
  NoMetric = NoMetric
  TopLength = 2
  MaxCrashes = 1
INVARIANTS
  TypeOK
  GridOrder
  WithinBudget
  NoFalsePass
  BestIsBest
  StopsWhenBarren
PROPERTIES
  LeaderboardIsFinal
  SweepEnds
CHECK_DEADLOCK FALSE
