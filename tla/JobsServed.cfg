SPECIFICATION FairSpec
CONSTANTS
  idea = idea
  blueprint = blueprint
  p1 = p1
  p2 = p2
  r1 = r1
  r2 = r2
  Roots <- BothKinds
  IdeaRoots <- OneIdea
  Proposals <- NoProposal
  Best = best
  OwnPolicy <- OneSpawn
  DefaultPolicy <- OneSpawn
  Swept <- NoIdea
  MaxDepth = 0
  Requests <- OneThread
  Rank <- BlueprintsFirst
  None = none
  MaxCrashes = 1
PROPERTIES
  ServedInOrder
CHECK_DEADLOCK FALSE
