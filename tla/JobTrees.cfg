SPECIFICATION Spec
CONSTANTS
  idea = idea
  blueprint = blueprint
  p1 = p1
  p2 = p2
  r1 = r1
  r2 = r2
  Roots <- OneIdea
  IdeaRoots <- OneIdea
  Proposals <- OneProposal
  Best = best
  OwnPolicy <- Deeper
  DefaultPolicy <- OneSpawn
  Swept <- NotBest
  MaxDepth = 2
  Requests <- OneThread
  Rank <- BlueprintsFirst
  None = none
  MaxCrashes = 1
INVARIANTS
  ChildrenAreEarned
PROPERTIES
  ImplementsJobTree
CHECK_DEADLOCK FALSE
