SPECIFICATION FairSpec
CONSTANTS
  None = None
  t1 = t1
  Agents = {1, 2}
  Tools = {}
  Catalog <- MCCatalog
  Layouts <- MCWalkLayouts
  Initial = "a"
  Edits <- MCWalkEdits
  SavedSeat <- MCSavedSeat
  MatrixFrames = 1
  PhaseFrames <- MCPhases
  MaxSubagents = 0
  MaxEdits = 1
  MaxClicks = 0
  Waiters = {1, 2}
  Hands = {"rock", "paper"}
  MayPlay = TRUE
INVARIANTS
  GamesHaveTwoSides
PROPERTIES
  NobodyWalksThroughWalls
  WorkersType
