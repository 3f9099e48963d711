SPECIFICATION Spec
CONSTANTS
  None = None
  t1 = t1
  Agents = {1, 2}
  Tools = {t1}
  Catalog <- MCCatalog
  Layouts <- MCSeatLayouts
  Initial = "a"
  Edits <- MCSeatEdits
  SavedSeat <- MCSavedSeat
  MatrixFrames = 1
  PhaseFrames <- MCPhases
  MaxSubagents = 2
  MaxEdits = 2
  MaxClicks = 2
  Waiters = {}
  Hands = {"rock", "paper"}
  MayPlay = FALSE
INVARIANTS
  SeatsAgree
  HelpersTracked
  AgentsShown
