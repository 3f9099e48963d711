SPECIFICATION MCSpec
CONSTANTS
  None = None
  Catalog <- MCCatalog
  MAX_COLS = 2
  MAX_ROWS = 1
  DEFAULT_NEUTRAL_COLOR = "grey"
  Loaded <- MCFirst
  Others <- MCOthers
  TurnedBefore = {}
  Tiles = {"floor1"}
  Colors = {"red"}
  Types <- MCTypes
  Tools = {"SELECT", "TILE_PAINT", "WALL_PAINT", "ERASE", "FURNITURE_PLACE", "FURNITURE_PICK", "EYEDROPPER"}
  UNDO_STACK_MAX_SIZE = 2
  MaxChanges = 3
CHECK_DEADLOCK FALSE
INVARIANTS
  NothingUnsaved
  OnlySurfacesOverlap
PROPERTIES
  ImplementsTimeline
