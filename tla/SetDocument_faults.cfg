SPECIFICATION Spec
CONSTANTS
  Fields = {1}
  Paths = {zip, dir}
  DirPaths = {dir}
  NoPath = NoPath
  None = None
  MaxName = 1
  MaxImage = 1
  Faults = TRUE
  UndoAcrossSave = FALSE
  UnpackToDirectory = TRUE
  MayCrash = TRUE
CHECK_DEADLOCK FALSE
INVARIANTS SavedSurvives
