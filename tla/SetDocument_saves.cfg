SPECIFICATION Spec
CONSTANTS
  Fields = {1, 2}
  Paths = {zip, zip2, dir}
  DirPaths = {dir}
  NoPath = NoPath
  None = None
  MaxName = 2
  MaxImage = 2
  Faults = FALSE
  UndoAcrossSave = FALSE
  UnpackToDirectory = FALSE
  MayCrash = FALSE
SYMMETRY Symmetry
CHECK_DEADLOCK FALSE
INVARIANTS ImagesIntact CleanMeansSaved ClosedMeansSaved
