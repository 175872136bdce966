SPECIFICATION ChoiceSpec
CONSTANTS
  Owners = {o1, o2}
  Names = {n1}
  UnsafeNames = {}
  FailingNames = {}
  None = None
  Pollers = {o1, o2}
  EarlierImages = {1, 4}
  LocalVersions = {2}
  MaxVersion = 3
  MaxClock = 3
  MaxClosed = 2
  ChangeWhilePending = FALSE
  CloseWhilePending = FALSE
  FastChanges = FALSE
CHECK_DEADLOCK FALSE
INVARIANTS OkMeansUpToDate
