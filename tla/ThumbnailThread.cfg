SPECIFICATION Spec
CONSTANTS
  Owners = {o1, o2}
  Names = {n1, n2}
  UnsafeNames = {n2}
  None = None
  FailingNames = {n2}
  EarlierImages = {2}
  Pollers = {o1}
  MaxVersion = 1
  MaxClock = 1
  MaxClosed = 1
CHECK_DEADLOCK FALSE
INVARIANTS OwnersOutliveRequests NoLostRequest NamesMatchRequests NoWorkAfterExit
PROPERTIES RequestsComplete AbortReturns
