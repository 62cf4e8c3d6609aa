SPECIFICATION Spec
CONSTANTS
  Customers = {"c1", "c2"}
  Attempts = 2
  MaxFaults = 2
  MaxStarts = 3
  MaxSignals = 1
INVARIANTS AsksOnlyPermittedMoves AccountsOnlyOnceApproved DetailsComeWithTheirMove
PROPERTIES ImplementsLifecycle ExecutionsSettle
CHECK_DEADLOCK FALSE
