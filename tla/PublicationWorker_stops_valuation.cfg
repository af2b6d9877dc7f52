\* A write fault while a blocked publication is recorded.
SPECIFICATION Spec
CONSTANTS
  MaxTs = 3
  StoreFaults = TRUE
  Stops = FALSE
  Crashes = FALSE
INVARIANT DeliveryNeverStopsValuation
CHECK_DEADLOCK FALSE
