\* Write faults, stops, restarts and crashes at every step; the publisher may hang.
SPECIFICATION LiveSpec
CONSTANTS
  MaxTs = 5
  StoreFaults = TRUE
  Stops = TRUE
  Crashes = TRUE
INVARIANT TypeOK NoLostWakeup PendingIsNewest
PROPERTY DeliveryMovesForward HandedOverIsAttempted AttemptIsResolved StopReturns
CHECK_DEADLOCK FALSE
