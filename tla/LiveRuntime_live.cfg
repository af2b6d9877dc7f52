\* A clock that is never stepped, crashes, and writes that succeed (a failing one may end the loop).
SPECIFICATION LiveSpec
CONSTANTS
  Identity = {a, b}
  NoIdentity = NoIdentity
  Interval = 2
  Grace = 1
  MaxAttempts = 2
  StartTime = 4
  MaxTime = 13
  MaxSkew = 0
  StoreFaults = FALSE
  Crashes = TRUE
INVARIANT HistoryHoldsLatest OnlySettledBars
PROPERTY TickComesBack LoopKeepsGoing
CHECK_DEADLOCK FALSE
