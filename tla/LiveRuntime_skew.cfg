\* The wall clock may be stepped one interval either way; writes may fail; two bindings.
SPECIFICATION Spec
CONSTANTS
  Identity = {a, b}
  NoIdentity = NoIdentity
  Interval = 2
  Grace = 1
  MaxAttempts = 2
  StartTime = 4
  MaxTime = 11
  MaxSkew = 2
  StoreFaults = TRUE
  Crashes = TRUE
INVARIANT TypeOK GenerationBindsState NoForeignPrior StepsMatchElapsedTime LatestBarIsRecorded
PROPERTY StateNeverRollsBack AuditTrailKept
CHECK_DEADLOCK FALSE
