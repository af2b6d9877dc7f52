\* The underlying of live.py against the panel's.
SPECIFICATION Spec
CONSTANTS
  Interval = 2
  MaxReferenceAge = 2
  Detector <- MCDetector
  Capability <- MCCapability
  Regular <- MCRegular
  LiveLookback = 4
  MaxUnderlyingAge = 2
  Start = 2
  End = 6
  PanelLookback = 6
  PageSize = 2
  MaxRetries = 1
  Sources <- MCSources
  Requests <- MCRequests
  GivenRow <- MCRow
  MaxRows = 3
  Judgements <- MCJudgements
INVARIANT LiveAgreesWithPanel
CHECK_DEADLOCK FALSE
