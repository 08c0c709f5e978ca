SPECIFICATION FairFlow
CONSTANTS
  Pages = 4
  MaxInFlight = 2
CHECK_DEADLOCK FALSE
INVARIANTS SavesWholeScan EndIsTrue
PROPERTIES CancelObeyed FlowEnds
