CONSTANTS
  Tracks <- OneTrack
  Objects <- StreamObjects
  PeerIds = {1, 3}
  MaxId = 3
  MaxPublished = 2
  None = None
  Options <- PlainOptions
  MaxSubscriptions = 2
  MaxPending = 3
  LongReasons = FALSE
SPECIFICATION Spec
INVARIANTS TablesAgree ClosingEndsAll NoStreamLeaks DoneIsComplete ObjectIdsRecovered StreamsSignalGroupEnd
PROPERTY EndedIsFinal
