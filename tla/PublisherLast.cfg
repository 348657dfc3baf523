CONSTANTS
  Tracks <- OneTrack
  Objects <- LastDatagram
  PeerIds = {1}
  MaxId = 3
  MaxPublished = 1
  None = None
  Options <- PlainOptions
  MaxSubscriptions = 2
  MaxPending = 3
  LongReasons = FALSE
SPECIFICATION Spec
INVARIANT DatagramsSignalGroupEnd
