CONSTANTS
  Tracks <- SlashTracks
  Objects <- NoObjects
  PeerIds = {1}
  MaxId = 3
  MaxPublished = 0
  None = None
  Options <- PlainOptions
  MaxSubscriptions = 2
  MaxPending = 3
  LongReasons = FALSE
SPECIFICATION Spec
INVARIANT EveryNamespaceAnnounced
