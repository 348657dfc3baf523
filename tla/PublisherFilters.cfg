CONSTANTS
  Tracks <- SharedTracks
  Objects <- FilterObjects
  PeerIds = {1, 3, 4}
  MaxId = 2
  MaxPublished = 2
  None = None
  Options <- FilterOptions
  MaxSubscriptions = 1
  MaxPending = 3
  LongReasons = TRUE
SPECIFICATION Spec
CONSTRAINT Calm
INVARIANTS RepliesInOrder RangesAreOpen NoOrphanNamespace EveryNamespaceAnnounced
