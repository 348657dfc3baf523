CONSTANTS
  Aliases = {"a", "b"}
  MaxRequestId = 7
  None = None
  Streams = {s1}
  Scripts <- StreamScripts
  Datagrams <- PlainDatagrams
  Policies = {"Buffer", "Drop", "Error"}
  MaxBufferedBytes = 3
  MaxDatagramsPerAlias = 2
  MaxPendingStreams = 1
  MaxStash = 3
  MaxObjectId = 3
SPECIFICATION FocusedSpec
INVARIANTS FuturesAccounted ClosingEndsAll RouteOwnership NothingKeptForRouted BudgetsExact TrackEndHonoured PolicyHonoured
PROPERTIES  UpdatesInOrder CallbackEnds
