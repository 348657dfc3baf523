CONSTANTS
  Aliases = {"a", "b"}
  MaxRequestId = 3
  None = None
  Streams = {}
  Scripts <- NoScripts
  Datagrams <- LightDatagrams
  Policies = {"Buffer"}
  MaxBufferedBytes = 3
  MaxDatagramsPerAlias = 2
  MaxPendingStreams = 1
  MaxStash = 3
  MaxObjectId = 3
SPECIFICATION Spec
INVARIANTS StopRemovesRoute
