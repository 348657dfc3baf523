CONSTANTS
  Aliases = {"a"}
  MaxRequestId = 5
  None = None
  Streams = {s1, s2}
  Scripts <- MarkedScripts
  Datagrams <- NoDatagrams
  Policies = {"Buffer"}
  MaxBufferedBytes = 3
  MaxDatagramsPerAlias = 2
  MaxPendingStreams = 1
  MaxStash = 3
  MaxObjectId = 3
SPECIFICATION MixedSpec
INVARIANTS WaitingIsListed BudgetsExact NothingStuck AtMostOneLate
 
SYMMETRY Symmetry
