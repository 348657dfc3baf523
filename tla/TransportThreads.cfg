SPECIFICATION Spec
CONSTANTS
  Streams = {s1, s2, s3}
  NoStream = NoStream
INVARIANT UsedWhileOpen
