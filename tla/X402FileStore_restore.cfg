\* As X402FileStore.cfg, but the restoring rename may fail as well.
SPECIFICATION Spec
CONSTANTS
  MaxId = 2
  TTL = 1
  MaxTime = 1
  Digests = {d1}
  Hashes = {h1}
  None = None
  NoFile = NoFile
  Torn = Torn
  RestoreMayFail = TRUE
PROPERTY
  FinalizedStayBlocked
