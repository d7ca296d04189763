\* Facilitator mode under fairness, with a working file system and any number of crashes.
SPECIFICATION FairSpec
CONSTANTS
  MaxId = 1
  TTL = 1
  MaxTime = 1
  Digests = {d1, d2}
  Hashes = {h1}
  None = None
  Modes = {"facilitator"}
  Requests = {r1}
  Jobs = {j1}
  StoreMayFail = FALSE
PROPERTIES
  MutexReleased
  StartedSettlementEnds
