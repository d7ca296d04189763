\* The server is restarted with the other verifier mode over the same store file.
SPECIFICATION Spec
CONSTANTS
  MaxId = 1
  TTL = 1
  MaxTime = 1
  Digests = {d1}
  Hashes = {h1}
  None = None
  Modes = {"mock", "facilitator"}
  Requests = {r1}
  Jobs = {j1}
  StoreMayFail = FALSE
INVARIANTS
  StoreAlwaysLoads
