\* Mock mode: two concurrent requests, two challenges.
SPECIFICATION Spec
CONSTANTS
  MaxId = 2
  TTL = 1
  MaxTime = 2
  Digests = {d1}
  Hashes = {h1}
  None = None
  Modes = {"mock"}
  Requests = {r1, r2}
  Jobs = {j1}
  StoreMayFail = TRUE
SYMMETRY Symmetry
INVARIANTS
  GrantedOnce
