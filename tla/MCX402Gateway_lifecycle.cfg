\* Facilitator mode: two challenges; what is stored follows the life cycle.
SPECIFICATION Spec
CONSTANTS
  MaxId = 2
  TTL = 1
  MaxTime = 1
  Digests = {d1}
  Hashes = {h1}
  None = None
  Modes = {"facilitator"}
  Requests = {r1}
  Jobs = {j1}
  StoreMayFail = TRUE
SYMMETRY Symmetry
INVARIANTS
  StoreAlwaysLoads
PROPERTIES
  ImplementsLifecycle
