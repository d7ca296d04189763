\* Facilitator mode: two requests, two settlement jobs and two payments compete for one challenge.
SPECIFICATION Spec
CONSTANTS
  MaxId = 1
  TTL = 1
  MaxTime = 2
  Digests = {d1, d2}
  Hashes = {h1}
  None = None
  Modes = {"facilitator"}
  Requests = {r1, r2}
  Jobs = {j1, j2}
  StoreMayFail = TRUE
SYMMETRY Symmetry
INVARIANTS
  TypeOK
  SingleDispatch
  ExecutedStaysBlocked
  SettledWasExecuted
PROPERTIES
  RecordedWhileOpen
