\* A payment the facilitator rejected is presented again.
SPECIFICATION Spec
CONSTANTS
  MaxId = 1
  TTL = 1
  MaxTime = 1
  Digests = {d1}
  Hashes = {h1}
  None = None
  Modes = {"facilitator"}
  Requests = {r1}
  Jobs = {j1}
  StoreMayFail = FALSE
INVARIANTS
  RejectedStaysRejected
