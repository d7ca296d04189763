\* Two challenges and one payment; the restoring rename never fails.
SPECIFICATION Spec
CONSTANTS
  MaxId = 2
  TTL = 1
  MaxTime = 1
  Digests = {d1}
  Hashes = {h1}
  None = None
  NoFile = NoFile
  Torn = Torn
  RestoreMayFail = FALSE
INVARIANTS
  TypeOK
  MemoryIsStored
PROPERTIES
  ReplayProtectionSurvives
  ImplementsAtomicStore
