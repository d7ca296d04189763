\* Every input of MCZkEvaluation, evaluated, encoded, decoded and compared with the others.
SPECIFICATION Spec
CONSTANTS
  Plans <- MCPlans
  Policies <- MCPolicies
  EvaluatorImage = "image"
  Owner = "owner"
  InitialPolicy = "none"
  Nonce = 1
  None = None
INVARIANTS
  TighteningNeverPermits
  PermittedIsWithinPolicy
  HashesBindDecision
  OneHashPerPlan
  OneEncodingPerJournal
  PublishedArtifactPasses
  VerifiersAgree
CHECK_DEADLOCK FALSE
