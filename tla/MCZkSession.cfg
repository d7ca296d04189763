\* Two sessions in contention; one that changes its settings; the modes.
SPECIFICATION Spec
CONSTANTS
  approved = approved
  requires_approval = requires_approval
  unauthorized = unauthorized
  unproven = unproven
  s1 = s1
  s2 = s2
  mover = mover
  plain = plain
  remote = remote
  main = main
  other = other
  foreign = foreign
  nowhere = nowhere
  owner = owner
  None = None
  Owner = owner
  EvaluatorImage = "image"
  InitialPolicy <- MCInitialPolicy
  Sessions = {s1, s2, mover, plain, remote}
  Artifacts = {approved, requires_approval, unauthorized, unproven}
  Artifact <- MCArtifact
  Bundled = {approved, requires_approval}
  Deployments = {main, other, foreign, nowhere}
  Guardrail = main
  Testnet = {main, foreign}
  Foreign = {foreign}
  Policies <- MCOnePolicy
  Source <- MCSource
  Contracts <- MCContracts
  Files <- MCFiles
  Starts <- MCStarts
  Flow = {s1, s2, mover, remote}
  Remote = {remote}
  MaxTx = 3
INVARIANTS
  ConsumedByOneSession
  ResultBelongsToInspection
  ReportedConsumeIsStored
  TransactionsArePermitted
PROPERTIES
  ImplementsOneTimeUse
SYMMETRY Symmetry
