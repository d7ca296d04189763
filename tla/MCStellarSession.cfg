\* Every way to call the program, with a transaction of another holder at any moment.
CONSTANTS
  MaxOthers = 1
  MaxBlocks = 4
  Invocations <- MCInvocations
  Environments <- MCEnvironments
  Files <- MCFiles
  Scripts <- MCScripts
  Blocks <- MCBlocks
  Understood <- MCUnderstood
  ChallengeIds <- MCChallengeIds
SPECIFICATION Spec
CHECK_DEADLOCK FALSE
INVARIANTS
  NothingSentUnjudged
  SentOnceInOrder
  HashesAreTraceable
  OkWasSent
  ChallengePaidOnce
  BranchesRunAlone
  EndpointsFollowNetwork
