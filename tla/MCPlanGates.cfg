\* Payments and contract calls, with the policy files edited once.
CONSTANTS
  None = None
  MaxEdits = 1
  Padded <- MCPadded
  Cases <- MCCases
  Environments <- MCEnvironments
  FileSets <- MCFileSets
SPECIFICATION Spec
CHECK_DEADLOCK FALSE
INVARIANTS
  PassedPlansStayInLists
  PassedCallsHavePolicies
  ApiPlansPassEverywhere
  McpNoLaxerThanApi
  TypedSlotsHold
  LowConfidenceIsFinal
  LintedTemplatesFit
