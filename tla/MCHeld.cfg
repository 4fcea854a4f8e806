CONSTANTS
  Runners = {r1}
  Approvers = {}
  Workflows <- MCWorkflows
  Steps <- TwinSteps
  Plan <- TwinPlan
  Definition <- TwinDefinition
  Policies <- OpenPolicies
  Vaults = {TRUE}
  Outcomes = {"ok", "held"}
  Requests <- TwinRequests
  MaxBundles = 2
  None = None
SPECIFICATION FairSpec
PROPERTIES EveryRunEnds
CHECK_DEADLOCK FALSE
