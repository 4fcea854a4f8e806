CONSTANTS
  Runners = {r1, r2}
  Approvers = {a1}
  Workflows <- MCWorkflows
  Steps <- TwinSteps
  Plan <- TwinPlan
  Definition <- TwinDefinition
  Policies <- TwinPolicies
  Vaults = {TRUE}
  Outcomes = {"ok", "transient"}
  Requests <- TwinRequests
  MaxBundles = 2
  None = None
SPECIFICATION FairSpec
INVARIANTS IInv
PROPERTIES EvidenceKept ImplementsGate EveryRunEnds
CHECK_DEADLOCK FALSE
