CONSTANTS
  Runners = {r1}
  Approvers = {a1}
  Workflows <- MCWorkflows
  Steps <- MCSteps
  Plan <- MCPlan
  Definition <- GatedDefinition
  Policies <- MCPolicies
  Vaults = {TRUE}
  Outcomes = {"ok", "degraded"}
  Requests <- DeployRequests
  MaxBundles = 2
  None = None
SPECIFICATION PlanSpec
INVARIANTS PlanTypeOK PlansOnlyImprove ApprovedStepsProceed
CHECK_DEADLOCK FALSE
