CONSTANTS
  Runners = {r1}
  Approvers = {a1}
  Workflows <- MCWorkflows
  Steps <- MCSteps
  Plan <- MCPlan
  Definition <- ChainDefinition
  Policies <- MCOpen
  Vaults = {TRUE, FALSE}
  Outcomes = {"ok"}
  Requests <- MCRequests
  MaxBundles = 2
  None = None
SPECIFICATION PlanSpec
INVARIANTS ReadyPlanKeepsItsWord
CHECK_DEADLOCK FALSE
