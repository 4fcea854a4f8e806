CONSTANTS
  Runners = {r1}
  Approvers = {a1}
  Workflows <- MCWorkflows
  Steps <- MCSteps
  Plan <- MCPlan
  Definition <- MCDefinition
  Policies <- MCPolicies
  Vaults = {TRUE, FALSE}
  Outcomes = {"ok", "transient", "permanent", "held"}
  Requests <- MCRequests
  MaxBundles = 2
  None = None
SPECIFICATION Spec
INVARIANTS TypeOK PerformedNeedsGrant PerformedOnlyWhenDue Provenance
CHECK_DEADLOCK FALSE
