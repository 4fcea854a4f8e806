----------------------------- MODULE MCResumePlan -----------------------------
(***************************************************************************)
(* Small workflows for model checking ResumePlan. "deploy" has two gated   *)
(* steps, "notify" one gated step with the id of deploy's first.           *)
(***************************************************************************)
EXTENDS ResumePlan, TLC

MCWorkflows == {"deploy", "notify"}
MCSteps == {"apply", "verify"}
MCPlan == "deploy" :> <<"apply", "verify">> @@ "notify" :> <<"apply">>

Gated == [approvalRequired |-> TRUE, dependsOn |-> {}, fallbackFor |-> {},
          lane |-> "vssh", command |-> TRUE, vaultHandles |-> FALSE, secretEnv |-> FALSE,
          maxAttempts |-> 0, retryOn |-> Failures]
Handled == [Gated EXCEPT !.approvalRequired = FALSE, !.vaultHandles = TRUE]

(* Both steps gated; one gated, one that needs a vault handle and depends  *)
(* on the first; only "apply" of each workflow.                            *)
GatedDefinition == [w \in MCWorkflows |-> [s \in MCSteps |-> Gated]]
ChainDefinition == [w \in MCWorkflows |->
  "apply" :> Gated @@ "verify" :> [Handled EXCEPT !.dependsOn = {"apply"}]]

OpenPolicy == [g \in MCWorkflows \X MCSteps |-> "allow"]
DenyPolicy == [g \in MCWorkflows \X MCSteps |-> IF g[2] = "apply" THEN "deny" ELSE "allow"]
MCPolicies == {OpenPolicy, DenyPolicy}
MCOpen == {OpenPolicy}

Ask(w, m, ss, ref) == [workflow |-> w, mode |-> m, steps |-> ss, approvals |-> ref]
Whole(w) == {MCPlan[w][i] : i \in DOMAIN MCPlan[w]}

(* Dry runs, with and without the approvals of the latest bundle, and what *)
(* the plans of deploy tell a client to run.                               *)
MCRequests ==
  {Ask(w, "dry-run", Whole(w), NoBundle) : w \in MCWorkflows}
  \union {Ask("deploy", "dry-run", Whole("deploy"), LatestPath),
          Ask("deploy", "execute", Whole("deploy"), LatestPath),
          Ask("notify", "execute", Whole("notify"), LatestPath)}
  \union {Ask("deploy", "execute", {s}, LatestPath) : s \in MCSteps}

DeployRequests == {q \in MCRequests : q.workflow = "deploy"}
==============================================================================
