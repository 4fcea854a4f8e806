-------------------------- MODULE MCWorkflowRuntime --------------------------
(***************************************************************************)
(* Small workflows for model checking WorkflowRuntime. "deploy" has a      *)
(* retried check that reads secrets, an approval-gated step that depends   *)
(* on it and a fallback for that step; "notify" has a step with the same   *)
(* id as deploy's gated one, gated by policy only.                         *)
(***************************************************************************)
EXTENDS WorkflowRuntime, TLC

MCWorkflows == {"deploy", "notify"}
MCSteps == {"check", "apply", "undo"}

MCPlan == "deploy" :> <<"check", "apply", "undo">> @@ "notify" :> <<"apply">>

Plain == [approvalRequired |-> FALSE, dependsOn |-> {}, fallbackFor |-> {},
          lane |-> "vssh", command |-> TRUE, vaultHandles |-> FALSE, secretEnv |-> FALSE,
          maxAttempts |-> 0, retryOn |-> Failures]

MCDefinition ==
  "deploy" :> ("check" :> [Plain EXCEPT !.lane = "local", !.secretEnv = TRUE, !.maxAttempts = 2]
            @@ "apply" :> [Plain EXCEPT !.approvalRequired = TRUE, !.dependsOn = {"check"}]
            @@ "undo"  :> [Plain EXCEPT !.fallbackFor = {"apply"}])
  @@ "notify" :> [s \in MCSteps |-> Plain]

(* Policies that differ from "allow" for some gates.                       *)
PolicyWith(f) == [g \in MCWorkflows \X MCSteps |-> IF g \in DOMAIN f THEN f[g] ELSE "allow"]
DeployGate == <<"deploy", "apply">>

MCPolicies == {PolicyWith(<<>>), PolicyWith(DeployGate :> "deny")}

Ask(w, m, ss, ref) == [workflow |-> w, mode |-> m, steps |-> ss, approvals |-> ref]
Whole(w) == {MCPlan[w][i] : i \in DOMAIN MCPlan[w]}

MCRequests == {
  Ask("deploy", "dry-run", Whole("deploy"), NoBundle),
  Ask("deploy", "execute", Whole("deploy"), LatestPath),
  Ask("deploy", "execute", {"apply"}, LatestPath)}

(* Two one-step workflows, for runs with more processes; the step that is  *)
(* executed reads secrets, which may fail, and is retried.                 *)
TwinSteps == {"apply"}
TwinPlan == [w \in MCWorkflows |-> <<"apply">>]
TwinDefinition == [w \in MCWorkflows |-> [s \in TwinSteps |->
                    IF w = "deploy" THEN [Plain EXCEPT !.approvalRequired = TRUE]
                    ELSE [Plain EXCEPT !.lane = "local", !.secretEnv = TRUE,
                                       !.maxAttempts = 2]]]
TwinPolicies == {[g \in MCWorkflows \X TwinSteps |-> "require_approval"]}
OpenPolicies == {[g \in MCWorkflows \X TwinSteps |-> "allow"]}
TwinRequests ==
  {Ask(w, "dry-run", TwinSteps, NoBundle) : w \in MCWorkflows}
  \union {Ask("notify", "execute", TwinSteps, LatestPath)}

Processes == Permutations(Runners) \union Permutations(Approvers)
==============================================================================
