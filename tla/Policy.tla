-------------------------------- MODULE Policy --------------------------------
(***************************************************************************)
(* Policy decisions (internal/policy): the rules of a policy file, the     *)
(* presets and the built-in defaults behind them.                          *)
(*                                                                         *)
(* A request is [subject, action, resource, context]; names are in the     *)
(* normal form the code brings them to, and the context, a text, is the    *)
(* set of the patterns of interest that occur in it. A rule of the model   *)
(* stands for the rules of a file that differ in subject and action only;  *)
(* {} and "" stand for a field that is missing or "*". Reasons and the     *)
(* mask are left out.                                                      *)
(***************************************************************************)
EXTENDS Integers, Sequences

Verdicts == {"allow", "deny", "require_approval"}

Models == {"codex", "claude", "chatgpt", "local_llm", "openwebui"}
LocalModels == {"local_llm", "openwebui"}

(* readActions of the preset.                                              *)
PresetReads == {
  "server_list", "read_state", "fleet_status", "capability_list", "monitor_check",
  "fleet_scan", "evidence_list", "evidence_latest", "workflow_list", "workflow_run",
  "policy_check", "policy_show", "doctor", "analyze_logs", "security_check",
  "hygiene_scan_host", "disk_investigate", "data_clean_plan", "provision_plan",
  "job_status", "job_logs", "artifact_collect", "guard_vault_list",
  "guard_vault_metadata"}

(* Actions that the defaults allow whatever the context.                   *)
AllowedActions == {
  "read_state", "server_list", "fleet_status", "capability_list", "evidence_list",
  "evidence_latest", "workflow_list", "guard_vault_list", "guard_vault_metadata",
  "workflow_run", "fleet_scan", "read_logs", "read_only_diagnosis", "disk_investigate",
  "doctor", "security_check", "hygiene_plan", "hygiene_scan_host", "autoheal_plan",
  "service_check", "service_audit", "service_triage", "fleet_service_audit", "job_cancel",
  "autoheal_apply_safe", "provision_plan", "capacity_plan", "documentation_check",
  "signal_message_send", "messenger_send"}

Rule(subjects, actions, resource, context, decision) ==
  [subjects |-> subjects, actions |-> actions, resource |-> resource, context |-> context,
   decision |-> decision]

RevealRule == Rule({}, {"reveal_secret"}, "", "", "deny")

(* devopsPreset, which is also what holds without a file, and strictPreset. *)
Devops == <<
  RevealRule,
  Rule({}, {"run_command"}, "server", "/etc/shadow", "deny"),
  Rule(Models, PresetReads, "", "", "allow"),
  Rule(LocalModels, {}, "", "", "require_approval")>>
Strict == <<RevealRule, Rule({"local_llm"}, {}, "", "", "require_approval")>>

Matches(rule, r) ==
  /\ rule.subjects = {} \/ r.subject \in rule.subjects
  /\ rule.actions = {} \/ r.action \in rule.actions
  /\ rule.resource \in {"", r.resource}
  /\ rule.context = "" \/ rule.context \in r.context

UseOnly == {"provider_token_use", "guard_vault_use"}
SecretAdjacent == {"secret_store", "credential_file"}

(* The defaults (evaluateBuiltIn): what they deny, what they allow, and    *)
(* that all the rest needs approval. Actions they name only to give a      *)
(* reason for that are left out. A resource that has the word secret or    *)
(* credential in it comes before all but the use of a credential.          *)
Denies(r) ==
  \/ "" \in {r.subject, r.action, r.resource}
  \/ /\ r.resource \in {"secret", "secrets"} \/ r.action = "reveal_secret"
     /\ r.action \notin UseOnly
  \/ /\ r.action \in {"run_command", "fleet_exec"} /\ "denied command" \in r.context
     /\ r.resource \notin SecretAdjacent

Allows(r) ==
  /\ r.resource \notin SecretAdjacent
  /\ \/ r.action \in AllowedActions
     \/ r.action \in {"artifact_collect", "job_status", "job_logs"} /\ "secret path" \notin r.context
     \/ r.action \in {"run_command", "fleet_exec"} /\ "mutating" \notin r.context

BuiltIn(r) == IF Denies(r) THEN "deny" ELSE IF Allows(r) THEN "allow" ELSE "require_approval"

(* Evaluate with the rules of a file: the first that matches and says a    *)
(* decision, else the defaults.                                            *)
Evaluate(rules, r) ==
  LET hits == {i \in DOMAIN rules : Matches(rules[i], r) /\ rules[i].decision \in Verdicts}
  IN  IF hits = {} THEN BuiltIn(r)
      ELSE rules[CHOOSE i \in hits : \A j \in hits : i <= j].decision
=============================================================================
