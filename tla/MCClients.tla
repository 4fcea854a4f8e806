------------------------------ MODULE MCClients -------------------------------
(***************************************************************************)
(* Model checking what the clients of the MCP servers share: the evidence  *)
(* records of the self-heal and the reconcile chain, the policy file, the  *)
(* mission store and, with the commands and the chat, the vault and the    *)
(* watches. None of the six looks at what another writes (the chains take  *)
(* every decision of policy as possible), so that a behaviour in which one *)
(* of them acts is as good as one in which all do.                         *)
(*                                                                         *)
(* Two autoheal plans and two runs of the executor, one record of each     *)
(* other kind: a record contains the one it was made of, so more of a kind *)
(* are so many chains side by side.                                        *)
(***************************************************************************)
EXTENDS HealChain, ReconcileChain, PolicyFile, MissionStore, VaultStore,
        AssistantWatch, TLC

VARIABLE part

MCKinds == HealKinds \union ReconcileKinds
MCMaxOf == [k \in MCKinds |-> IF k \in {"autoheal-plan", "container-executor"} THEN 2 ELSE 1]
ReconcileOnly == [k \in MCKinds |-> IF k \in ReconcileKinds THEN 1 ELSE 0]
Names == Permutations(Operators) \union Permutations(Servers)

clientVars == <<part, healVars, policyVars, missionVars, vaultVars, watchVars>>

ClientsInit ==
  /\ part \in {"heal", "reconcile", "policy", "mission", "vault", "watch"}
  /\ HealInit /\ ReconcileInit /\ PolicyInit /\ MissionInit /\ VaultInit /\ WatchInit

ClientsNext ==
  /\ UNCHANGED part
  /\ \/ part = "heal" /\ HealNext /\ UNCHANGED <<policyVars, missionVars, vaultVars, watchVars>>
     \/ part = "reconcile" /\ ReconcileNext /\ UNCHANGED <<live, policyVars, missionVars, vaultVars, watchVars>>
     \/ part = "policy" /\ PolicyNext /\ UNCHANGED <<healVars, missionVars, vaultVars, watchVars>>
     \/ part = "mission" /\ MissionNext /\ UNCHANGED <<healVars, policyVars, vaultVars, watchVars>>
     \/ part = "vault" /\ VaultNext /\ UNCHANGED <<healVars, policyVars, missionVars, watchVars>>
     \/ part = "watch" /\ WatchNext /\ UNCHANGED <<healVars, policyVars, missionVars, vaultVars>>

ClientsSpec == ClientsInit /\ [][ClientsNext]_clientVars
-----------------------------------------------------------------------------
(* Desired and actual nodes *)

Bare == [desired |-> "", image |-> "", health |-> "", restart |-> ""]
AnyNode == [role |-> FALSE, service |-> "", container |-> Bare]

(* Every combination for the container, whose state or image is given,     *)
(* with words the comparison knows; every such word for the service; and a *)
(* node with both.                                                         *)
DesiredContainers ==
  {c \in [desired : {"", "running", "stopped", "present", "absent"}, image : {"", "v1"},
          health : {"", "healthy"}, restart : {"", "always"}] :
     /\ c.desired # "" \/ c.image # ""
     /\ c.desired = "absent" => c = [Bare EXCEPT !.desired = "absent"]}
Both == [role |-> TRUE, service |-> "running",
         container |-> [Bare EXCEPT !.desired = "running", !.health = "healthy"]]
MCDesires ==
  {[AnyNode EXCEPT !.container = c] : c \in DesiredContainers}
  \union {[AnyNode EXCEPT !.service = s, !.role = TRUE] :
            s \in {"running", "active", "stopped", "inactive"}}
  \union {Both}

Gone == [state |-> "", image |-> "", health |-> "", restart |-> ""]
Well == [state |-> "running", image |-> "v1", health |-> "healthy", restart |-> "always"]
Node == [online |-> TRUE, role |-> TRUE, service |-> "active", container |-> Well,
         diskLow |-> FALSE, memoryHigh |-> FALSE]
ActualContainers ==
  [state : {"running", "exited"}, image : {"v1", "v2"}, health : {"none", "healthy", "unhealthy"},
   restart : {"always", "no"}]
  \union {[Well EXCEPT !.state = s] : s \in DockerStates}
  \union {[Well EXCEPT !.state = s, !.health = "", !.restart = ""] : s \in {"running", "dead"}}
  \union {[Well EXCEPT !.restart = ""], [Well EXCEPT !.restart = "", !.health = "unhealthy"]}
MCActuals ==
  {[Node EXCEPT !.container = c] : c \in ActualContainers \union {Gone}}
  \union {[Node EXCEPT !.service = s, !.role = r] :
            s \in {"active", "inactive", "failed", "missing"}, r \in BOOLEAN}
  \union {[Node EXCEPT !.online = FALSE], [Node EXCEPT !.diskLow = TRUE],
          [Node EXCEPT !.memoryHigh = TRUE, !.service = "inactive"],
          [Node EXCEPT !.service = "inactive", !.container.health = "unhealthy"]}

ASSUME MCExact == (\A d \in MCDesires : WellWorded(d)) /\ (\A a \in MCActuals : Observed(a))

(* What the reconciler is told of each action (annotateReconcileResult-    *)
(* Policy) with some policies in the file. The words of a summary match no *)
(* pattern of theirs.                                                      *)
RulesOf(policy) == [n \in {x.does : x \in Drifts} |->
  Evaluate(policy, [subject |-> "meshclaw_reconciler", action |-> n, context |-> {},
                    resource |-> IF n = "plan_only" THEN "reconcile_plan" ELSE "server"])]

(* Container restarts are denied and the rest passes.                      *)
NoRestarts == <<Rule({}, {"container_restart"}, "", "", "deny"), Rule({}, {}, "", "", "allow")>>
MCRules == {RulesOf(Devops), RulesOf(NoRestarts)}

(* The example of docs/RECONCILIATION_CONTROLLER.md (109-124).             *)
Example == [role |-> TRUE, service |-> "running",
            container |-> [desired |-> "running", image |-> "v1", health |-> "healthy",
                           restart |-> "approval_required"]]
DocumentedDesires == {Example}
-----------------------------------------------------------------------------
(* Policies; the last one, of the size of the preset, has a first rule     *)
(* that says nothing valid.                                                *)

NoScans == <<Rule({}, {"container_restart"}, "", "", "never"),
             Rule({}, {"container_restart"}, "", "", "deny"),
             Rule({"codex"}, {"fleet_scan"}, "server", "", "deny")>>
MCPolicies == {Devops, Strict, NoScans}
MCSizeOf == Devops :> 2 @@ Strict :> 1 @@ NoScans :> 2

Question(subject, action, context) ==
  [subject |-> subject, action |-> action, resource |-> "server", context |-> context]
MCQuestions ==
  {Question("codex", "fleet_scan", {}), Question("local_llm", "service_check", {}),
   Question("codex", "run_command", {"/etc/shadow"}), Question("codex", "container_restart", {})}
=============================================================================
