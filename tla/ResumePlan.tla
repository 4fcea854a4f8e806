------------------------------ MODULE ResumePlan ------------------------------
(***************************************************************************)
(* Resume and PlanExecute (internal/runtimeflow) composed with the runtime *)
(* whose bundles they read: a client plans from a recorded bundle and then *)
(* runs what the plan told it to run, while other runs and approvals go on.*)
(*                                                                         *)
(* A plan reads a bundle's two files once both are there; its result never *)
(* changes afterwards (EvidenceKept), so the two reads are one step. A     *)
(* plan asked for while the `latest` link is missing is an error and not   *)
(* modelled. The capability registry, which can only make a plan not       *)
(* ready, is taken to be valid.                                            *)
(***************************************************************************)
EXTENDS WorkflowRuntime

(* The commands of plans are among the runs that clients ask for.          *)
CommandRequest(w, ss) ==
  [workflow |-> w, mode |-> "execute", steps |-> ss, approvals |-> LatestPath]
Selectable(w) == {Plan[w][i] : i \in DOMAIN Plan[w]}

ASSUME CommandsAssumption ==
  \A q \in Requests :
    /\ CommandRequest(q.workflow, Selectable(q.workflow)) \in Requests
    /\ \A s \in Selectable(q.workflow) : CommandRequest(q.workflow, {s}) \in Requests

VARIABLES
  plan,      \* the last ExecutePlan a client got, NoPlan before
  following  \* [Runners -> the plan whose command the run came from]

planVars == <<plan, following>>
allVars == <<vars, planVars>>

NoPlan == [bundle |-> NoBundle]

ItemStatuses == {"retryable_failed", "vault_missing", "failed", "approved_ready",
                 "approval_pending", "ready_for_execute", "degraded_repair", "none"}
Blockers == {"retryable_failed", "vault_missing", "failed", "approval_pending",
             "degraded_repair"}
ReadyItems == {"approved_ready", "ready_for_execute"}

Plans == [bundle : Bundles, workflow : Workflows, ready : BOOLEAN,
          records : SUBSET Gates, items : [Steps -> ItemStatuses]]

(* classifyResumeItem. approved: approvalRecordByStep has an entry under   *)
(* the step's id; it is made from every record of the bundle.              *)
ItemStatus(result, mode, spec, approved) ==
  IF result.status \in Failed
  THEN IF result.status = "retryable_failed" THEN "retryable_failed"
       ELSE IF result.status = "vault_missing" \/ ~result.vaultOK THEN "vault_missing"
       ELSE "failed"
  ELSE IF result.status \in {"approval_pending", "approved_not_executable"}
  THEN IF approved THEN "approved_ready" ELSE "approval_pending"
  ELSE IF mode = "dry-run" /\ result.status = "dry_run_skipped" /\ spec.command
  THEN "ready_for_execute"
  ELSE IF result.status \in {"ok", "fallback_ok"} /\ result.degraded
  THEN "degraded_repair"
  ELSE "none"

ItemsOf(b) == [s \in Steps |->
  IF execution[b].steps[s].status = "none" THEN "none"
  ELSE ItemStatus(execution[b].steps[s], execution[b].mode,
                  Definition[execution[b].workflow][s],
                  \E g \in approvals[b] : g[2] = s)]

(* PlanExecute: ready when something can run and nothing is in the way.    *)
PlanOf(b) == [
  bundle   |-> b,
  workflow |-> execution[b].workflow,
  ready    |-> /\ \A s \in Steps : ItemsOf(b)[s] \notin Blockers
               /\ \E s \in Steps : ItemsOf(b)[s] \in ReadyItems,
  records  |-> approvals[b],
  items    |-> ItemsOf(b)]

(* What executeCLI prints for a plan, and for one item of it.              *)
PlanRequest(p) == CommandRequest(p.workflow, Selectable(p.workflow))
ItemRequest(p, s) == CommandRequest(p.workflow, {s})

PlanInit == Init /\ plan = NoPlan /\ following = [r \in Runners |-> NoPlan]

MakePlan(b) ==
  /\ execution[b] # None
  /\ plan' = PlanOf(b)
  /\ UNCHANGED <<vars, following>>

(* A client runs the command of the plan, or that of one of its items.     *)
FollowPlan(r) ==
  /\ plan # NoPlan
  /\ plan.ready
  /\ StartRun(r, PlanRequest(plan))
  /\ following' = [following EXCEPT ![r] = plan]
  /\ UNCHANGED plan

FollowItem(r, s) ==
  /\ plan # NoPlan
  /\ plan.items[s] \in ReadyItems
  /\ StartRun(r, ItemRequest(plan, s))
  /\ following' = [following EXCEPT ![r] = plan]
  /\ UNCHANGED plan

(* Any other step of the runtime; a run that is over follows no plan.      *)
StoreStep ==
  /\ Next
  /\ following' = [r \in Runners |-> IF pc'[r] = "idle" THEN NoPlan ELSE following[r]]
  /\ UNCHANGED plan

PlanNext ==
  \/ StoreStep
  \/ \E b \in Bundles : MakePlan(b)
  \/ \E r \in Runners : FollowPlan(r) \/ \E s \in Steps : FollowItem(r, s)

PlanSpec == PlanInit /\ [][PlanNext]_allVars
-----------------------------------------------------------------------------
(* Properties *)

PlanTypeOK ==
  /\ TypeOK
  /\ plan \in Plans \union {NoPlan}
  /\ following \in [Runners -> Plans \union {NoPlan}]

(* What a plan says of a bundle, the bundle goes on saying: only a grant   *)
(* changes it, from approval_pending to approved_ready. A client that acts *)
(* on an old plan is misled neither by runs nor by approvals since.        *)
PlansOnlyImprove ==
  plan # NoPlan =>
    /\ plan.records \subseteq approvals[plan.bundle]
    /\ plan.workflow = execution[plan.bundle].workflow
    /\ \A s \in Steps : plan.items[s] # ItemsOf(plan.bundle)[s] =>
         plan.items[s] = "approval_pending" /\ ItemsOf(plan.bundle)[s] = "approved_ready"

(* A run that follows a plan, and whose `latest` still is the plan's       *)
(* bundle, is never held up at a step the plan had an approval record of   *)
(* that workflow for: "approved_ready" survives policy edits, other runs   *)
(* and other grants between plan and run.                                  *)
ApprovedStepsProceed ==
  \A r \in Runners : following[r] # NoPlan /\ source[r] = following[r].bundle =>
    \A s \in Steps : <<following[r].workflow, s>> \in following[r].records =>
      done[r][s].status # "approval_pending"

(* Each part of what a ready plan says, taken at its word. An approved     *)
(* step was granted; no step was recorded with a missing vault handle; the *)
(* command printed for an item of the plan reaches its step.               *)
ReadyIsGranted ==
  \A s \in Steps : plan.items[s] = "approved_ready" => <<plan.workflow, s>> \in granted
ReadyHasVault ==
  \A s \in Steps : execution[plan.bundle].steps[s].status # "none" =>
    execution[plan.bundle].steps[s].vaultOK
ReadyItemsAreDue ==
  \A r \in Runners : following[r] # NoPlan /\ following[r].ready =>
    \A s \in Steps : done[r][s].status # "dependency_missing"

(* "all known approval, vault, retryable, and failure blockers are         *)
(* resolved" (executeDecision), and "execute workflow or targeted step     *)
(* when ready" (classifyResumeItem).                                       *)
ReadyPlanKeepsItsWord ==
  /\ plan # NoPlan /\ plan.ready => ReadyIsGranted /\ ReadyHasVault
  /\ ReadyItemsAreDue
==============================================================================
