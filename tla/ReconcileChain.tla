---------------------------- MODULE ReconcileChain ----------------------------
(***************************************************************************)
(* The reconcile chain of command line and MCP server (cmd/meshclaw): the  *)
(* drift of a node from its desired state becomes an approval request, and *)
(* that, call by call, an apply gate, apply plan, execution preview,       *)
(* verification plan, runbook, runbook check, rollback and completion plan *)
(* and a readiness summary. Nothing is executed.                           *)
(*                                                                         *)
(* Desired file, node report and policy may have changed in any way        *)
(* between two calls; only the approval request reads them, so each        *)
(* request finds any. One node. Wording of the reports is left out, and    *)
(* with it those findings of the runbook check that the reports of this    *)
(* chain never cause.                                                      *)
(***************************************************************************)
EXTENDS EvidenceStore, Reconciler

CONSTANTS
  Files,        (* paths of desired-state files                            *)
  Desires,      (* what they may say of the node                           *)
  Actuals,      (* what the node may report                                *)
  Rules         (* policies: [action names of Drifts -> a decision]        *)

(* What Evaluate of Policy decides.                                        *)
ASSUME RulesAssumption ==
  Rules \subseteq [{x.does : x \in Drifts} -> {"allow", "require_approval", "deny"}]

(* A stage of the chain: whether it is ready and its steps, which are      *)
(* actions of the request. of: the record it was made of.                  *)
StagesOf(kind, parents) ==
  [kind : {kind}, of : parents, ready : BOOLEAN, steps : SUBSET Drifts]

(* A request; desired, actual and rule are history: it keeps the path of   *)
(* the file and what differs.                                              *)
ReconcileRequests == [kind : {"reconcile-approval-request"}, file : Files,
                      actions : SUBSET Drifts, blocked : SUBSET Drifts,
                      desired : Desires, actual : Actuals, rule : Rules]
ReconcileGates == [kind : {"reconcile-apply-gate"}, of : ReconcileRequests, by : Approvals,
                   ready : BOOLEAN]
ReconcileChecks == StagesOf("reconcile-runbook-check",
                   StagesOf("reconcile-runbook",
                   StagesOf("reconcile-verification-plan",
                   StagesOf("reconcile-execution-preview",
                   StagesOf("reconcile-apply-plan", ReconcileGates)))))
ReconcileSummaries == StagesOf("reconcile-readiness-summary",
                      StagesOf("reconcile-completion-plan",
                      StagesOf("reconcile-rollback-plan", ReconcileChecks)))

(* From the runbook check on, what is ready has something to do.           *)
ReconcileTypeOK ==
  /\ Stored("reconcile-approval-request") \subseteq ReconcileRequests
  /\ Stored("reconcile-apply-gate") \subseteq ReconcileGates
  /\ Stored("reconcile-runbook-check") \subseteq ReconcileChecks
  /\ Stored("reconcile-readiness-summary") \subseteq ReconcileSummaries
  /\ \A x \in Stored("reconcile-readiness-summary") : x.ready => x.steps # {}

ReconcileKinds == {"reconcile-approval-request", "reconcile-apply-gate",
                   "reconcile-apply-plan", "reconcile-execution-preview",
                   "reconcile-verification-plan", "reconcile-runbook",
                   "reconcile-runbook-check", "reconcile-rollback-plan",
                   "reconcile-completion-plan", "reconcile-readiness-summary"}

ReconcileInit == evidence = {}
-----------------------------------------------------------------------------
(* What each call makes of what it is given *)

(* buildReconcileApprovalRequest over DiffNode's actions, annotated with   *)
(* what policy decides of each: denied ones, and those that need approval  *)
(* by policy or by nature.                                                 *)
ApprovalRequest(file, d, a, rule) ==
  LET drift == Diff(d, a)
  IN  [kind    |-> "reconcile-approval-request", file |-> file,
       actions |-> {x \in drift : \/ rule[x.does] = "require_approval"
                                  \/ rule[x.does] = "allow" /\ x.approval},
       blocked |-> {x \in drift : rule[x.does] = "deny"},
       desired |-> d, actual |-> a, rule |-> rule]

(* Mutant of ApplyGate: denied actions do not hold the rest up.            *)
PermissiveApplyGate(q, file, by) ==
  [kind |-> "reconcile-apply-gate", of |-> q, by |-> by,
   ready |-> file = q.file /\ (q.actions # {} => by # None)]

(* buildReconcileApplyGateReport; the files are compared by path.          *)
ApplyGate(q, file, by) ==
  [kind  |-> "reconcile-apply-gate", of |-> q, by |-> by,
   ready |-> /\ file = q.file
             /\ q.blocked = {}
             /\ q.actions # {} => by # None]

Made(kind, x, ready, steps) ==
  [kind |-> kind, of |-> x, ready |-> ready, steps |-> IF ready THEN steps ELSE {}]

(* Reports that are ready when the one before is, with its steps.          *)
Following(kind, x) == Made(kind, x, x.ready, x.steps)

(* An apply plan has a step for each action of the request, and is ready   *)
(* without any.                                                            *)
ReconcileApplyPlan(g) == Made("reconcile-apply-plan", g, g.ready, g.of.actions)
ExecutionPreview(p) == Following("reconcile-execution-preview", p)
ReconcileVerificationPlan(p) == Following("reconcile-verification-plan", p)
ReconcileRunbook(v) == Following("reconcile-runbook", v)

(* Mutant of ReconcileRunbookCheck: a runbook without steps passes.        *)
EmptyRunbookCheck(b) == Following("reconcile-runbook-check", b)

(* A runbook without steps is a critical finding.                          *)
ReconcileRunbookCheck(b) ==
  Made("reconcile-runbook-check", b, b.ready /\ b.steps # {}, b.steps)
ReconcileRollbackPlan(c) == Following("reconcile-rollback-plan", c)
ReconcileCompletionPlan(k) == Following("reconcile-completion-plan", k)
ReconcileSummary(c) == Following("reconcile-readiness-summary", c)
-----------------------------------------------------------------------------
(* Calls *)

RequestApproval ==
  /\ Room("reconcile-approval-request")
  /\ \E file \in Files, d \in Desires, a \in Actuals, rule \in Rules :
       Store(ApprovalRequest(file, d, a, rule))

CallApplyGate ==
  \E q \in Stored("reconcile-approval-request"), file \in Files, by \in Approvals :
    Store(ApplyGate(q, file, by))

CallReconcileApplyPlan == \E g \in Stored("reconcile-apply-gate") : Store(ReconcileApplyPlan(g))
CallExecutionPreview == \E p \in Stored("reconcile-apply-plan") : Store(ExecutionPreview(p))
CallReconcileVerificationPlan ==
  \E p \in Stored("reconcile-execution-preview") : Store(ReconcileVerificationPlan(p))
CallReconcileRunbook ==
  \E v \in Stored("reconcile-verification-plan") : Store(ReconcileRunbook(v))
CallReconcileRunbookCheck ==
  \E b \in Stored("reconcile-runbook") : Store(ReconcileRunbookCheck(b))
CallReconcileRollbackPlan ==
  \E c \in Stored("reconcile-runbook-check") : Store(ReconcileRollbackPlan(c))
CallReconcileCompletionPlan ==
  \E k \in Stored("reconcile-rollback-plan") : Store(ReconcileCompletionPlan(k))
CallReconcileSummary ==
  \E c \in Stored("reconcile-completion-plan") : Store(ReconcileSummary(c))

ReconcileNext ==
  \/ RequestApproval \/ CallApplyGate \/ CallReconcileApplyPlan \/ CallExecutionPreview
  \/ CallReconcileVerificationPlan \/ CallReconcileRunbook \/ CallReconcileRunbookCheck
  \/ CallReconcileRollbackPlan \/ CallReconcileCompletionPlan \/ CallReconcileSummary

ReconcileSpec == ReconcileInit /\ [][ReconcileNext]_evidence
-----------------------------------------------------------------------------
(* Properties *)

(* A plan has actions exactly if the node, by its report, is not as        *)
(* desired: drift is neither made up nor overlooked, except in the health  *)
(* or restart policy of a container that docker inspect did not tell. For  *)
(* desired states in the words that the comparison knows; a container of   *)
(* which only health or restart is given may be missing unnoticed.         *)
DriftIsExact ==
  \A q \in Stored("reconcile-approval-request") :
    LET none == Diff(q.desired, q.actual) = {}
    IN  /\ Fits(q.desired, q.actual) => none
        /\ none => Fits(q.desired, q.actual) \/ Unread(q.desired, q.actual)

(* "no-op when actual state matches intent"                                *)
(* (docs/RECONCILIATION_CONTROLLER.md:83), for every desired state that    *)
(* ValidateDesiredState has nothing to say about.                          *)
NoOpWhenFits ==
  \A q \in Stored("reconcile-approval-request") :
    Fits(q.desired, q.actual) => Diff(q.desired, q.actual) = {}

GateOf(s) == s.of.of.of.of.of.of.of.of

(* Behind a summary that is ready there is no drift that policy denied,    *)
(* and every drift is one of its steps unless policy allows its action and *)
(* its nature asks for no approval (of containers it always does, of       *)
(* services where one is to be up); someone approved the steps.            *)
ReadyCoversDrift ==
  \A s \in Stored("reconcile-readiness-summary") : s.ready =>
    LET g == GateOf(s)
        q == g.of
    IN  /\ g.by # None
        /\ \A x \in Diff(q.desired, q.actual) :
             /\ q.rule[x.does] # "deny"
             /\ x \in s.steps \/ (q.rule[x.does] = "allow" /\ ~x.approval)
=============================================================================
