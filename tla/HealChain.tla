------------------------------ MODULE HealChain -------------------------------
(***************************************************************************)
(* The container self-heal chain of the MCP server (cmd/meshclaw: mcp.go   *)
(* and main.go, with internal/monitor): from an autoheal plan, made from   *)
(* the stored node reports, a client goes call by call to an apply plan,   *)
(* verification plan, runbook, runbook check, rollback and completion      *)
(* plan, readiness summary, executor gate, executor and its verification.  *)
(*                                                                         *)
(* A call loads one evidence record, makes the next one of it and stores   *)
(* it; the new record contains the old one (of). Evidence is never         *)
(* changed, any record may be used again and at any later time, and calls  *)
(* of several clients interleave. Only the live executor touches the       *)
(* fleet: it restarts container after container and stores what it did     *)
(* when it ends, or nothing if it dies.                                    *)
(*                                                                         *)
(* Node reports and policy may change in any way between two calls; only a *)
(* plan reads them, so each plan finds any. Of the reports this keeps the  *)
(* containers they show in need of a restart. A failed Store answers with  *)
(* a report nobody can refer to, which changes nothing, and after a live   *)
(* run is a Crash. Templates, log patterns, hints and contracts, which     *)
(* differ only in wording for steps made by this chain, are left out.      *)
(***************************************************************************)
EXTENDS EvidenceStore

CONSTANTS
  Containers,   (* those with a name in the reports, numbered in their order *)
  Executors     (* processes that serve the executor call                  *)

ASSUME HealAssumption == Containers \subseteq Nat /\ IsFiniteSet(Containers)

VARIABLE
  live       \* [Executors -> the live run under way, or None]

healVars == <<evidence, live>>

(* The records of each kind.                                               *)
Of(kind, parents) == [kind : {kind}, of : parents, ready : BOOLEAN, steps : SUBSET Containers]

(* A plan's restarts, and those that need approval by policy.              *)
HealPlans == {p \in [kind : {"autoheal-plan"}, restarts : SUBSET Containers,
                     gated : SUBSET Containers] : p.gated \subseteq p.restarts}
ApplyPlans == [kind : {"container-apply-plan"}, of : HealPlans, by : Approvals,
               ready : BOOLEAN, steps : SUBSET Containers]
VerificationPlans == Of("container-verification-plan", ApplyPlans)
Runbooks == Of("container-runbook", VerificationPlans)
RunbookChecks == Of("container-runbook-check", Runbooks)
RollbackPlans == Of("container-rollback-plan", RunbookChecks)
CompletionPlans == Of("container-completion-plan", RollbackPlans)
Summaries == Of("container-readiness-summary", CompletionPlans)
Gates == [kind : {"container-executor-gate"}, of : Summaries, by : Approvals, ready : BOOLEAN]
Executions == [kind : {"container-executor"}, of : Gates, by : Approvals,
               status : {"blocked", "ready", "completed", "failed"},
               restarted : SUBSET Containers, failed : SUBSET Containers]
Closeouts == [kind : {"container-executor-verification"}, of : Executions,
              agents : Nat, logscans : Nat, ready : BOOLEAN]

Records == HealPlans \union ApplyPlans \union VerificationPlans \union Runbooks
  \union RunbookChecks \union RollbackPlans \union CompletionPlans \union Summaries
  \union Gates \union Executions \union Closeouts

HealKinds == {"autoheal-plan", "container-apply-plan", "container-verification-plan",
              "container-runbook", "container-runbook-check", "container-rollback-plan",
              "container-completion-plan", "container-readiness-summary",
              "container-executor-gate", "container-executor",
              "container-executor-verification"}

LiveRuns == [gate : Gates, by : Approvals, todo : SUBSET Containers,
             restarted : SUBSET Containers, failed : SUBSET Containers]

(* A run stops at its first failure.                                       *)
HealTypeOK ==
  /\ \A kind \in HealKinds : Stored(kind) \subseteq Records
  /\ live \in [Executors -> LiveRuns \union {None}]
  /\ \A run \in ({live[e] : e \in Executors} \ {None}) \union Stored("container-executor") :
       Cardinality(run.failed) <= 1 /\ \A c \in run.restarted, f \in run.failed : c < f

HealInit ==
  /\ evidence = {}
  /\ live = [e \in Executors |-> None]
-----------------------------------------------------------------------------
(* What each call makes of the record it is given *)

(* buildAutohealPlan: ContainerHealthPlan over the stored reports, with    *)
(* what policy decides now of each restart, by its command                 *)
(* (annotateHealPlanPolicies): that it needs approval, or anything else.   *)
HealPlan(shown, gated) ==
  [kind |-> "autoheal-plan", restarts |-> shown, gated |-> gated]

(* buildContainerApplyPlanReport: a step for each restart that was planned *)
(* as requiring approval; ready when someone approves it and that is every *)
(* restart of the plan, of which there is one.                             *)
ApplyPlan(p, by) ==
  [kind  |-> "container-apply-plan", of |-> p, by |-> by,
   ready |-> by # None /\ p.gated = p.restarts /\ p.gated # {},
   steps |-> p.gated]

(* Mutant of Stage: steps come through although the stage is blocked.      *)
LeakingStage(kind, x) ==
  [kind |-> kind, of |-> x, ready |-> x.steps # {}, steps |-> x.steps]

(* What six reports have in common: blocked and empty when the one before  *)
(* is, otherwise one entry for each of its steps and ready if there is one.*)
Stage(kind, x) ==
  LET steps == IF x.ready THEN x.steps ELSE {}
  IN  [kind |-> kind, of |-> x, ready |-> steps # {}, steps |-> steps]

VerificationPlan(a) == Stage("container-verification-plan", a)
Runbook(v) == Stage("container-runbook", v)
(* Its findings on single steps never apply to a runbook of this chain.    *)
RunbookCheck(b) == Stage("container-runbook-check", b)
RollbackPlan(c) == Stage("container-rollback-plan", c)
CompletionPlan(k) == Stage("container-completion-plan", k)
ReadinessSummary(c) == Stage("container-readiness-summary", c)

(* buildContainerExecutorGateReport. The check that the list of gates of   *)
(* the apply loop is there always passes; none of them is looked at.       *)
ExecutorGate(s, by, dryRun, execute) ==
  [kind  |-> "container-executor-gate", of |-> s, by |-> by,
   ready |-> s.ready /\ by # None /\ dryRun /\ ~execute]

(* buildContainerExecutorReport has no blocker.                            *)
Admitted(g, by, isLive, phraseOK) ==
  /\ g.ready
  /\ by # None /\ by = g.by
  /\ isLive => phraseOK
  /\ g.of.steps # {}

Execution(g, by, status, restarted, failed) ==
  [kind |-> "container-executor", of |-> g, by |-> by, status |-> status,
   restarted |-> restarted, failed |-> failed]

(* Mutant of Closeout: only what was restarted is counted.                 *)
HastyCloseout(x, agents, logscans) ==
  [kind |-> "container-executor-verification", of |-> x, agents |-> agents, logscans |-> logscans,
   ready |-> x.restarted # {} /\ agents >= Cardinality(x.restarted)
                              /\ logscans >= Cardinality(x.restarted)]

(* buildContainerExecutorVerificationReport: a live run that completed,    *)
(* with as many paths of evidence as it has steps. What the paths lead to  *)
(* is not looked at.                                                       *)
Closeout(x, agents, logscans) ==
  LET tried == x.restarted \union x.failed
  IN  [kind |-> "container-executor-verification", of |-> x,
       agents |-> agents, logscans |-> logscans,
       ready |-> /\ x.status = "completed"
                 /\ tried # {} /\ x.failed = {}
                 /\ agents >= Cardinality(tried)
                 /\ logscans >= Cardinality(tried)]
-----------------------------------------------------------------------------
(* Calls *)

(* A call that only makes a record.                                        *)
Call(record) == Store(record) /\ UNCHANGED live

CallAutohealPlan ==
  \E shown \in SUBSET Containers : \E gated \in SUBSET shown : Call(HealPlan(shown, gated))

CallApplyPlan == \E p \in Stored("autoheal-plan"), by \in Approvals : Call(ApplyPlan(p, by))

CallVerificationPlan == \E a \in Stored("container-apply-plan") : Call(VerificationPlan(a))
CallRunbook == \E v \in Stored("container-verification-plan") : Call(Runbook(v))
CallRunbookCheck == \E b \in Stored("container-runbook") : Call(RunbookCheck(b))
CallRollbackPlan == \E c \in Stored("container-runbook-check") : Call(RollbackPlan(c))
CallCompletionPlan == \E k \in Stored("container-rollback-plan") : Call(CompletionPlan(k))
CallReadinessSummary == \E c \in Stored("container-completion-plan") : Call(ReadinessSummary(c))

CallExecutorGate ==
  \E s \in Stored("container-readiness-summary"), by \in Approvals, dryRun, execute \in BOOLEAN :
    Call(ExecutorGate(s, by, dryRun, execute))

(* The executor call without a live run: refused, or a preview.            *)
CallPreview ==
  \E g \in Stored("container-executor-gate"), by \in Approvals, isLive, phraseOK \in BOOLEAN :
    LET admitted == Admitted(g, by, isLive, phraseOK)
    IN  /\ ~(admitted /\ isLive)
        /\ Call(Execution(g, by, IF admitted THEN "ready" ELSE "blocked", {}, {}))

CallCloseout ==
  \E x \in Stored("container-executor"), agents, logscans \in 0 .. Cardinality(Containers) :
    Call(Closeout(x, agents, logscans))
-----------------------------------------------------------------------------
(* The live executor *)

Begin(e) ==
  /\ live[e] = None
  /\ \E g \in Stored("container-executor-gate"), by \in Approvals, phraseOK \in BOOLEAN :
       /\ Admitted(g, by, TRUE, phraseOK)
       /\ live' = [live EXCEPT ![e] = [gate |-> g, by |-> by, todo |-> g.of.steps,
                                       restarted |-> {}, failed |-> {}]]
  /\ UNCHANGED evidence

(* A run after the next of its containers was restarted, or failed to be.  *)
Tried(run, ok) ==
  LET c == CHOOSE x \in run.todo : \A y \in run.todo : x <= y
  IN  [run EXCEPT !.todo = @ \ {c},
                  !.restarted = IF ok THEN @ \union {c} ELSE @,
                  !.failed = IF ok THEN @ ELSE @ \union {c}]

(* Mutant of Restart: the loop goes on after a failure.                    *)
StubbornRestart(e, ok) ==
  /\ live[e] # None
  /\ live[e].todo # {}
  /\ live' = [live EXCEPT ![e] = Tried(live[e], ok)]
  /\ UNCHANGED evidence

(* The next `docker restart`, in the order of the steps, which comes back  *)
(* with success or without; the first failure ends the loop.               *)
Restart(e, ok) ==
  /\ live[e] # None
  /\ live[e].todo # {} /\ live[e].failed = {}
  /\ live' = [live EXCEPT ![e] = Tried(live[e], ok)]
  /\ UNCHANGED evidence

Finish(e) ==
  /\ live[e] # None
  /\ live[e].todo = {} \/ live[e].failed # {}
  /\ Store(Execution(live[e].gate, live[e].by,
                     IF live[e].failed = {} THEN "completed" ELSE "failed",
                     live[e].restarted, live[e].failed))
  /\ live' = [live EXCEPT ![e] = None]

(* The process dies, or cannot store what it did.                          *)
Crash(e) ==
  /\ live[e] # None
  /\ live' = [live EXCEPT ![e] = None]
  /\ UNCHANGED evidence
-----------------------------------------------------------------------------
HealNext ==
  \/ CallAutohealPlan \/ CallApplyPlan \/ CallVerificationPlan \/ CallRunbook
  \/ CallRunbookCheck \/ CallRollbackPlan \/ CallCompletionPlan \/ CallReadinessSummary
  \/ CallExecutorGate \/ CallPreview \/ CallCloseout
  \/ \E e \in Executors : Begin(e) \/ Finish(e) \/ Crash(e) \/ \E ok \in BOOLEAN : Restart(e, ok)

HealSpec == HealInit /\ [][HealNext]_healVars
-----------------------------------------------------------------------------
(* Properties *)

ApplyPlanOf(g) == g.of.of.of.of.of.of.of

(* Whatever records a client combines, of whatever age: a container that   *)
(* the executor restarts was proposed by an autoheal plan under rules that *)
(* ask for approval of it and of every other restart of the plan, the      *)
(* apply plan made of it was approved, and the executor runs in the name   *)
(* of who approved the gate.                                               *)
RestartSanctioned ==
  \A e \in Executors : live[e] # None =>
    LET g == live[e].gate
        a == ApplyPlanOf(g)
    IN  /\ live[e].restarted \union live[e].failed \union live[e].todo \subseteq a.of.gated
        /\ a.of.gated = a.of.restarts
        /\ a.by # None
        /\ live[e].by = g.by /\ g.by # None

(* A closeout that is ready follows one run in which every step of the     *)
(* approved plan was restarted with success: not a preview, not a run that *)
(* failed half way and not the sum of several.                             *)
CloseoutTrue ==
  \A v \in Stored("container-executor-verification") : v.ready =>
    /\ v.of.failed = {}
    /\ v.of.restarted = ApplyPlanOf(v.of.of).of.restarts
    /\ v.of.restarted # {}
=============================================================================
