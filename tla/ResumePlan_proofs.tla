-------------------------- MODULE ResumePlan_proofs ---------------------------
(***************************************************************************)
(* Theorems of ResumePlan. Its steps are steps of the runtime as far as    *)
(* the runtime's variables go, so that everything proved of the runtime    *)
(* holds of it too.                                                        *)
(***************************************************************************)
EXTENDS ResumePlan, WorkflowRuntime_proofs

(* What a plan says of its bundle still holds, or has improved.            *)
Sound(p) ==
  /\ execution[p.bundle] # None
  /\ p.records \subseteq approvals[p.bundle]
  /\ p.workflow = execution[p.bundle].workflow
  /\ \A s \in Steps : p.items[s] # ItemsOf(p.bundle)[s] =>
       p.items[s] = "approval_pending" /\ ItemsOf(p.bundle)[s] = "approved_ready"

(* A run that follows a plan is one of the plan's workflow, and has loaded *)
(* the records of the plan or is about to.                                 *)
Follows(r, p) ==
  /\ Sound(p)
  /\ pc[r] # "idle" /\ request[r].workflow = p.workflow
  /\ source[r] = p.bundle => pc[r] = "load" \/ p.records \subseteq loaded[r]

PlanTypes ==
  /\ plan \in Plans \union {NoPlan}
  /\ following \in [Runners -> Plans \union {NoPlan}]

(* Every recorded workflow was asked for, so that its commands can be.     *)
Requested ==
  \A b \in Bundles : execution[b] # None =>
    \E q \in Requests : q.workflow = execution[b].workflow

PlanInv ==
  /\ IInv /\ PlanTypes /\ Requested
  /\ \A p \in Plans : p = plan /\ p # NoPlan => Sound(p)
  /\ \A r \in Runners : \A p \in Plans : p = following[r] /\ p # NoPlan => Follows(r, p)
  /\ ApprovedStepsProceed

(* Plans *)

LEMMA ItemTypes ==
  ASSUME NEW result, NEW mode, NEW spec, NEW approved
  PROVE  ItemStatus(result, mode, spec, approved) \in ItemStatuses
  BY DEF ItemStatus, ItemStatuses

LEMMA PlanOfType ==
  ASSUME TypeOK, NEW b \in Bundles, execution[b] # None
  PROVE  PlanOf(b) \in Plans
<1>1. execution[b].workflow \in Workflows /\ approvals[b] \in SUBSET Gates
  BY DEF TypeOK, Executions
<1>2. ItemsOf(b) \in [Steps -> ItemStatuses]
  BY ItemTypes DEF ItemsOf, ItemStatuses
<1>3. QED
  BY <1>1, <1>2 DEF PlanOf, Plans

(* Of a recorded bundle, a step of the runtime only adds approvals, which  *)
(* is no matter to steps that do not wait for one.                         *)
LEMMA ItemsImprove ==
  ASSUME TypeOK, Owned, [Next]_vars,
         NEW b \in Bundles, execution[b] # None, NEW s \in Steps
  PROVE  \/ ItemsOf(b)'[s] = ItemsOf(b)[s]
         \/ ItemsOf(b)[s] = "approval_pending" /\ ItemsOf(b)'[s] = "approved_ready"
<1>1. execution'[b] = execution[b] /\ approvals[b] \subseteq approvals'[b]
  BY KeptStep
<1> DEFINE now == \E g \in approvals[b] : g[2] = s
           then == \E g \in approvals'[b] : g[2] = s
           result == execution[b].steps[s]
           spec == Definition[execution[b].workflow][s]
           mode == execution[b].mode
<1>2. now => then
  BY <1>1
<1>3. CASE result.status = "none"
  BY <1>1, <1>3 DEF ItemsOf
<1>4. CASE result.status # "none"
  <2>1. /\ ItemsOf(b)[s] = ItemStatus(result, mode, spec, now)
        /\ ItemsOf(b)'[s] = ItemStatus(result, mode, spec, then)
    BY <1>1, <1>4 DEF ItemsOf
  <2> HIDE DEF now, then, result, spec, mode
  <2>2. \/ ItemStatus(result, mode, spec, then) = ItemStatus(result, mode, spec, now)
        \/ /\ ItemStatus(result, mode, spec, now) = "approval_pending"
           /\ ItemStatus(result, mode, spec, then) = "approved_ready"
    BY <1>2 DEF ItemStatus
  <2>3. QED
    BY <2>1, <2>2
<1>5. QED
  BY <1>3, <1>4

LEMMA SoundStep ==
  ASSUME TypeOK, Owned, [Next]_vars, NEW p \in Plans, Sound(p)
  PROVE  Sound(p)'
<1>1. p.bundle \in Bundles
  BY DEF Plans
<1>2. execution'[p.bundle] = execution[p.bundle] /\ approvals[p.bundle] \subseteq approvals'[p.bundle]
  BY <1>1, KeptStep DEF Sound
<1>3. ASSUME NEW s \in Steps, p.items[s] # ItemsOf(p.bundle)'[s]
      PROVE  p.items[s] = "approval_pending" /\ ItemsOf(p.bundle)'[s] = "approved_ready"
  <2>1. \/ ItemsOf(p.bundle)'[s] = ItemsOf(p.bundle)[s]
        \/ ItemsOf(p.bundle)[s] = "approval_pending" /\ ItemsOf(p.bundle)'[s] = "approved_ready"
    BY <1>1, ItemsImprove DEF Sound
  <2>2. \/ p.items[s] = ItemsOf(p.bundle)[s]
        \/ p.items[s] = "approval_pending" /\ ItemsOf(p.bundle)[s] = "approved_ready"
    BY DEF Sound
  <2>3. QED
    BY <2>1, <2>2, <1>3
<1>4. QED
  BY <1>2, <1>3 DEF Sound

LEMMA PlanOfSound ==
  ASSUME TypeOK, NEW b \in Bundles, execution[b] # None
  PROVE  LET p == PlanOf(b) IN Sound(p)
  BY DEF PlanOf, Sound
-----------------------------------------------------------------------------
(* Runs *)

(* What a step of the runtime does to one run, as far as following a plan  *)
(* goes: it is over, it starts, it loads the records, or it goes on, and   *)
(* leaves a step waiting only for want of a record.                        *)
GoesOn(r) ==
  /\ request'[r] = request[r] /\ source'[r] = source[r] /\ loaded'[r] = loaded[r]
  /\ pc'[r] = "load" <=> pc[r] = "load"
  /\ pc'[r] = "idle" <=> pc[r] = "idle"
  /\ \A s \in Steps : done'[r][s].status = "approval_pending" =>
       \/ done[r][s].status = "approval_pending"
       \/ pc[r] # "load" /\ GateOf(r, s) \notin loaded[r]

LEMMA GoesOnAlone ==
  ASSUME NEW r, request'[r] = request[r], source'[r] = source[r], loaded'[r] = loaded[r],
         pc'[r] = pc[r], done'[r] = done[r]
  PROVE  GoesOn(r)
  BY DEF GoesOn

(* A step that waits has no record in the map of its run.                  *)
LEMMA RunStepWaits ==
  ASSUME TypeOK, NEW r \in Runners, NEW s \in Steps, RunStep(r, s)
  PROVE  GoesOn(r)
<1> DEFINE res == [status |-> Verdict(r, s), approvalRequired |-> Required(GateOf(r, s)),
                   vaultOK |-> VaultOK(SpecOf(r, s)), degraded |-> FALSE]
<1>1. Verdict(r, s) \in Statuses
  BY DEF Verdict, StepVerdict, Statuses
<1>2. res \in Results
  BY <1>1 DEF Results, VaultOK, Required
<1>3. Finish(r, s, res) /\ pc[r] = "steps"
  BY DEF RunStep
<1>4. res.status = Verdict(r, s)
  OBVIOUS
<1> HIDE DEF res
<1>5. done'[r][s] = res /\ \A x \in Steps : x # s => done'[r][x] = done[r][x]
  BY <1>2, <1>3, FirstResultEffect
<1>6. Verdict(r, s) = "approval_pending" => GateOf(r, s) \notin loaded[r]
  <2>1. SUFFICES ASSUME Verdict(r, s) = "approval_pending", GateOf(r, s) \in loaded[r]
                 PROVE  FALSE
    OBVIOUS
  <2>2. s \notin ApprovalMap(r)
    BY <2>1 DEF Verdict, StepVerdict, GateOf
  <2>3. GateOf(r, s)[1] = request[r].workflow /\ GateOf(r, s)[2] = s
    BY DEF GateOf
  <2>4. QED
    BY <2>1, <2>2, <2>3 DEF ApprovalMap
<1>7. request' = request /\ source' = source /\ loaded' = loaded
  BY DEF RunStep
<1>8. pc'[r] \notin {"load", "idle"}
  BY <1>3 DEF RunStep, Goto, TypeOK
<1>9. QED
  BY <1>3, <1>4, <1>5, <1>6, <1>7, <1>8 DEF GoesOn

LEMMA GateStepWaits ==
  ASSUME TypeOK, NEW r \in Runners, NEW s \in Steps, NEW v \in Statuses, GateStep(r, s, v)
  PROVE  GoesOn(r)
<1>1. v \in {"fallback_source_missing", "fallback_not_needed",
             "dependency_missing", "dependency_blocked"}
  BY DEF GateStep, Fallback, FallbackVerdict, Dependency, DependencyVerdicts
<1> DEFINE st == IF v = "fallback_not_needed" \/ VaultOK(SpecOf(r, s))
                 THEN v ELSE "vault_missing"
           res == [status |-> st, approvalRequired |-> FALSE,
                   vaultOK |-> VaultOK(SpecOf(r, s)), degraded |-> FALSE]
<1>2. st \in Statuses /\ st # "approval_pending"
  BY <1>1 DEF Statuses
<1>3. res \in Results
  BY <1>2 DEF Results, VaultOK
<1>4. Finish(r, s, res) /\ pc[r] = "steps"
  BY DEF GateStep
<1>5. res.status = st
  OBVIOUS
<1> HIDE DEF res
<1>6. done'[r][s] = res /\ \A x \in Steps : x # s => done'[r][x] = done[r][x]
  BY <1>3, <1>4, FirstResultEffect
<1>7. request' = request /\ source' = source /\ loaded' = loaded /\ pc' = pc
  BY DEF GateStep
<1>8. QED
  BY <1>2, <1>4, <1>5, <1>6, <1>7 DEF GoesOn

LEMMA EndStepWaits ==
  ASSUME TypeOK, NEW r \in Runners, NEW st \in Statuses, st # "approval_pending",
         NEW d \in BOOLEAN, pc[r] \in {"secrets", "command"}, EndStep(r, st, d),
         request' = request, source' = source, loaded' = loaded
  PROVE  GoesOn(r)
<1>1. /\ done'[r][step[r]].status = st
      /\ \A x \in Steps : x # step[r] => done'[r][x] = done[r][x]
  BY LastResultEffect
<1>2. pc'[r] = "steps"
  BY DEF EndStep, Goto, TypeOK
<1>3. QED
  BY <1>1, <1>2 DEF GoesOn

LEMMA OwnSteps ==
  ASSUME TypeOK, NEW r \in Runners, Runner(r)
  PROVE  \/ Forget(r) \/ LoadApprovals(r) \/ GoesOn(r)
         \/ \E q \in Requests : StartRun(r, q)
<1>1. ASSUME CreateBundle(r) \/ UnlinkLatest(r) \/ LinkLatest(r) \/ FinishSteps(r)
             \/ WriteApprovals(r)
      PROVE  GoesOn(r)
  <2>1. request' = request /\ source' = source /\ loaded' = loaded /\ done' = done
    BY <1>1 DEF CreateBundle, UnlinkLatest, LinkLatest, FinishSteps, WriteApprovals
  <2>2. pc[r] \notin {"load", "idle"} /\ pc'[r] \notin {"load", "idle"}
    BY <1>1 DEF CreateBundle, UnlinkLatest, LinkLatest, FinishSteps, WriteApprovals, Goto, TypeOK
  <2>3. QED
    BY <2>1, <2>2 DEF GoesOn
<1>2. CreateFails(r) \/ WriteExecution(r) \/ Crash(r) => Forget(r)
  BY DEF CreateFails, WriteExecution, Crash
<1>3. ASSUME ResolveSecrets(r) PROVE GoesOn(r)
  <2>1. /\ request' = request /\ source' = source /\ loaded' = loaded /\ pc[r] = "secrets"
        /\ \/ Goto(r, "command") /\ done' = done
           \/ EndStep(r, "secret_env_failed", FALSE)
    BY <1>3 DEF ResolveSecrets
  <2>2. CASE Goto(r, "command") /\ done' = done
    BY <2>1, <2>2 DEF GoesOn, Goto, TypeOK
  <2>3. CASE EndStep(r, "secret_env_failed", FALSE)
    <3>1. "secret_env_failed" \in Statuses /\ FALSE \in BOOLEAN
      BY DEF Statuses
    <3>2. QED
      BY <2>1, <2>3, <3>1, EndStepWaits
  <2>4. QED
    BY <2>1, <2>2, <2>3
<1>4. ASSUME NEW o \in Outcomes, RunAttempt(r, o) PROVE GoesOn(r)
  <2>1. request' = request /\ source' = source /\ loaded' = loaded /\ pc[r] = "command"
    BY <1>4 DEF RunAttempt
  <2>2. CASE o = "held"
    BY <1>4, <2>1, <2>2 DEF RunAttempt, GoesOn, Goto, TypeOK
  <2>3. CASE o # "held" /\ o \in Failures /\ Repeats(r, o)
    <3>1. pc' = pc /\ done' = done
      BY <1>4, <2>3 DEF RunAttempt
    <3>2. QED
      BY <2>1, <3>1, GoesOnAlone
  <2>4. CASE o # "held" /\ ~(o \in Failures /\ Repeats(r, o))
    <3>1. PICK st \in Statuses \ {"approval_pending"}, d \in BOOLEAN : EndStep(r, st, d)
      BY <1>4, <2>4 DEF RunAttempt, Statuses
    <3>2. QED
      BY <2>1, <3>1, EndStepWaits
  <2>5. QED
    BY <2>2, <2>3, <2>4
<1>5. QED
  BY <1>1, <1>2, <1>3, <1>4, RunStepWaits, GateStepWaits DEF Runner, RunnerStep

(* The steps of others leave a run alone. *)
LEMMA OthersSteps ==
  ASSUME TypeOK, NEW r \in Runners, NEW x \in Runners, x # r, Runner(x)
  PROVE  GoesOn(r)
<1>1. ASSUME Forget(x) PROVE GoesOn(r)
  BY <1>1, GoesOnAlone DEF Forget, Goto, TypeOK
<1>2. ASSUME CreateBundle(x) \/ UnlinkLatest(x) \/ LinkLatest(x) \/ FinishSteps(x)
             \/ WriteApprovals(x) \/ LoadApprovals(x)
      PROVE  GoesOn(r)
  <2>1. request' = request /\ source' = source /\ loaded'[r] = loaded[r] /\ done' = done
    BY <1>2 DEF CreateBundle, UnlinkLatest, LinkLatest, FinishSteps, WriteApprovals,
       LoadApprovals, TypeOK
  <2>2. pc'[r] = pc[r]
    BY <1>2 DEF CreateBundle, UnlinkLatest, LinkLatest, FinishSteps, WriteApprovals,
       LoadApprovals, Goto, TypeOK
  <2>3. QED
    BY <2>1, <2>2, GoesOnAlone
<1>3. ASSUME NEW q \in Requests, StartRun(x, q) PROVE GoesOn(r)
  BY <1>3, GoesOnAlone DEF StartRun, Goto, TypeOK
<1>4. ASSUME NEW s \in Steps, RunStep(x, s) PROVE GoesOn(r)
  <2>1. request' = request /\ source' = source /\ loaded' = loaded /\ done'[r] = done[r]
    BY <1>4 DEF RunStep, Finish, TypeOK
  <2>2. pc'[r] = pc[r]
    BY <1>4 DEF RunStep, Goto, TypeOK
  <2>3. QED
    BY <2>1, <2>2, GoesOnAlone
<1>5. ASSUME NEW s \in Steps, NEW v \in Statuses, GateStep(x, s, v) PROVE GoesOn(r)
  <2>1. request' = request /\ source' = source /\ loaded' = loaded /\ done'[r] = done[r]
    BY <1>5 DEF GateStep, Finish, TypeOK
  <2>2. pc' = pc
    BY <1>5 DEF GateStep
  <2>3. QED
    BY <2>1, <2>2, GoesOnAlone
<1>6. ASSUME ResolveSecrets(x) PROVE GoesOn(r)
  <2>1. request' = request /\ source' = source /\ loaded' = loaded
    BY <1>6 DEF ResolveSecrets
  <2>2. done'[r] = done[r] /\ pc'[r] = pc[r]
    BY <1>6 DEF ResolveSecrets, EndStep, Goto, TypeOK
  <2>3. QED
    BY <2>1, <2>2, GoesOnAlone
<1>7. ASSUME NEW o \in Outcomes, RunAttempt(x, o) PROVE GoesOn(r)
  <2>1. request' = request /\ source' = source /\ loaded' = loaded
    BY <1>7 DEF RunAttempt
  <2>2. done'[r] = done[r] /\ pc'[r] = pc[r]
    BY <1>7 DEF RunAttempt, EndStep, Goto, TypeOK
  <2>3. QED
    BY <2>1, <2>2, GoesOnAlone
<1>8. CreateFails(x) \/ WriteExecution(x) \/ Crash(x) => Forget(x)
  BY DEF CreateFails, WriteExecution, Crash
<1>9. QED
  BY <1>1, <1>2, <1>3, <1>4, <1>5, <1>6, <1>7, <1>8 DEF Runner, RunnerStep

LEMMA RunCases ==
  ASSUME TypeOK, [Next]_vars, NEW r \in Runners
  PROVE  \/ Forget(r) \/ LoadApprovals(r) \/ GoesOn(r)
         \/ \E q \in Requests : StartRun(r, q)
<1>1. ASSUME NEW a \in Approvers, Approver(a) PROVE UNCHANGED runVars
  BY <1>1 DEF Approver, GrantResolve, GrantLoad, GrantAppend, GrantFail
<1>2. ASSUME NEW p \in Policies, EditPolicy(p) PROVE UNCHANGED runVars
  BY <1>2 DEF EditPolicy
<1>3. ASSUME NEW v \in Vaults, ChangeVault(v) PROVE UNCHANGED runVars
  BY <1>3 DEF ChangeVault
<1>4. UNCHANGED vars => UNCHANGED runVars
  BY DEF vars
<1>5. UNCHANGED runVars => GoesOn(r)
  BY GoesOnAlone DEF runVars
<1>6. QED
  BY <1>1, <1>2, <1>3, <1>4, <1>5, OwnSteps, OthersSteps DEF Next
-----------------------------------------------------------------------------
(* The commands of a plan are runs that clients ask for, so that to follow *)
(* a plan is a step of the runtime.                                        *)

LEMMA CommandsRun ==
  ASSUME PlanInv, NEW r \in Runners, NEW q,
         plan # NoPlan,
         q = PlanRequest(plan) \/ \E s \in Steps : q = ItemRequest(plan, s),
         StartRun(r, q)
  PROVE  /\ q \in Requests /\ q.workflow = plan.workflow /\ q.approvals = LatestPath
         /\ Next
<1>1. plan \in Plans /\ Sound(plan)
  BY DEF PlanInv, PlanTypes
<1>2. PICK x \in Requests : x.workflow = plan.workflow
  <2>1. plan.bundle \in Bundles /\ execution[plan.bundle] # None
        /\ plan.workflow = execution[plan.bundle].workflow
    BY <1>1 DEF Plans, Sound
  <2>2. QED
    BY <2>1 DEF PlanInv, Requested
<1>3. q.workflow = plan.workflow /\ q.approvals = LatestPath
  BY DEF PlanRequest, ItemRequest, CommandRequest
<1>4. q \in Requests
  <2>1. CASE q = PlanRequest(plan)
    BY <2>1, <1>2, CommandsAssumption DEF PlanRequest
  <2>2. CASE \E s \in Steps : q = ItemRequest(plan, s)
    <3>1. PICK s \in Steps : q = ItemRequest(plan, s)
      BY <2>2
    <3>2. q.steps = {s}
      BY <3>1 DEF ItemRequest, CommandRequest
    <3>3. s \in Selectable(plan.workflow)
      BY <3>2, <1>3 DEF StartRun, Selectable
    <3>4. QED
      BY <3>1, <3>3, <1>2, CommandsAssumption DEF ItemRequest
  <2>3. QED
    BY <2>1, <2>2
<1>5. Next
  BY <1>4 DEF Next, Runner
<1>6. QED
  BY <1>3, <1>4, <1>5

Following(r) ==
  /\ plan # NoPlan
  /\ \E q : /\ q = PlanRequest(plan) \/ \E s \in Steps : q = ItemRequest(plan, s)
            /\ StartRun(r, q)
  /\ following' = [following EXCEPT ![r] = plan]
  /\ plan' = plan

LEMMA RuntimeSteps ==
  ASSUME PlanInv, [PlanNext]_allVars
  PROVE  /\ [Next]_vars
         /\ \/ StoreStep
            \/ \E b \in Bundles : MakePlan(b)
            \/ \E r \in Runners : Following(r)
            \/ UNCHANGED allVars
<1>1. ASSUME NEW r \in Runners, FollowPlan(r) PROVE Following(r)
  BY <1>1 DEF FollowPlan, Following
<1>2. ASSUME NEW r \in Runners, NEW s \in Steps, FollowItem(r, s) PROVE Following(r)
  BY <1>2 DEF FollowItem, Following
<1>3. ASSUME NEW r \in Runners, Following(r) PROVE Next
  BY <1>3, CommandsRun DEF Following
<1>4. ASSUME NEW b \in Bundles, MakePlan(b) PROVE UNCHANGED vars
  BY <1>4 DEF MakePlan
<1>5. QED
  BY <1>1, <1>2, <1>3, <1>4 DEF PlanNext, StoreStep, allVars

LEMMA PlanInitInv == PlanInit => PlanInv
<1> SUFFICES ASSUME PlanInit PROVE PlanInv
  OBVIOUS
<1>1. Init /\ plan = NoPlan /\ following = [r \in Runners |-> NoPlan]
  BY DEF PlanInit
<1>2. IInv
  BY <1>1, InitInv
<1>3. Requested
  BY <1>1 DEF Init, Requested
<1>4. PlanTypes /\ ApprovedStepsProceed
  BY <1>1 DEF PlanTypes, ApprovedStepsProceed
<1>5. QED
  BY <1>1, <1>2, <1>3, <1>4 DEF PlanInv

LEMMA RequestedStep ==
  ASSUME TypeOK, Owned, Requested, [Next]_vars
  PROVE  Requested'
<1>1. SUFFICES ASSUME NEW b \in Bundles, execution'[b] # None
               PROVE  \E q \in Requests : q.workflow = execution'[b].workflow
  BY DEF Requested
<1>2. CASE execution[b] # None
  BY <1>2, KeptStep DEF Requested
<1>3. CASE execution[b] = None
  <2>1. PICK r \in Runners : WriteExecution(r)
    BY <1>1, <1>3, StoreWriters
  <2>2. request[r] \in Requests
    BY <2>1 DEF WriteExecution, TypeOK
  <2>3. execution'[b].workflow = request[r].workflow
    BY <1>1, <1>3, <2>1 DEF WriteExecution, TypeOK
  <2>4. QED
    BY <2>2, <2>3
<1>4. QED
  BY <1>2, <1>3

(* A run keeps on following the plan it was started from. *)
LEMMA FollowsOn ==
  ASSUME IInv, [Next]_vars, NEW r \in Runners, NEW p \in Plans, Follows(r, p),
         pc'[r] # "idle"
  PROVE  Follows(r, p)'
<1>0. TypeOK /\ Owned
  BY DEF IInv
<1>1. Sound(p)'
  BY <1>0, SoundStep DEF Follows
<1>2. GoesOn(r) \/ LoadApprovals(r)
  <2>1. ~Forget(r)
    BY <1>0 DEF Forget, Goto, TypeOK
  <2>2. ~ \E q \in Requests : StartRun(r, q)
    BY DEF StartRun, Follows
  <2>3. QED
    BY <1>0, <2>1, <2>2, RunCases
<1>3. ASSUME LoadApprovals(r), source'[r] = p.bundle PROVE p.records \subseteq loaded'[r]
  <2>1. source[r] = p.bundle /\ p.bundle \in Bundles /\ p.bundle # LatestPath /\ p.bundle # NoBundle
    BY <1>3, BoundAssumption DEF LoadApprovals, Plans, Bundles, LatestPath, NoBundle
  <2>2. loaded'[r] = approvals[p.bundle]
    BY <1>0, <1>3, <2>1 DEF LoadApprovals, Deref, TypeOK
  <2>3. QED
    BY <2>2 DEF Follows, Sound
<1>4. request'[r] = request[r]
  BY <1>2 DEF GoesOn, LoadApprovals
<1>5. source'[r] = p.bundle => pc'[r] = "load" \/ p.records \subseteq loaded'[r]
  <2>1. CASE GoesOn(r)
    BY <2>1 DEF GoesOn, Follows
  <2>2. CASE LoadApprovals(r)
    BY <2>2, <1>3
  <2>3. QED
    BY <1>2, <2>1, <2>2
<1>6. QED
  BY <1>1, <1>4, <1>5 DEF Follows

(* Nor does it come to wait at a step the plan had a record of. *)
LEMMA ProceedsOn ==
  ASSUME IInv, [Next]_vars, NEW r \in Runners, NEW p \in Plans, Follows(r, p),
         pc'[r] # "idle", source'[r] = p.bundle,
         NEW s \in Steps, <<p.workflow, s>> \in p.records,
         source[r] = p.bundle => done[r][s].status # "approval_pending"
  PROVE  done'[r][s].status # "approval_pending"
<1>0. TypeOK /\ Owned
  BY DEF IInv
<1>1. GoesOn(r) \/ LoadApprovals(r)
  <2>1. ~Forget(r)
    BY <1>0 DEF Forget, Goto, TypeOK
  <2>2. ~ \E q \in Requests : StartRun(r, q)
    BY DEF StartRun, Follows
  <2>3. QED
    BY <1>0, <2>1, <2>2, RunCases
<1>2. CASE LoadApprovals(r)
  BY <1>2 DEF LoadApprovals
<1>3. CASE GoesOn(r)
  <2>1. source[r] = p.bundle /\ (pc[r] = "load" \/ p.records \subseteq loaded[r])
    BY <1>3 DEF GoesOn, Follows
  <2>2. GateOf(r, s) = <<p.workflow, s>>
    BY DEF GateOf, Follows
  <2>3. QED
    BY <1>3, <2>1, <2>2 DEF GoesOn
<1>4. QED
  BY <1>1, <1>2, <1>3

(* A run that starts from a plan has nothing done yet. *)
LEMMA Starts ==
  ASSUME IInv, [Next]_vars, NEW r \in Runners, NEW p \in Plans, Sound(p),
         NEW q \in Requests, q.workflow = p.workflow, q.approvals = LatestPath, StartRun(r, q)
  PROVE  /\ Follows(r, p)'
         /\ \A s \in Steps : done'[r][s].status # "approval_pending"
<1>0. TypeOK /\ Owned /\ InOrder
  BY DEF IInv
<1>1. Sound(p)'
  BY <1>0, SoundStep
<1>2. pc'[r] = "load" /\ request'[r] = q
  BY <1>0 DEF StartRun, Goto, TypeOK, LatestPath, NoBundle
<1>3. \A s \in Steps : done'[r][s].status = "none"
  BY <1>0 DEF StartRun, InOrder
<1>4. QED
  BY <1>1, <1>2, <1>3 DEF Follows

LEMMA PlanStep == PlanInv /\ [PlanNext]_allVars => PlanInv'
<1> SUFFICES ASSUME PlanInv, [PlanNext]_allVars PROVE PlanInv'
  OBVIOUS
<1>1. /\ [Next]_vars
      /\ \/ StoreStep
         \/ \E b \in Bundles : MakePlan(b)
         \/ \E r \in Runners : Following(r)
         \/ UNCHANGED allVars
  BY RuntimeSteps
<1>2. IInv /\ TypeOK /\ Owned /\ TypeOK'
  BY <1>1, InvStep DEF PlanInv, IInv
<1>3. IInv' /\ Requested'
  BY <1>1, <1>2, InvStep, RequestedStep DEF PlanInv
(* The plan of the last call. *)
<1>4. /\ plan' \in Plans \union {NoPlan}
      /\ \A p \in Plans : p = plan' /\ p # NoPlan => Sound(p)'
  <2>1. CASE plan' = plan
    <3>1. plan \in Plans \union {NoPlan} /\ \A p \in Plans : p = plan /\ p # NoPlan => Sound(p)
      BY DEF PlanInv, PlanTypes
    <3>2. QED
      BY <1>1, <1>2, <2>1, <3>1, SoundStep
  <2>2. CASE \E b \in Bundles : MakePlan(b)
    <3>1. PICK b \in Bundles : MakePlan(b)
      BY <2>2
    <3>2. plan' = PlanOf(b) /\ execution[b] # None
      BY <3>1 DEF MakePlan
    <3>3. PlanOf(b) \in Plans /\ Sound(PlanOf(b))
      BY <1>2, <3>2, PlanOfType, PlanOfSound
    <3>4. QED
      BY <1>1, <1>2, <3>2, <3>3, SoundStep
  <2>3. QED
    BY <1>1, <2>1, <2>2 DEF StoreStep, Following, allVars, planVars
(* The plans of the runs. *)
<1> DEFINE Goes(r, p) ==
             /\ Follows(r, p)'
             /\ source'[r] = p.bundle => \A s \in Steps :
                  <<p.workflow, s>> \in p.records => done'[r][s].status # "approval_pending"
           Kept == /\ following' \in [Runners -> Plans \union {NoPlan}]
                   /\ \A r \in Runners : \A p \in Plans :
                        p = following'[r] /\ p # NoPlan => Goes(r, p)
<1>5. ASSUME NEW r \in Runners, NEW p \in Plans, p = following[r], p # NoPlan,
             pc'[r] # "idle"
      PROVE  Goes(r, p)
  <2>1. Follows(r, p)
    BY <1>5 DEF PlanInv
  <2>2. Follows(r, p)'
    BY <1>1, <1>2, <1>5, <2>1, FollowsOn
  <2>3. ASSUME NEW s \in Steps, source'[r] = p.bundle, <<p.workflow, s>> \in p.records
        PROVE  done'[r][s].status # "approval_pending"
    <3>1. source[r] = p.bundle => done[r][s].status # "approval_pending"
      BY <1>5, <2>3 DEF PlanInv, ApprovedStepsProceed
    <3>2. QED
      BY <1>1, <1>2, <1>5, <2>1, <2>3, <3>1, ProceedsOn
  <2>4. QED
    BY <2>2, <2>3
<1>6. \A r \in Runners : \A p \in Plans : p = following[r] /\ p # NoPlan => pc[r] # "idle"
  BY DEF PlanInv, Follows
<1>7. following \in [Runners -> Plans \union {NoPlan}]
  BY DEF PlanInv, PlanTypes
<1>8. ASSUME Kept PROVE PlanInv'
  <2>1. (\A r \in Runners : \A p \in Plans : p = following[r] /\ p # NoPlan => Follows(r, p))'
    BY <1>8
  <2>2. PlanTypes'
    BY <1>4, <1>8 DEF PlanTypes
  <2>3. ApprovedStepsProceed'
    <3>1. SUFFICES ASSUME NEW r \in Runners, following'[r] # NoPlan,
                          source'[r] = following'[r].bundle, NEW s \in Steps,
                          <<following'[r].workflow, s>> \in following'[r].records
                   PROVE  done'[r][s].status # "approval_pending"
      BY DEF ApprovedStepsProceed
    <3>2. PICK p \in Plans : p = following'[r]
      BY <1>8, <3>1
    <3>3. Goes(r, p)
      BY <1>8, <3>1, <3>2
    <3>4. QED
      BY <3>1, <3>2, <3>3
  <2>4. QED
    BY <1>3, <1>4, <2>1, <2>2, <2>3 DEF PlanInv
<1>9. CASE StoreStep
  <2>1. following' = [r \in Runners |-> IF pc'[r] = "idle" THEN NoPlan ELSE following[r]]
    BY <1>9 DEF StoreStep
  <2>2. following' \in [Runners -> Plans \union {NoPlan}]
    BY <1>7, <2>1
  <2>3. \A r \in Runners : following'[r] # NoPlan => following'[r] = following[r] /\ pc'[r] # "idle"
    BY <2>1
  <2>4. Kept
    <3> HIDE DEF Goes
    <3>1. QED
      BY <1>5, <2>2, <2>3
  <2>5. QED
    BY <1>8, <2>4
<1>10. ASSUME UNCHANGED vars, following' = following PROVE PlanInv'
  <2>1. pc' = pc
    BY <1>10 DEF vars, runVars
  <2>2. Kept
    <3> HIDE DEF Goes
    <3>1. QED
      BY <1>5, <1>6, <1>7, <1>10, <2>1
  <2>3. QED
    BY <1>8, <2>2
<1>11. CASE \E r \in Runners : Following(r)
  <2>1. PICK x \in Runners : Following(x)
    BY <1>11
  <2>2. PICK p \in Plans : p = plan /\ p # NoPlan /\ Sound(p)
    BY <2>1 DEF Following, PlanInv, PlanTypes
  <2>3. PICK q : /\ q = PlanRequest(plan) \/ \E s \in Steps : q = ItemRequest(plan, s)
                 /\ StartRun(x, q)
    BY <2>1 DEF Following
  <2>4. q \in Requests /\ q.workflow = p.workflow /\ q.approvals = LatestPath
    BY <2>2, <2>3, CommandsRun
  <2>5. following' = [following EXCEPT ![x] = p]
    BY <2>1, <2>2 DEF Following
  <2>6. /\ following' \in [Runners -> Plans \union {NoPlan}] /\ following'[x] = p
        /\ \A r \in Runners : r # x => following'[r] = following[r] /\ pc'[r] = pc[r]
    BY <1>2, <1>7, <2>3, <2>5 DEF StartRun, Goto, TypeOK
  <2>7. /\ Follows(x, p)'
        /\ \A s \in Steps : done'[x][s].status # "approval_pending"
    BY <1>1, <1>2, <2>2, <2>3, <2>4, Starts
  <2>8. Goes(x, p)
    BY <2>7
  <2>9. Kept
    <3> HIDE DEF Goes
    <3>1. QED
      BY <1>5, <1>6, <2>6, <2>8
  <2>10. QED
    BY <1>8, <2>9
<1>12. QED
  BY <1>1, <1>9, <1>10, <1>11 DEF MakePlan, allVars, planVars

LEMMA PlanInvariant == PlanSpec => []PlanInv
BY PlanInitInv, PlanStep, PTL DEF PlanSpec
-----------------------------------------------------------------------------
(* The variables of the runtime and the plans clients hold are of their    *)
(* types: to follow a plan is to ask for a run there is.                   *)
THEOREM PlanTypeCorrect == PlanSpec => []PlanTypeOK
<1>1. PlanInv => PlanTypeOK
  BY DEF PlanInv, IInv, PlanTypes, PlanTypeOK
<1>2. QED
  BY <1>1, PlanInvariant, PTL

(* What a plan said of a bundle the bundle goes on saying, but for steps   *)
(* that have been approved since.                                          *)
THEOREM PlansKeepTheirWord == PlanSpec => []PlansOnlyImprove
<1>1. ASSUME PlanInv, plan # NoPlan
      PROVE  /\ plan.records \subseteq approvals[plan.bundle]
             /\ plan.workflow = execution[plan.bundle].workflow
             /\ \A s \in Steps : plan.items[s] # ItemsOf(plan.bundle)[s] =>
                  plan.items[s] = "approval_pending" /\ ItemsOf(plan.bundle)[s] = "approved_ready"
  <2>1. Sound(plan)
    BY <1>1 DEF PlanInv, PlanTypes
  <2>2. QED
    BY <2>1 DEF Sound
<1>2. PlanInv => PlansOnlyImprove
  BY <1>1 DEF PlansOnlyImprove
<1>3. QED
  BY <1>2, PlanInvariant, PTL

(* A run that follows a plan is not held up at a step the plan had an      *)
(* approval record of, as long as `latest` is the plan's bundle.           *)
THEOREM ApprovedProceed == PlanSpec => []ApprovedStepsProceed
<1>1. PlanInv => ApprovedStepsProceed
  BY DEF PlanInv
<1>2. QED
  BY <1>1, PlanInvariant, PTL
=============================================================================
