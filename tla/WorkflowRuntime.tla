--------------------------- MODULE WorkflowRuntime ---------------------------
(***************************************************************************)
(* The workflow runtime (internal/runtimeflow): runs of workflows, the     *)
(* evidence bundles they leave, the approvals recorded in those bundles    *)
(* and the `latest` link that names one of them.                           *)
(*                                                                         *)
(* Runs and approval calls are separate processes (CLI, MCP server, Signal *)
(* listener) that share nothing but the evidence directory, the policy     *)
(* file and the vault. Each file-system access that another process can    *)
(* see is a step of its own. A process can die between any two steps.      *)
(*                                                                         *)
(* Abstractions. An approval record is its (workflow, step) pair: actor,   *)
(* time and reason are data no decision after GrantApproval reads. A       *)
(* command's output is one of the outcomes the code tells apart. A step's  *)
(* vault handles are all present or not (vault). plan.md, report.html and  *)
(* the other files nobody reads back are not modelled.                     *)
(***************************************************************************)
EXTENDS Integers, Sequences

CONSTANTS
  Runners,     (* processes that call RunSelectedWithApprovals           *)
  Approvers,   (* processes that call GrantApproval                      *)
  Workflows, Steps,
  Plan,        (* [Workflows -> sequence of step ids], no id twice       *)
  Definition,  (* [Workflows -> [Steps -> StepSpec]]                     *)
  Policies,    (* the policy functions the policy file may come to hold  *)
  Vaults,      (* whether steps' vault handles may exist, may be missing *)
  Outcomes,    (* the outcomes a command may have                        *)
  Requests,    (* the runs clients ask for                               *)
  MaxBundles,  (* bound: evidence bundles created in one behaviour       *)
  None

Modes == {"dry-run", "execute"}
Decisions == {"allow", "require_approval", "deny"}
Failures == {"transient", "permanent"}
Gates == Workflows \X Steps
Bundles == 1..MaxBundles
NoBundle == 0      \* no bundle at all
LatestPath == -1   \* the path of the link itself, not what it points to
Refs == Bundles \union {NoBundle, LatestPath}

(* The fields of StepSpec that decide what happens to a step. lane is the  *)
(* transport, "none" standing for those the runtime does not perform (and  *)
(* for vssh without a node). retryOn is what RetrySpec's exit codes and    *)
(* substrings match; with neither list, it is every failure.               *)
StepSpecs == [approvalRequired : BOOLEAN, dependsOn : SUBSET Steps,
              fallbackFor : SUBSET Steps, lane : {"local", "vssh", "none"},
              command : BOOLEAN, vaultHandles : BOOLEAN, secretEnv : BOOLEAN,
              maxAttempts : Int, retryOn : SUBSET Failures]

AllRequests == [workflow : Workflows, mode : Modes, steps : SUBSET Steps,
                approvals : Refs]

ASSUME WorkflowAssumption ==
  /\ Plan \in [Workflows -> Seq(Steps)]
  /\ Definition \in [Workflows -> [Steps -> StepSpecs]]
  /\ Policies \subseteq [Gates -> Decisions]
  /\ Vaults \subseteq BOOLEAN
  /\ Outcomes \subseteq {"ok", "degraded", "held"} \union Failures
  /\ Requests \subseteq AllRequests

ASSUME BoundAssumption == MaxBundles \in Nat

ASSUME NoneAssumption ==
  /\ None \notin Gates
  /\ None \notin AllRequests
  /\ None \notin Steps

Statuses == {"none", "running", "ok", "fallback_ok", "fallback_not_needed",
             "approval_pending", "approved_not_executable", "dry_run_skipped",
             "policy_denied", "vault_missing", "secret_env_failed",
             "dependency_missing", "dependency_blocked",
             "fallback_source_missing", "retryable_failed", "failed"}

(* ExecutionResult.Success and "not Skipped" are functions of the status.  *)
Successful == {"ok", "fallback_ok", "fallback_not_needed", "approval_pending",
               "approved_not_executable", "dry_run_skipped"}
Performed == {"running", "ok", "fallback_ok", "retryable_failed", "failed"}
Failed == Statuses \ (Successful \union {"none", "running"})

Results == [status : Statuses, approvalRequired : BOOLEAN, vaultOK : BOOLEAN,
            degraded : BOOLEAN]
NoResult == [status |-> "none", approvalRequired |-> FALSE, vaultOK |-> TRUE,
             degraded |-> FALSE]
Executions == [workflow : Workflows, mode : Modes, steps : [Steps -> Results]]

VARIABLES
  (* the evidence directory *)
  created,    \* bundle directories made so far, numbered in order
  latest,     \* the bundle the link names, NoBundle when it is not there
  approvals,  \* [Bundles -> set of records in approvals.jsonl]
  execution,  \* [Bundles -> what execution.json holds, None before]
  (* what the operator may change at any time *)
  policy,     \* the decision policy.Evaluate gives each step's action
  vault,      \* the vault handles that steps name exist
  (* one run *)
  pc, request,
  source,     \* the bundle or path --approvals resolved to
  loaded,     \* the records ListApprovals returned
  bundle, todo, done, step, attempt,
  (* one GrantApproval call *)
  gpc, target, record,
  (* history: the gates somebody has approved *)
  granted

storeVars == <<created, latest, approvals, execution>>
envVars == <<policy, vault>>
runVars == <<pc, request, source, loaded, bundle, todo, done, step, attempt>>
grantVars == <<gpc, target, record>>
vars == <<storeVars, envVars, runVars, grantVars, granted>>

Pcs == {"idle", "load", "create", "unlink", "link", "steps", "secrets",
        "command", "held", "write_approvals", "write_execution"}

TypeOK ==
  /\ created \in 0..MaxBundles
  /\ latest \in Bundles \union {NoBundle}
  /\ approvals \in [Bundles -> SUBSET Gates]
  /\ execution \in [Bundles -> Executions \union {None}]
  /\ policy \in Policies
  /\ vault \in Vaults
  /\ pc \in [Runners -> Pcs]
  /\ request \in [Runners -> Requests \union {None}]
  /\ source \in [Runners -> Refs]
  /\ loaded \in [Runners -> SUBSET Gates]
  /\ bundle \in [Runners -> Bundles \union {NoBundle}]
  /\ todo \in [Runners -> SUBSET Steps]
  /\ done \in [Runners -> [Steps -> Results]]
  /\ step \in [Runners -> Steps \union {None}]
  /\ attempt \in [Runners -> Nat]
  /\ gpc \in [Approvers -> {"idle", "load", "append"}]
  /\ target \in [Approvers -> Refs]
  /\ record \in [Approvers -> Gates \union {None}]
  /\ granted \in SUBSET Gates
  /\ \A r \in Runners : request[r] = None <=> pc[r] = "idle"
  /\ \A r \in Runners : step[r] = None <=> pc[r] \notin {"secrets", "command", "held"}
  /\ \A a \in Approvers : record[a] = None <=> gpc[a] # "append"

Init ==
  /\ created = 0
  /\ latest = NoBundle
  /\ approvals = [b \in Bundles |-> {}]
  /\ execution = [b \in Bundles |-> None]
  /\ policy \in Policies
  /\ vault \in Vaults
  /\ pc = [r \in Runners |-> "idle"]
  /\ request = [r \in Runners |-> None]
  /\ source = [r \in Runners |-> NoBundle]
  /\ loaded = [r \in Runners |-> {}]
  /\ bundle = [r \in Runners |-> NoBundle]
  /\ todo = [r \in Runners |-> {}]
  /\ done = [r \in Runners |-> [s \in Steps |-> NoResult]]
  /\ step = [r \in Runners |-> None]
  /\ attempt = [r \in Runners |-> 0]
  /\ gpc = [a \in Approvers |-> "idle"]
  /\ target = [a \in Approvers |-> NoBundle]
  /\ record = [a \in Approvers |-> None]
  /\ granted = {}

-----------------------------------------------------------------------------
(* Resolving references to bundles (resolveBundle, LatestBundle). When the *)
(* link is missing, LatestBundle answers with the link's own path, so the  *)
(* later access goes wherever the link points by then.                     *)
Resolve(ref) == IF ref = LatestPath /\ latest # NoBundle THEN latest ELSE ref
Deref(t) == IF t = LatestPath THEN latest ELSE t

(* The gates of recorded results whose step required approval.             *)
Asked == {g \in Gates : \E b \in Bundles :
            /\ execution[b] # None
            /\ execution[b].workflow = g[1]
            /\ execution[b].steps[g[2]].approvalRequired}
-----------------------------------------------------------------------------
(* What happens to one step, in the order of the code's early returns.     *)

(* A step needs approval when its definition or the policy says so.        *)
Required(g) == Definition[g[1]][g[2]].approvalRequired \/ policy[g] = "require_approval"

VaultOK(spec) == spec.vaultHandles \/ spec.secretEnv => vault

MaxAttempts(spec) == IF spec.maxAttempts <= 1 THEN 1
                     ELSE IF spec.maxAttempts > 10 THEN 10 ELSE spec.maxAttempts

(* Mutant: a fallback runs unless its source succeeded with a command, so  *)
(* a source that waits for approval starts it.                             *)
EagerFallbackVerdict(mode, spec, prior) ==
  IF mode # "execute" \/ spec.fallbackFor = {} THEN "pass"
  ELSE IF \E f \in spec.fallbackFor : prior[f].status = "none" THEN "fallback_source_missing"
  ELSE IF \E f \in spec.fallbackFor : prior[f].status # "ok" THEN "pass"
  ELSE "fallback_not_needed"

(* fallbackGateResult: a fallback runs only after a source step failed.    *)
FallbackVerdict(mode, spec, prior) ==
  IF mode # "execute" \/ spec.fallbackFor = {} THEN "pass"
  ELSE IF \E f \in spec.fallbackFor : prior[f].status = "none" THEN "fallback_source_missing"
  ELSE IF \E f \in spec.fallbackFor : prior[f].status \in Failed THEN "pass"
  ELSE "fallback_not_needed"

(* dependencyBlockedResult: which of several bad dependencies is reported  *)
(* depends on the order in which the definition lists them.                *)
DependencyVerdicts(mode, spec, prior) ==
  IF mode # "execute" THEN {}
  ELSE {v \in {"dependency_missing", "dependency_blocked"} : \E d \in spec.dependsOn :
          IF v = "dependency_missing" THEN prior[d].status = "none"
                                      ELSE prior[d].status \notin {"none", "ok"}}

(* Mutant: only the policy's demand for approval is checked.               *)
PolicyOnlyVerdict(g, mode, spec, approved) ==
  IF policy[g] = "deny" THEN "policy_denied"
  ELSE IF mode = "execute" /\ ~VaultOK(spec) THEN "vault_missing"
  ELSE IF policy[g] = "require_approval" /\ g[2] \notin approved THEN "approval_pending"
  ELSE IF mode = "execute" /\ spec.lane # "none" /\ spec.command THEN "running"
  ELSE IF Required(g) THEN "approved_not_executable"
  ELSE "dry_run_skipped"

(* runStep, up to the point where a command would start. approved: the     *)
(* step ids in the run's approval map.                                     *)
StepVerdict(g, mode, spec, approved) ==
  IF policy[g] = "deny" THEN "policy_denied"
  ELSE IF mode = "execute" /\ ~VaultOK(spec) THEN "vault_missing"
  ELSE IF Required(g) /\ g[2] \notin approved THEN "approval_pending"
  ELSE IF mode = "execute" /\ spec.lane # "none" /\ spec.command THEN "running"
  ELSE IF Required(g) THEN "approved_not_executable"
  ELSE "dry_run_skipped"

(* The step the loop of RunSelectedWithApprovals comes to next.            *)
IsNext(r, s) ==
  \E i \in DOMAIN Plan[request[r].workflow] :
    /\ s = Plan[request[r].workflow][i]
    /\ s \in todo[r]
    /\ \A j \in 1..(i - 1) : Plan[request[r].workflow][j] \notin todo[r]

SpecOf(r, s) == Definition[request[r].workflow][s]
GateOf(r, s) == <<request[r].workflow, s>>
-----------------------------------------------------------------------------
(* RunSelectedWithApprovals *)

Goto(r, label) == pc' = [pc EXCEPT ![r] = label]

(* The process is gone, or the call has returned: nothing of it is left    *)
(* but what it put in the evidence directory.                              *)
Forget(r) ==
  /\ Goto(r, "idle")
  /\ request' = [request EXCEPT ![r] = None]
  /\ source' = [source EXCEPT ![r] = NoBundle]
  /\ loaded' = [loaded EXCEPT ![r] = {}]
  /\ bundle' = [bundle EXCEPT ![r] = NoBundle]
  /\ todo' = [todo EXCEPT ![r] = {}]
  /\ done' = [done EXCEPT ![r] = [s \in Steps |-> NoResult]]
  /\ step' = [step EXCEPT ![r] = None]
  /\ attempt' = [attempt EXCEPT ![r] = 0]

(* Start a run. selectSteps refuses ids that are not in the workflow. An   *)
(* empty approvals reference reads no approvals.                           *)
StartRun(r, q) ==
  /\ pc[r] = "idle"
  /\ q.steps \subseteq {Plan[q.workflow][i] : i \in DOMAIN Plan[q.workflow]}
  /\ q.approvals \in 1..created \union {NoBundle, LatestPath}
  /\ request' = [request EXCEPT ![r] = q]
  /\ todo' = [todo EXCEPT ![r] = q.steps]
  /\ source' = [source EXCEPT ![r] = Resolve(q.approvals)]
  /\ Goto(r, IF q.approvals = NoBundle THEN "create" ELSE "load")
  /\ UNCHANGED <<storeVars, envVars, grantVars, granted, loaded, bundle, done, step, attempt>>

(* ListApprovals: a missing approvals.jsonl, or a missing bundle, reads as *)
(* "no approvals". All records are kept, other workflows' ones too.        *)
LoadApprovals(r) ==
  /\ pc[r] = "load"
  /\ loaded' = [loaded EXCEPT ![r] =
                  IF Deref(source[r]) = NoBundle THEN {} ELSE approvals[Deref(source[r])]]
  /\ Goto(r, "create")
  /\ UNCHANGED <<storeVars, envVars, grantVars, granted,
                 request, source, bundle, todo, done, step, attempt>>

(* Mutant: directory names without the nanoseconds, so that a run may get  *)
(* the directory of one that started in the same second.                   *)
SharedCreateBundle(r) ==
  /\ pc[r] = "create"
  /\ created < MaxBundles
  /\ \E b \in {created, created + 1} \ {NoBundle} :
       created' = b /\ bundle' = [bundle EXCEPT ![r] = b]
  /\ Goto(r, "unlink")
  /\ UNCHANGED <<latest, approvals, execution, envVars, grantVars, granted,
                 request, source, loaded, todo, done, step, attempt>>

(* createBundleDir: make the directory, then move the link in two steps    *)
(* whose errors are ignored, before anything is in the bundle.             *)
CreateBundle(r) ==
  /\ pc[r] = "create"
  /\ created < MaxBundles
  /\ created' = created + 1
  /\ bundle' = [bundle EXCEPT ![r] = created + 1]
  /\ Goto(r, "unlink")
  /\ UNCHANGED <<latest, approvals, execution, envVars, grantVars, granted,
                 request, source, loaded, todo, done, step, attempt>>

(* The directory cannot be made, and the run ends with that error. Beyond  *)
(* MaxBundles this is the only outcome.                                    *)
CreateFails(r) ==
  /\ pc[r] = "create"
  /\ created = MaxBundles
  /\ Forget(r)
  /\ UNCHANGED <<storeVars, envVars, grantVars, granted>>

UnlinkLatest(r) ==
  /\ pc[r] = "unlink"
  /\ latest' = NoBundle
  /\ Goto(r, "link")
  /\ UNCHANGED <<created, approvals, execution, envVars, grantVars, granted,
                 request, source, loaded, bundle, todo, done, step, attempt>>

(* Mutant: wait for the link to be free instead of ignoring the error.     *)
WaitingLinkLatest(r) ==
  /\ pc[r] = "link"
  /\ latest = NoBundle
  /\ latest' = bundle[r]
  /\ Goto(r, "steps")
  /\ UNCHANGED <<created, approvals, execution, envVars, grantVars, granted,
                 request, source, loaded, bundle, todo, done, step, attempt>>

(* os.Symlink fails, silently, when another run has put the link back.     *)
LinkLatest(r) ==
  /\ pc[r] = "link"
  /\ latest' = IF latest = NoBundle THEN bundle[r] ELSE latest
  /\ Goto(r, "steps")
  /\ UNCHANGED <<created, approvals, execution, envVars, grantVars, granted,
                 request, source, loaded, bundle, todo, done, step, attempt>>

(* Mutant: the map is made from every record loaded.                       *)
AnyWorkflowMap(r) == {g[2] : g \in loaded[r]}

(* The steps in the run's approval map, which is made from the records of  *)
(* its own workflow only and looked up by step id.                         *)
ApprovalMap(r) == {g[2] : g \in {x \in loaded[r] : x[1] = request[r].workflow}}

Verdict(r, s) == StepVerdict(GateOf(r, s), request[r].mode, SpecOf(r, s), ApprovalMap(r))
Fallback(r, s) == FallbackVerdict(request[r].mode, SpecOf(r, s), done[r])
Dependency(r, s) == DependencyVerdicts(request[r].mode, SpecOf(r, s), done[r])

Finish(r, s, result) ==
  /\ done' = [done EXCEPT ![r][s] = result]
  /\ todo' = [todo EXCEPT ![r] = @ \ {s}]

(* A fallback or dependency gate decides the step. classifyExecutionResult *)
(* names a failed one vault_missing when a handle is missing as well, and  *)
(* the result never says that the step needs approval.                     *)
GateStep(r, s, v) ==
  /\ pc[r] = "steps"
  /\ IsNext(r, s)
  /\ v \in IF Fallback(r, s) # "pass" THEN {Fallback(r, s)} ELSE Dependency(r, s)
  /\ Finish(r, s, [status |-> IF v = "fallback_not_needed" \/ VaultOK(SpecOf(r, s))
                              THEN v ELSE "vault_missing",
                   approvalRequired |-> FALSE,
                   vaultOK |-> VaultOK(SpecOf(r, s)), degraded |-> FALSE])
  /\ UNCHANGED <<storeVars, envVars, grantVars, granted, pc,
                 request, source, loaded, bundle, step, attempt>>

(* runStep: the step is denied, skipped or left waiting, or its command is *)
(* admitted. A local command that uses secrets reads the vault once more.  *)
RunStep(r, s) ==
  /\ pc[r] = "steps"
  /\ IsNext(r, s)
  /\ Fallback(r, s) = "pass"
  /\ Dependency(r, s) = {}
  /\ Finish(r, s, [status |-> Verdict(r, s), approvalRequired |-> Required(GateOf(r, s)),
                   vaultOK |-> VaultOK(SpecOf(r, s)), degraded |-> FALSE])
  /\ IF Verdict(r, s) = "running"
     THEN /\ step' = [step EXCEPT ![r] = s]
          /\ attempt' = [attempt EXCEPT ![r] = 1]
          /\ Goto(r, IF SpecOf(r, s).lane = "local" /\ SpecOf(r, s).secretEnv
                     THEN "secrets" ELSE "command")
     ELSE UNCHANGED <<step, attempt, pc>>
  /\ UNCHANGED <<storeVars, envVars, grantVars, granted,
                 request, source, loaded, bundle>>

(* Mutant: the run still has the step as its current one.                  *)
LingeringEndStep(r, status, degraded) ==
  /\ done' = [done EXCEPT ![r][step[r]] =
                 [@ EXCEPT !.status = status, !.degraded = degraded]]
  /\ attempt' = [attempt EXCEPT ![r] = 0]
  /\ Goto(r, "steps")
  /\ UNCHANGED step

(* The command of the admitted step is over, with this status.             *)
EndStep(r, status, degraded) ==
  /\ done' = [done EXCEPT ![r][step[r]] =
                 [@ EXCEPT !.status = status, !.degraded = degraded]]
  /\ step' = [step EXCEPT ![r] = None]
  /\ attempt' = [attempt EXCEPT ![r] = 0]
  /\ Goto(r, "steps")

(* guardvault.ResolveEnv, after the preflight looked at the same handles.  *)
(* It fails when a handle has gone, or when the value cannot be read.      *)
ResolveSecrets(r) ==
  /\ pc[r] = "secrets"
  /\ \/ vault /\ Goto(r, "command") /\ UNCHANGED <<done, step, attempt>>
     \/ EndStep(r, "secret_env_failed", FALSE)
  /\ UNCHANGED <<storeVars, envVars, grantVars, granted,
                 request, source, loaded, bundle, todo>>

(* A failed attempt is repeated when the retry rules match it and attempts *)
(* are left.                                                               *)
Repeats(r, o) ==
  /\ o \in SpecOf(r, step[r]).retryOn
  /\ attempt[r] < MaxAttempts(SpecOf(r, step[r]))

(* One attempt of the command, local or through vssh. The timeout kills    *)
(* the command itself; cmd.Run then still waits for its output to be       *)
(* closed, and the process group is killed only after that. So a child the *)
(* command leaves behind, with the output still open, holds up the run.    *)
RunAttempt(r, o) ==
  /\ pc[r] = "command"
  /\ IF o = "held"
     THEN Goto(r, "held") /\ UNCHANGED <<done, step, attempt>>
     ELSE IF o \in Failures /\ Repeats(r, o)
     THEN /\ attempt' = [attempt EXCEPT ![r] = @ + 1]
          /\ UNCHANGED <<done, step, pc>>
     ELSE EndStep(r, IF o = "transient" THEN "retryable_failed"
                     ELSE IF o = "permanent" THEN "failed"
                     ELSE IF SpecOf(r, step[r]).fallbackFor # {} THEN "fallback_ok"
                     ELSE "ok",
                  o = "degraded")
  /\ UNCHANGED <<storeVars, envVars, grantVars, granted,
                 request, source, loaded, bundle, todo>>

FinishSteps(r) ==
  /\ pc[r] = "steps"
  /\ todo[r] = {}
  /\ Goto(r, "write_approvals")
  /\ UNCHANGED <<storeVars, envVars, grantVars, granted,
                 request, source, loaded, bundle, todo, done, step, attempt>>

(* writeBundle: approvals.jsonl first, and only when there are records; it *)
(* replaces what is there. Then execution.json, which makes the bundle one *)
(* that can be resumed and granted.                                        *)
WriteApprovals(r) ==
  /\ pc[r] = "write_approvals"
  /\ approvals' = IF loaded[r] = {} THEN approvals
                  ELSE [approvals EXCEPT ![bundle[r]] = loaded[r]]
  /\ Goto(r, "write_execution")
  /\ UNCHANGED <<created, latest, execution, envVars, grantVars, granted,
                 request, source, loaded, bundle, todo, done, step, attempt>>

WriteExecution(r) ==
  /\ pc[r] = "write_execution"
  /\ execution' = [execution EXCEPT ![bundle[r]] =
       [workflow |-> request[r].workflow, mode |-> request[r].mode, steps |-> done[r]]]
  /\ Forget(r)
  /\ UNCHANGED <<created, latest, approvals, envVars, grantVars, granted>>

(* The process dies, or a file-system error ends the call early.           *)
Crash(r) ==
  /\ pc[r] # "idle"
  /\ Forget(r)
  /\ UNCHANGED <<storeVars, envVars, grantVars, granted>>
-----------------------------------------------------------------------------
(* GrantApproval *)

GrantResolve(a, ref) ==
  /\ gpc[a] = "idle"
  /\ ref \in 1..created \union {LatestPath}
  /\ gpc' = [gpc EXCEPT ![a] = "load"]
  /\ target' = [target EXCEPT ![a] = Resolve(ref)]
  /\ UNCHANGED <<storeVars, envVars, runVars, granted, record>>

(* Mutant: a step that did not need approval can be approved in advance.   *)
UncheckedGrantLoad(a, s) ==
  /\ gpc[a] = "load"
  /\ Deref(target[a]) # NoBundle
  /\ execution[Deref(target[a])] # None
  /\ execution[Deref(target[a])].steps[s].status # "none"
  /\ gpc' = [gpc EXCEPT ![a] = "append"]
  /\ record' = [record EXCEPT ![a] = <<execution[Deref(target[a])].workflow, s>>]
  /\ UNCHANGED <<storeVars, envVars, runVars, granted, target>>

(* loadResult, then the checks: the step must be in the result and must    *)
(* have needed approval (a strong one also needs a reason, which is data). *)
GrantLoad(a, s) ==
  /\ gpc[a] = "load"
  /\ Deref(target[a]) # NoBundle
  /\ execution[Deref(target[a])] # None
  /\ execution[Deref(target[a])].steps[s].approvalRequired
  /\ gpc' = [gpc EXCEPT ![a] = "append"]
  /\ record' = [record EXCEPT ![a] = <<execution[Deref(target[a])].workflow, s>>]
  /\ UNCHANGED <<storeVars, envVars, runVars, granted, target>>

EndGrant(a) ==
  /\ gpc' = [gpc EXCEPT ![a] = "idle"]
  /\ target' = [target EXCEPT ![a] = NoBundle]
  /\ record' = [record EXCEPT ![a] = None]

(* Mutant: the file is written anew instead of appended to.                *)
TruncatingGrantAppend(a) ==
  /\ gpc[a] = "append"
  /\ Deref(target[a]) # NoBundle
  /\ approvals' = [approvals EXCEPT ![Deref(target[a])] = {record[a]}]
  /\ granted' = granted \union {record[a]}
  /\ EndGrant(a)
  /\ UNCHANGED <<created, latest, execution, envVars, runVars>>

(* The line is appended to the bundle's approvals.jsonl.                   *)
GrantAppend(a) ==
  /\ gpc[a] = "append"
  /\ Deref(target[a]) # NoBundle
  /\ approvals' = [approvals EXCEPT ![Deref(target[a])] = @ \union {record[a]}]
  /\ granted' = granted \union {record[a]}
  /\ EndGrant(a)
  /\ UNCHANGED <<created, latest, execution, envVars, runVars>>

(* A check refuses the grant, a file is not there, or the process dies.    *)
GrantFail(a) ==
  /\ gpc[a] # "idle"
  /\ EndGrant(a)
  /\ UNCHANGED <<storeVars, envVars, runVars, granted>>
-----------------------------------------------------------------------------
(* The operator edits the policy file, or imports or deletes a handle.     *)
EditPolicy(p) ==
  /\ p # policy
  /\ policy' = p
  /\ UNCHANGED <<storeVars, runVars, grantVars, granted, vault>>

ChangeVault(v) ==
  /\ v # vault
  /\ vault' = v
  /\ UNCHANGED <<storeVars, runVars, grantVars, granted, policy>>

RunnerStep(r) ==
  \/ LoadApprovals(r)
  \/ CreateBundle(r)
  \/ CreateFails(r)
  \/ UnlinkLatest(r)
  \/ LinkLatest(r)
  \/ \E s \in Steps : RunStep(r, s) \/ \E v \in Statuses : GateStep(r, s, v)
  \/ ResolveSecrets(r)
  \/ \E o \in Outcomes : RunAttempt(r, o)
  \/ FinishSteps(r)
  \/ WriteApprovals(r)
  \/ WriteExecution(r)

Runner(r) == RunnerStep(r) \/ Crash(r) \/ \E q \in Requests : StartRun(r, q)

Approver(a) ==
  \/ \E ref \in Refs : GrantResolve(a, ref)
  \/ \E s \in Steps : GrantLoad(a, s)
  \/ GrantAppend(a)
  \/ GrantFail(a)

Next ==
  \/ \E r \in Runners : Runner(r)
  \/ \E a \in Approvers : Approver(a)
  \/ \E p \in Policies : EditPolicy(p)
  \/ \E v \in Vaults : ChangeVault(v)

Spec == Init /\ [][Next]_vars

(* Every process goes on as long as it lives; whether a client starts a    *)
(* run, grants or edits anything, and whether a process dies, is open.     *)
FairSpec == Spec /\ \A r \in Runners : WF_vars(RunnerStep(r))
-----------------------------------------------------------------------------
(* Properties *)

(* Results of a run: of one under way (done) or of a recorded one.         *)
GrantedIn(w, results) ==
  \A s \in Steps : results[s].status \in Performed /\ results[s].approvalRequired
                     => <<w, s>> \in granted

(* No step that needed approval when it came up has its command performed  *)
(* unless that step of that very workflow was granted: runStep's approval  *)
(* gate, across bundles that pass records on from run to run.              *)
PerformedNeedsGrant ==
  /\ \A r \in Runners : request[r] # None => GrantedIn(request[r].workflow, done[r])
  /\ \A b \in Bundles : execution[b] # None =>
       GrantedIn(execution[b].workflow, execution[b].steps)

DueIn(w, mode, results) ==
  \A s \in Steps : results[s].status \in Performed =>
    /\ mode = "execute"
    /\ \A d \in Definition[w][s].dependsOn : results[d].status = "ok"
    /\ Definition[w][s].fallbackFor # {} =>
         \E f \in Definition[w][s].fallbackFor : results[f].status \in Failed

(* A command is performed only in execute mode, after every step it        *)
(* depends on ended "ok" in the same run, and, when it is a fallback, only *)
(* after a step it stands in for failed: the two gates of the run loop     *)
(* (fallbackGateResult, dependencyBlockedResult), read back from results.  *)
PerformedOnlyWhenDue ==
  /\ \A r \in Runners : request[r] # None =>
       DueIn(request[r].workflow, request[r].mode, done[r])
  /\ \A b \in Bundles : execution[b] # None =>
       DueIn(execution[b].workflow, execution[b].mode, execution[b].steps)

(* Once execution.json makes a bundle one that can be granted, no run and  *)
(* no grant changes its results or removes an approval from it: the order  *)
(* of writes in writeBundle, against concurrent GrantApproval calls.       *)
EvidenceKept ==
  [][\A b \in Bundles : execution[b] # None =>
       execution'[b] = execution[b] /\ approvals[b] \subseteq approvals'[b]]_vars

(* A run that was started ends: the retry loop, the gates and the link     *)
(* cannot hold it up, whatever other runs do. That takes timeouts that end *)
(* every attempt ("timeout_seconds" of a step, docs/GUARD.md:429).         *)
EveryRunEnds == \A r \in Runners : pc[r] # "idle" ~> pc[r] = "idle"

(* What the three invariants rest on.                                      *)

(* A bundle is written by the run that made it, and by it alone.           *)
Owned ==
  /\ \A r \in Runners : bundle[r] # NoBundle <=> pc[r] \notin {"idle", "load", "create"}
  /\ \A r \in Runners : bundle[r] # NoBundle =>
       bundle[r] <= created /\ execution[bundle[r]] = None
  /\ \A r, x \in Runners : bundle[r] # NoBundle /\ bundle[r] = bundle[x] => r = x
  /\ \A b \in Bundles : b > created => execution[b] = None

(* Every record anywhere comes from a grant, and every grant from a result *)
(* that asked for it: no copy, reload or crash makes up an approval.       *)
Provenance ==
  /\ \A b \in Bundles : approvals[b] \subseteq granted
  /\ \A r \in Runners : loaded[r] \subseteq granted
  /\ \A a \in Approvers : gpc[a] = "append" => record[a] \in Asked
  /\ granted \subseteq Asked

(* Steps still to do have no result, and one step at most is under way.    *)
InOrder ==
  \A r \in Runners, s \in Steps :
    /\ s \in todo[r] \/ pc[r] = "idle" => done[r][s].status = "none"
    /\ done[r][s].status = "running" <=> step[r] = s

(* A command under way is at one of the attempts that its step may have.   *)
Attempted ==
  \A r \in Runners :
    attempt[r] \in IF step[r] = None THEN {0} ELSE 1..MaxAttempts(SpecOf(r, step[r]))

IInv == TypeOK /\ Owned /\ Provenance /\ InOrder /\ Attempted
                /\ PerformedNeedsGrant /\ PerformedOnlyWhenDue

(* The abstract view: rules from policy and definitions, gates asked for   *)
(* from recorded results, admission while secrets are read and a command   *)
(* is under way.                                                           *)
Rule(g) == IF policy[g] = "deny" THEN "deny"
           ELSE IF Required(g) THEN "require_approval" ELSE "allow"

Gate == INSTANCE ApprovalGate WITH
  Runs <- Runners, NoGate <- None,
  rule <- [g \in Gates |-> Rule(g)],
  asked <- Asked,
  admitted <- [r \in Runners |-> IF pc[r] \in {"secrets", "command", "held"}
                                 THEN GateOf(r, step[r]) ELSE None]

(* The runtime implements the approval gate: commands are admitted only by *)
(* the rule in force at that moment, and only what a recorded run left     *)
(* waiting can be granted.                                                 *)
ImplementsGate == Gate!Spec
=============================================================================
