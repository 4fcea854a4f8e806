# MeshClaw in TLA+

TLA+ models of MeshClaw's workflow runtime, job scheduler, mail approvals,
policy, self-heal and reconcile chains, mission store, guard vault and price
watches, their model checking with TLC, and proofs checked by TLAPS. Paths below
are relative to `src/`; line numbers are those of the commit this project was
written for. `PROJECT.json` lists every definition with the lines it stands for.

## 1. The system

MeshClaw is a command line tool, an MCP server and a set of launchd agents that
let people and AI clients operate a fleet of machines. Every invocation is a
process of its own. Processes share no memory and take no locks on files: all
coordination goes through JSON files under the home directory, and most of what
can go wrong goes wrong there.

| component | state it keeps | operations | interacts with | what makes it correct |
|---|---|---|---|---|
| workflow runtime (`internal/runtimeflow`) | evidence bundles: a directory per run with `execution.json`, `approvals.jsonl`, and the link `latest` | run a workflow (dry-run or execute, whole or selected steps, with the approvals of a bundle), grant a step | policy, vault, transports; called by CLI, MCP and Signal listener | a gated command runs only when granted; commands run in their order; evidence is neither lost nor invented; runs end |
| resume and execute plans (same package) | none | classify a bundle's results, say whether a run could go on, print commands | reads bundles; clients act on the plan later | a plan stays true until it is followed; "ready" means ready |
| policy (`internal/policy`) | `policy.json`, cached by path, size and mtime | evaluate an action, load | asked by the runtime at each step | the decision is that of the file in force |
| guard vault (`internal/guardvault`) | an entry file per handle, sealed under a master key or described beside a password manager | put, link, use, delete, resolve to environment variables | CLI, guard page, listener; runtime's preflight and local commands | no command without its secrets; what was put can be opened and is what its fingerprint says |
| scheduler (`internal/scheduler`) | `schedule-state.json`: when each job last ran | run-due, run-once, status | launchd starts run-due; jobs call the rest | each job runs when it should, and only then |
| mail watch (scheduler, `internal/mailadapter`) | `mail-watch-state.json`: seen ids and errors per account | list recent mail, filter, announce | scheduler, IMAP, messenger | new mail is announced, once |
| messenger (`internal/messenger`) | pending mail sends, in memory and in a file, pending Mac actions, in memory, each with a TTL | receive, draft, revise, show, approve, send | Signal, mail adapter, osauto | what is sent was approved as shown, once; a yes is never guessed |
| evidence store (`internal/evidence`) | one file per record, never changed | store, load | every report | a record says what was so when it was made |
| self-heal chain (`internal/monitor`, `cmd/meshclaw`) | evidence records, each made of the one before; live executor runs | autoheal plan, nine reports, executor, closeout | node reports, policy, MCP clients, ssh | only approved restarts; a closeout is true |
| reconciler and its chain (`internal/reconciler`, `cmd/meshclaw`) | evidence records | compare desired and actual nodes, approval request, nine reports | node reports, desired file, policy, MCP clients | drift is exactly what differs; what is ready covers it |
| mission store (`internal/mission`) | one JSON file per mission | update, add a task or an artifact, complete a task | MCP servers, publications | what was reported stays so; an id means one item |
| assistant watch (`internal/assistantwatch`) | one JSON file for all watches | create, disable, check those due | listener, CLI, scheduler | on and off as asked; no check before its cadence |
| threshold monitor and heals of nodes | node states, healing cooldowns, in memory | check, heal | ssh | no healing storm, no neglected node |
| capability, inventory, workers, fleet, nodestate, opsdb | tables in JSON or SQLite | list, validate, collect | read by plans and commands | pure data |
| assistant, news, audio, OS automation, guard scanners, hygiene checks, scripts | caches and reports | fetch, format, publish, run host commands | everything above | outside the reach of a model |

Behaviours that are hard here: two runs that move the same link, a grant while a
run is recorded, approvals that travel from bundle to bundle and from workflow
to workflow, plans that clients follow later, retries and timeouts, processes
that die between two writes, files that are truncated and then written, timers
that fire while the last run goes on, approvals that wait in a map and a file
with different lives, evidence of any age that clients combine at will, a cached
file that is edited while it is read. `PROJECT.json` lists each under "hazards"
at its line.

## 2. The modules

    ApprovalGate           what is promised about approvals
        ^ implemented by
    WorkflowRuntime        runs, bundles, approvals, grants
        ^ extended by      ^ proofs in WorkflowRuntime_proofs
    ResumePlan             plans and clients that follow them

    ScheduleRunner         run-due, its state file, launchd's timer
        ^ extended by
    MailWatch              the mail-watch job in its place in the schedule

    PendingMail            mail drafts approved over Signal

    EvidenceStore          records that calls hand on by their path
        ^ extended by
    HealChain              autoheal plan to live executor and closeout
    ReconcileChain         approval request to readiness summary
        ^ extends too
    Reconciler             DiffNode, and what desired states mean

    Policy                 presets, rules, built-in decisions
        ^ extended by
    PolicyFile             the policy file and the cache of it

    MissionStore           missions changed by several servers
    VaultStore             a secret's entry, its key and its password manager
    AssistantWatch         price watches created, disabled and checked

Theorems and proofs are in modules of their own, each of which extends the modules
it is about: `WorkflowRuntime_proofs`, `ResumePlan_proofs`, `MailWatch_proofs`
(with the scheduler), `PendingMail_proofs`, `PolicyFile_proofs`, `Clients_proofs`
(both chains and the mission store), `VaultStore_proofs`, `AssistantWatch_proofs`.

`MCWorkflowRuntime`, `MCResumePlan`, `MCMailWatch` and `MCPendingMail` hold the
small workflows and plans the `.cfg` files use. `MCClients` puts what MCP clients
and other short-lived processes share side by side: `HealChain`,
`ReconcileChain`, `PolicyFile`, `MissionStore`, `VaultStore` and
`AssistantWatch`, of which each behaviour takes one (`part`): they touch none of
each other's files. The chains meet `Policy` in its decisions, which the
reconcile chain of `MCClients` gets from `Evaluate`.

**WorkflowRuntime.** A runner is a process inside `RunSelectedWithApprovals`, an
approver one inside `GrantApproval`. `pc[r]` says which file-system access or
command comes next, and each such access is a step:

| action | code |
|---|---|
| `StartRun`, `LoadApprovals` | select steps, resolve `--approvals`, `ListApprovals` |
| `CreateBundle`, `UnlinkLatest`, `LinkLatest` | `createBundleDir`: mkdir, `os.Remove`, `os.Symlink`, errors ignored |
| `GateStep`, `RunStep` | `fallbackGateResult`, `dependencyBlockedResult`, `runStep` up to the command |
| `ResolveSecrets`, `RunAttempt` | `guardvault.ResolveEnv`; one attempt, its timeout and the retry decision |
| `FinishSteps`, `WriteApprovals`, `WriteExecution` | `writeBundle`, in the order of its writes |
| `GrantResolve`, `GrantLoad`, `GrantAppend`, `GrantFail` | `GrantApproval`: resolve, read and check, append |
| `EditPolicy`, `ChangeVault` | the operator, at any time |
| `Crash` | the process dies, or a file error ends the call |

A step's fate is `StepVerdict`, `FallbackVerdict` and `DependencyVerdicts`, in the
order of the code's early returns. When `latest` is missing, the code resolves
it to the link's own path (`LatestPath`) and each later access goes wherever the
link points by then; `Resolve` and `Deref` keep that apart.

Abstractions: an approval record is its (workflow, step) pair, since no decision
reads actor, time or reason after `GrantApproval` has checked them; when several
dependencies are bad, which one is reported is left open; workflow definitions
are constant and have unique step ids, as `Validate` demands; lane "none" stands
for transports the runtime does not perform; all handles of a step are present
or not; an approvals file is read and appended at once (a torn read is an error
and covered by `Crash`); two directories never get the same nanosecond stamp and
name. `plan.md`, `report.html` and `steps.jsonl` are read by nobody and left out.

**ResumePlan** adds a client that makes a plan from a recorded bundle
(`classifyResumeItem`, `PlanExecute`) and may later run its command
(`FollowPlan`), or that of one item (`FollowItem`), while everything else goes
on. The plan's two file reads are one step, which `EvidenceKept` justifies. A
plan asked for while the link is missing is an error and is left out; the
capability registry, which can only make a plan not ready, is taken as valid.

**ApprovalGate** is the abstract specification: a gate is asked for, granted and
used, under rules that may change at any time.

**ScheduleRunner.** Time is a natural number; an hour and a day are a number of
units, a date is a quotient. `Fire` is launchd's timer (`StartInterval`), missed
when the last run still goes on; `StartByHand` is a person's `run-due`. `Start`
loads the state file (a torn one reads as empty), `BeginJob` and `SkipJob` apply
`Due` to each job with the clock of that moment, `FinishJob` stamps `FinishedAt`,
`EndJob` sends, and `TruncateState` and `WriteState` are the two halves of
`os.WriteFile`. Only jobs take time (up to `MaxRun`). No sleep, no change of the
clock or of daylight saving; deadlines of run-due's context are part of the
length of jobs, whose outcome does not matter (a failed job counts as run).

**MailWatch** replaces the mail job by its parts: `ReadMail` (state file, IMAP
listing by date, limit, filter), `TruncateSeen`, `WriteSeen`, then the
scheduler's `FinishJob` and `SendMail`. One account; messages are numbered as
they arrive and never deleted; the 200-id trim, much longer than a listing, is
left out.

**PendingMail.** The listener is a process with `pc`, its received `batch` and
its two maps, `mem` (`mailSendPending`) and `mac` (`argosActionPending`); `store`
is `pending-mail-sends.json`, `drafts` the draft files by the second of their
name.

| action | code |
|---|---|
| `Receive`, `Skip` | `signal-cli receive` empties the server; `isStaleIncoming` |
| `Compose`, `Revise` | `prepareSignalMailSend`, `mailDraftRevisionReply`, with `SaveDraft` |
| `Remember`, `Reply` | `rememberPendingMailSend`, then `sendSignalReply` |
| `ApproveMail`, `AnswerMail`, `SendDraft` | `takePendingMailSend`, then `mailadapter.SendDraft` |
| `OfferMac`, `RunMac`, `AnswerMac` | `rememberPendingArgosAction`, `approvePendingArgosAction` |
| `AnswerNeither` | `assistantAmbiguousApprovalReply` |
| `Restart`, `Crash` | the process ends between batches, or dies in one |
| `Write`, `Tick` | the chats and the clock |

`Loaded` and `Pruned` are the merge of file and map and its expiry, which every
take and peek does and `Remember` does not. `shown`, `here` and `sent` are
history. What a text means is given with it (`kind`); the order in which the
handlers are asked is in the guards. One listener at a time.

**EvidenceStore, HealChain, ReconcileChain.** A call loads one record of the kind
it needs, makes the next of it and stores it; the new record contains the old
one (`of`), so a record is its own history. A client may load any record there
is at any time, so all orders, repetitions and combinations of calls are
behaviours. Each `Call...` action is one tool of `mcp.go` with the builder it
calls. `Begin`, `Restart`, `Finish` and `Crash` are the live executor
(`executeContainerExecutorReport`), which stores only when it ends. Reports that
do the same to readiness and steps share one operator (`Stage`, `Following`).
Reports of nodes, desired files and policies may change between any two calls;
since only the first call of a chain reads them, it finds any of them.

**Reconciler** is `DiffNode` as an operator, with one service, container and role
(the code treats each for itself), and `Fits`, which says from the document and
the messages of the validation what a desired state means.

**Policy, PolicyFile.** `Evaluate` is the first matching rule with a valid
decision, else `BuiltIn`. A rule of the model stands for the rules of a file
that differ only in subject and action. `Stat` and `Read` are the two accesses of
`LoadConfig`, between which the file may change; `DecideFromCache` and
`DecideWithoutFile` are its early returns; `Truncate` and `WritePolicy` the two
halves of `os.WriteFile`.

**MissionStore.** `Load...` is `Get` with the change made in memory, `Save` the
rename and the answer, `Drop` a death or failed write between them. `ReadBack` is
what `%03d` makes of an id.

**VaultStore.** One handle, three kinds of backend: sealed in the entry, in a
password manager, or a link to what the operator keeps in the keychain.

| action | code |
|---|---|
| `BeginPut`, `FindKey`, `OpenKey`, `WriteKey` | `Put` or `LinkKeychain` up to `Init`; `masterKey` finds a key or makes one in place |
| `Seal`, `StorePassword` | the second `masterKey` and `gcm.Seal`; `keychainWrite` or `passWrite` |
| `OpenEntry`, `WriteEntry`, `WriteNowhere` | the halves of `os.WriteFile`, also into a file deleted since |
| `BeginUse`, `Unseal`, `Touch` | `UseEnv`: read and open, run the command, `touchLastUsed` |
| `BeginDelete`, `Remove` | `Delete`; the password manager keeps its secret |
| `Quit` | a death, or a failure of what comes next |

An empty file and one with the end of a longer text are told apart, since what
is written into the first is whole. A secret and a key are the number of the call
that brought them. The environment's key and several handles are left out.

**AssistantWatch.** `LoadWatches` is `Load` with the change made in memory, then
`OpenWatches` and `WriteWatches` are the halves of `Save`. `CheckDue` marks all
due watches with the time it began at, looks prices up and saves; when its time
runs out it saves nothing (`QuitWatching`).

## 3. What is checked

| run | question | bounds | distinct states |
|---|---|---|---|
| `core` | one run after another, grants, policy edits, vault changes, crashes, with retries, secrets, a dependency and a fallback | 1 runner, 1 approver, 2 bundles, 3 steps | 277,000 |
| `twin` | two runs and a grant against each other, two workflows with a common step id; the inductive invariant, the refinement, and that every run ends | 2 runners, 1 approver, 2 bundles, 2 attempts | 149,000 |
| `held` | that every run ends, with a command whose child keeps the output open: **violated** | 1 runner | 260 |
| `resume` | plans and clients that follow them | 1 runner, 1 approver, 2 bundles, 2 gated steps | 1.3 million |
| `ready` | what the plan's own words promise: **violated** | as above, two workflows | 3,300 |
| `schedule` | three kinds of jobs over a day and a half, launchd only | 26 time units, an hour of 8, a day of 16, jobs of 0 or 1, 1 crash | 592,000 |
| `by_hand` | mail watch by launchd and by hand | 2 runners, 2 messages, limit 1, 1 crash, 6 units | 2.3 million |
| `missed_mail` | every message is listed by some check: **violated** | 24 units, 1 message, no crash | 3,600 |
| `mail` | drafts, revisions, approvals and Mac actions over restarts, deaths and failed calls | 2 chats, 4 messages, TTL and age 1, times 0 to 2, 1 fault | 2.5 million |
| `lost_draft` | an approval in time sends: **violated** | as above, no fault | small |
| `clients` | the two chains, the policy file, the mission store, the vault and the watches | 2 containers, 2 plans and 2 executions, 1 record of each other kind; 3 policies, 4 edits; 2 servers, 5 calls, ids up to 3; 2 users of a secret, 4 calls; 2 watches, 2 processes, 4 calls, times 0 to 3, cadence 2 | 1.2 million |
| `drift` | a node that fits needs nothing: **violated** by the documented example | 1 desired state | 340 |

The properties:

* `PerformedNeedsGrant`, `PerformedOnlyWhenDue`: over results of live and of
  recorded runs, not over one guard. The grant may have been given in a bundle
  several copies back, and the policy may have changed since.
* `Provenance`, `EvidenceKept`: nothing makes up an approval record, nothing
  loses one from a bundle that can be resumed. `EvidenceKept` depends on
  `approvals.jsonl` being written before `execution.json`, because a grant is
  accepted only once the latter exists.
* `ImplementsGate`: the runtime refines `ApprovalGate`, including the moment at
  which the rule is read: a policy edit after admission recalls nothing.
* `PlansOnlyImprove`, `ApprovedStepsProceed`: what a client may rely on when it
  acts on an old plan.
* `DueWhenNextDue`, `NoEarlyRerun`, `DoneInTime`: status and behaviour agree; no
  recorded work is repeated early; a job that fell due is done within one firing
  interval and the length of one run, counted from each time it fell due and was
  not done since (`Dues`), also in an hour or day that is over. That bound is
  exact: the part of a run after the job and the part of the next one before it
  make up one run. `RunDue` does not make up for an hour or a day, so a daily or
  hourly job is excused if its hour or day ended (`WindowEnd`) before the bound
  did. In the run `schedule` that takes a crash in between: the bound is 6 units,
  the hourly job is due 7 before its hour ends and the daily one 13 before its day
  does. Each of the three, never done, makes the property fail.
* `AnnouncedOnce`: exempts torn files and overlapping runs, because those do
  repeat notices.

* `SentOnce`, `ApprovedAsShown`, `NoGuess`: over the map, the file, the draft and
  what the chat saw. They hold by the order in which a take writes the file
  before the mail goes out, a revision keeps the id of the draft, and a short yes
  looks at both maps. Exempt (`damaged`) are two drafts of one second and a store
  that cannot be written, which do repeat mails. `NoGuess` needs that exemption
  too, although no state of the run `mail` shows it: after a failed write an older
  draft comes back over the one that was shown, and expires before it while the
  Mac action still waits. The attempt to prove `NoGuess` showed this.
* `RestartSanctioned`, `CloseoutTrue`: from a restart back through eight records
  to the plan, the rule and the approval; from a closeout to one whole run. Policy
  decides of each restart of a plan by its own command, so plans are mixed: one
  restart that does not ask for approval blocks the apply plan, which still lists
  the steps of the others.
* `DriftIsExact` compares `DiffNode` with the meaning of desired states over all
  combinations of 29 desired containers and 34 actual ones, services, roles and
  capacity, in the words that the comparison knows; `drift` takes one it does
  not. Actual containers are in any state of Docker. What they mean is this
  project's reading where no document says it: a dead container is stopped, as
  in `normalizeContainerState`, and one that is created, paused, restarting or
  being removed neither runs nor is stopped. Where `docker inspect` failed, health
  and restart policy are empty, and `DiffNode` takes them for what is desired: the
  property excuses exactly that (`Unread`). It is about what a node reports: a
  container beyond the first thirty, or on a node without an answer of Docker, is
  to both sides not there.
* `ReadyCoversDrift` follows that drift to the end of the chain. A drift may be
  missing from the steps only if policy allows its action and it asks for no
  approval by its nature (`Action.ApprovalRequired`, `reconciler.go:140`): a
  container or a service to be brought up never is, a service to be stopped may be.
* `DecisionIsCurrent`: a decision is by a policy that was in the file while it
  was made, except for contents that time and size do not tell apart. The
  exception (`clash`) is for processes that remember the time and size of other
  contents, and for no others.
* `AnswersHold`, `DoneAsAsked`: what a call reported stays true, and ids do not
  change hands, unless a call that overlapped was saved over it (`overrun`).
* `PutsHold`, `SecretOpens`, `FingerprintTrue`: what the vault has is what the last
  put or delete left, can be opened with the key that stays, and is the secret
  its fingerprint names. The cases in which the code breaks this are named
  (`lost`: a touch that had read before, two writers at once, a death while
  writing; `twoKeys`; `split`: puts that overlapped or died between their two
  writes). That they are the only ones rests on the touch reading again after the
  command, on a key file that does not decode failing the call, and on the secret
  being stored before its entry.
* `WatchedAsAsked`, `ChecksApart`: on or off as the chat was told, and no check
  before its cadence, unless a call that had read before wrote after
  (`overwritten`, kept apart for the two halves of a watch's record).
* The type invariants say more than types where the code promises it: runs stop
  at the first failure, what could not be read is not cached, ids are unique.

Why the bounds are enough: a hand-over of approvals needs two bundles (the one
granted and the one that uses it), the contention for the link two runs,
confusion of workflows two workflows with a common step id. Retries saturate at
`MaxAttempts = 2`, and the clamp at 10 is an expression. A day and more than a half
contain every relation of a date, an hour and an interval that `Due`
distinguishes. A crash
needs to happen once, in each place. A draft that is wiped, revived or revised
takes two chats and four messages; expiry needs a time on either side of the
TTL. A record contains the one it was made of, so one record of a kind is one
chain, and what mixes chains (a plan of another time, an execution that failed
and one that went well) is there twice. A cache is confused by at most two edits
and a decision under way. An update is lost between two servers; five calls give
a task, its completion, a third id and an overrun. A put, a use and a delete or
second put make every overlap of two processes in the vault, and a fourth call
follows on it; the same holds for the watches. Ids wrap at a thousand in the
code and at three here, by the same arithmetic on digits. The theorems of section
4 hold for all values of these bounds.

Deadlock is not checked: the system may stop when all bundles are used up, when
time is over, or when nobody calls.

Fairness (`FairSpec`): weak fairness of each runner's own steps, `RunnerStep`.
A runner is a sequential Go process whose next step is always enabled, so weak
fairness says only that the operating system schedules it and that an attempt
comes back. No fairness of clients, grants, edits, crashes. `twin` leaves out
commands that hold their output for ever; `held` shows what they do. The other
modules state no fairness: what a listener, a client or launchd will do next is
not theirs to promise, and `DoneInTime` bounds time instead.

Each property has at least one mutant, an operator written next to the one it
changes, under which the property fails in the same run.

### Disagreements found

* `held`: `timeout_seconds` does not end a run whose command left a background
  child with its output. `cmd.Run` waits for the pipe; the process group is
  killed only afterwards (`runtimeflow.go:2528`).
* `ready`: a ready plan is said to have no blockers left. A dry run's recorded
  vault checks are not counted (`runtimeflow.go:856`); approvals are counted by
  step id, but used by workflow and step (`1006` and `350`); the command printed
  for one item leaves out the steps it depends on (`2037`). Each of the three
  parts of `ReadyPlanKeepsItsWord` fails on the same instance.
* `missed_mail`: a job due 15 minutes after its end is not due at a firing 15
  minutes later; with a window of 15 minutes and IMAP's date-only `SINCE`, mail
  late in the day may never be listed (`scheduler.go:728`).
* `lost_draft`: remembering a draft writes a fresh process's map over the file of
  pending sends, and another chat's draft with it (`listen.go:3276`).
* `drift`: the document's example of a desired state can never be reached, since
  `restart: approval_required` is compared with Docker's restart policy
  (`reconciler.go:248`).

## 4. What is proved

Every invariant and action property of the passing runs, and the refinement, is
a theorem for all values of the constants: any number of processes, workflows,
jobs, messages, containers, policies, secrets, calls and crashes. In the tables,
"states" names the property whose definition is in the component's module.

| module | theorem | states |
|---|---|---|
| `WorkflowRuntime_proofs` | `TypeCorrect` | `Spec => []TypeOK` |
| | `Invariance` | `Spec => []IInv` |
| | `NoUngrantedCommand` | `Spec => []PerformedNeedsGrant` |
| | `CommandsWhenDue` | `Spec => []PerformedOnlyWhenDue` |
| | `RecordsFromGrants` | `Spec => []Provenance` |
| | `EvidencePreserved` | `Spec => EvidenceKept` |
| | `GateImplemented` | `Spec => ImplementsGate` |
| `ResumePlan_proofs` | `PlanTypeCorrect` | `PlanSpec => []PlanTypeOK` |
| | `PlansKeepTheirWord` | `PlanSpec => []PlansOnlyImprove` |
| | `ApprovedProceed` | `PlanSpec => []ApprovedStepsProceed` |
| `MailWatch_proofs` | `MailWatchIsScheduled` | `MailSpec => Spec`, the scheduler's |
| | `DueAsShown` | `Spec => []DueWhenNextDue` |
| | `NoJobRepeatedEarly` | `Spec => []NoEarlyRerun` |
| | `JobsDoneInTime` | `Spec => []DoneInTime` |
| | `MailWatchTypeCorrect` | `MailSpec => []MailTypeOK` |
| | `MailAnnouncedOnce` | `MailSpec => []AnnouncedOnce` |
| `PendingMail_proofs` | `MailTypeCorrect` | `Spec => []TypeOK` |
| | `MailSentOnce` | `Spec => []SentOnce` |
| | `MailApprovedAsShown` | `Spec => ApprovedAsShown` |
| | `MailNoGuess` | `Spec => NoGuess` |
| `Clients_proofs` | `HealTypeCorrect` | `HealSpec => []HealTypeOK` |
| | `RestartsSanctioned` | `HealSpec => []RestartSanctioned` |
| | `CloseoutsTrue` | `HealSpec => []CloseoutTrue` |
| | `ReconcileTypeCorrect` | `ReconcileSpec => []ReconcileTypeOK` |
| | `ReadyCovers` | `ReconcileSpec => []ReadyCoversDrift` |
| | `DriftExact` | `ReconcileSpec => []DriftIsExact`, see below |
| | `MissionTypeCorrect` | `MissionSpec => []MissionTypeOK` |
| | `MissionAnswersHold` | `MissionSpec => []AnswersHold` |
| | `MissionDoneAsAsked` | `MissionSpec => []DoneAsAsked` |
| `PolicyFile_proofs` | `PolicyTypeCorrect` | `PolicySpec => []PolicyTypeOK` |
| | `PolicyDecisionIsCurrent` | `PolicySpec => []DecisionIsCurrent` |
| `VaultStore_proofs` | `VaultTypeCorrect` | `VaultSpec => []VaultTypeOK` |
| | `VaultKeepsPuts` | `VaultSpec => []PutsHold` |
| | `VaultSecretsOpen` | `VaultSpec => []SecretOpens` |
| | `VaultFingerprintTrue` | `VaultSpec => []FingerprintTrue` |
| `AssistantWatch_proofs` | `WatchTypeCorrect` | `WatchSpec => []WatchTypeOK` |
| | `WatchesAsAsked` | `WatchSpec => []WatchedAsAsked` |
| | `WatchChecksApart` | `WatchSpec => ChecksApart` |

**Assumptions.** Each module names what its constants are: kinds of values, bounds
that are natural numbers, and values for "none" that are nothing else. Two say
more. `CommandsAssumption` (`ResumePlan`): the commands that plans print are
among the runs clients ask for. The hypotheses of `DriftExact`: desired states are
in the words that the comparison knows (`WellWorded`; `drift` shows what becomes
of another), and reports are such as a node can make (`Observed`: a container that
is there is in a state of Docker and has an image, one that is not has nothing;
health and restart policy may be anything, also empty). TLC
evaluates the assumptions in every run of the modules; `MCExact` in `MCClients`
evaluates the hypotheses of `DriftExact` for the states of the run `clients`.

**The arguments.** None of these properties is inductive by itself. Each proof
module defines an invariant that is, proves it with one step per action, and
derives the property from it. TLC checked the invariants on small instances
before they were proved, save those of the two chains, which say of every record
how it was made and are no formulas TLC can evaluate.

* *Workflow runtime* (`IInv`, checked by `twin`). A command is admitted on the
  strength of `ApprovalMap(r)`, made from records loaded earlier, so
  `PerformedNeedsGrant` needs to know that loaded records were granted:
  `Provenance`, which follows the records through load, copy and append. That in
  turn needs every grant to come from a recorded result, hence that recorded
  results do not change, hence that a run writes only into its own bundle, which
  was not recorded before: `Owned`. `PerformedOnlyWhenDue` reads dependencies back
  from results at the end although they were checked when the step came up, so
  finished results must not change, which is `InOrder`: a step still to do has no
  result, and only the current one is under way. `Attempted` keeps the retry loop
  within `MaxAttempts`. `EvidenceKept` and the refinement
  are step facts under `IInv`: each action maps to one action of `ApprovalGate` or
  to a stutter, `EditPolicy` to `ChangeRules`, `RunStep` to `Admit` when the
  verdict is "running", `WriteExecution` to `Ask`, `GrantAppend` to `Grant`, the
  end of a command or a crash to `Leave`.
* *Plans* (`PlanInv`). Every step of `PlanSpec` is a step of the runtime or leaves
  it alone, so `IInv` and `EvidenceKept` hold. A plan is `Sound`: what it says of
  its bundle was so when it was made, and recorded results stay. A run that
  follows a plan of the same bundle has loaded at least the plan's records
  (`Follows`), and an approved step cannot be given the verdict that asks again.
* *Scheduler* (`SchedInv`). `Past`: nobody knows of anything later than it was.
  `Alone`: without overlaps the one run's memory, or between runs the file, is
  what was last done, except for results that died. `InTurn` says at each point of
  launchd's run how far behind each due job can be: until the run comes to a job,
  one firing interval, the jobs after it in the run before and the jobs before it
  in this one; once the run is past it, only the jobs after it, since a job is
  skipped only if it was not due (`DueEarlier`) and afresh when done (`DueAfresh`).
  A tick does not make a job due earlier (`DueAdvance`), which is where the
  arithmetic of dates and hours is. Every due time behind that is not the one in
  force had its hour or day end before its bound (`Forgone`): `DoneInTime` looks
  at them too, and a tick into a new hour or day makes the one in force such a one. `JobsDoneInTime` therefore holds beside any
  number of runs by hand, overlapping or not, though the run `schedule` has one.
* *Mail watch* (`MailInv`). What was announced is in the seen ids of the file and
  of the one run that is past reading; a run that sends has written its ids.
* *Pending mail* (`MailInv`). As long as no file was damaged: every send that
  waits has a draft, of which no other chat's send is (`Owned`); it is what the
  chat was last shown, and was not sent (`Current`); the process that showed it
  still has it while it is in time (`Remembered`); what is being worked on is one
  chat's alone (`InHand`); and no two drafts have one text (`Apart`).
* *Chains* (`HealInv`, `ReconcileProvenance`). A record contains the one it was
  made of and no action changes a stored one, so the properties follow from how
  each kind of record is made: every stored record was made by its stage from a
  stored record. A run of the heal executor that is under way passed a gate that
  is stored, and has the gate's steps behind it or before it, in their order
  (`Underway`). That a finite set of numbers has a least and a greatest one
  (`Least`, `Greatest`, also used for the mission's item ids) is shown through the
  library's theorem on strict subsets, as induction over a predicate cannot be
  used here.
* *Mission store* (`MissionInv`). The same three statements (an item's origin, what
  was answered, what is done) hold of the file and of every copy that a call under
  way would save, save for what it has not seen (`overrun`).
* *Policy* (`PolicyInv`). A cached stamp that is the file's goes with the file's
  content, or there was a clash; what a reader will answer is in what it saw.
* *Vault* (`VaultInv`). `Shapes` of calls under way, `OneKey` (whoever has a key has
  the file's, or is to write it, or there were two), `HeldInForce` and
  `PasswordInForce`: what a call holds is what is in force, or it was overtaken.
* *Watches* (`WatchInv`). The file is as asked, and so is what each call under way
  would write, except for what others wrote since it read (`overtaken`).

**Only model-checked:** `EveryRunEnds` (liveness is out of the prover's reach),
and the five properties that runs show violated.

## 5. What is not modelled

The components without a module, each with its reason in `PROJECT.json`. By far
the most of the code (the messenger's intents, translations, shopping and
department assistants, OS automation, the report lines of the chains) turns text
into text or calls the host: there is no state in it whose order a model could
tell apart. In particular:

* **Threshold heals** (`CheckAndHeal`): the cooldown is kept by an object that
  every ops-control run makes anew, and one pass asks for each key once, so it
  never has an effect that could be checked.
* **Two listeners at once**: only started by hand, and beyond the size of a run
  together with restarts and expiry.
* **Matrix room, guard sessions, opsdb, inventory**: answers to one message at a
  time, string processing, a database's own transactions, tables.

Within modelled components: validation of definitions, repair plans for degraded
steps, the contents of jobs other than mail watch, the vault's and the watches'
files that a death left unreadable (every later call fails until someone removes
them by hand), `run-once`, several mail
accounts and their choice, drafts asked for by id, wording of reports.

## 6. Plan

Done, in this order: runtime core, abstract gate, proofs, plans, scheduler, mail
watch; pending mail, chains, reconciler, policy, missions, vault, assistant
watch; proofs of all invariants and action properties that runs check. Next:

1. Abstract specifications like `ApprovalGate` for other components, and proofs
   that they are implemented: a mail approval as an atomic exchange of what was
   shown against one sending; a mission as a log of calls, of which the file is
   the last that was saved.
2. What the violated properties become under the conditions that save them, as
   theorems: no message is missed by a window longer than the period and the
   longest run and within a date, a draft is not lost by one process that lives on.
3. `ReadyItemsAreDue` for plans without targeted items.

## 7. Running

    tlc -config MCWorkflowRuntime.cfg MCWorkflowRuntime.tla
    tlapm WorkflowRuntime_proofs.tla

and likewise for the other runs of `PROJECT.json` and the other modules of proofs.
The longest run takes a few minutes on two cores, each module of proofs one or two.
