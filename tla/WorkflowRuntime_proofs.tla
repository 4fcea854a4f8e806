------------------------ MODULE WorkflowRuntime_proofs ------------------------
(***************************************************************************)
(* Theorems of WorkflowRuntime.                                            *)
(***************************************************************************)
EXTENDS WorkflowRuntime, TLAPS

LEMMA NoResultType == NoResult \in Results
  BY DEF NoResult, Results, Statuses

LEMMA InitType == Init => TypeOK
  BY BoundAssumption, NoResultType
  DEF Init, TypeOK, Bundles, NoBundle, Refs, Pcs, Goto

LEMMA ForgetType ==
  ASSUME TypeOK, NEW r \in Runners, Forget(r)
  PROVE  /\ pc' \in [Runners -> Pcs]
         /\ request' \in [Runners -> Requests \union {None}]
         /\ source' \in [Runners -> Refs]
         /\ loaded' \in [Runners -> SUBSET Gates]
         /\ bundle' \in [Runners -> Bundles \union {NoBundle}]
         /\ todo' \in [Runners -> SUBSET Steps]
         /\ done' \in [Runners -> [Steps -> Results]]
         /\ step' \in [Runners -> Steps \union {None}]
         /\ attempt' \in [Runners -> Nat]
         /\ \A x \in Runners : request'[x] = None <=> pc'[x] = "idle"
         /\ \A x \in Runners : step'[x] = None <=> pc'[x] \notin {"secrets", "command", "held"}
<1>1. [s \in Steps |-> NoResult] \in [Steps -> Results]
  BY NoResultType
<1>2. done' \in [Runners -> [Steps -> Results]]
  BY <1>1 DEF Forget, TypeOK
<1>3. QED
  BY <1>2 DEF Forget, TypeOK, Goto, Pcs, Refs, NoBundle

LEMMA StepType == TypeOK /\ [Next]_vars => TypeOK'
<1> SUFFICES ASSUME TypeOK, [Next]_vars PROVE TypeOK'
  OBVIOUS
<1> USE BoundAssumption, WorkflowAssumption, NoneAssumption
<1>1. ASSUME NEW r \in Runners, NEW q \in Requests, StartRun(r, q) PROVE TypeOK'
  <2>1. q.steps \in SUBSET Steps /\ q.approvals \in Refs /\ q.workflow \in Workflows
    BY DEF AllRequests
  <2>2. Resolve(q.approvals) \in Refs
    BY <2>1 DEF Resolve, TypeOK, Refs
  <2>3. QED
    BY <1>1, <2>1, <2>2 DEF StartRun, TypeOK, Goto, Pcs, storeVars, envVars, grantVars
<1>2. ASSUME NEW r \in Runners, LoadApprovals(r) PROVE TypeOK'
  <2>1. Deref(source[r]) # NoBundle => Deref(source[r]) \in Bundles
    BY DEF Deref, TypeOK, Refs
  <2>2. QED
    BY <1>2, <2>1 DEF LoadApprovals, TypeOK, Goto, Pcs, storeVars, envVars, grantVars
<1>3. ASSUME NEW r \in Runners, CreateBundle(r) PROVE TypeOK'
  BY <1>3 DEF CreateBundle, TypeOK, Goto, Pcs, Bundles, envVars, grantVars
<1>4. ASSUME NEW r \in Runners, CreateFails(r) PROVE TypeOK'
  BY <1>4, ForgetType DEF CreateFails, TypeOK, storeVars, envVars, grantVars
<1>5. ASSUME NEW r \in Runners, UnlinkLatest(r) PROVE TypeOK'
  BY <1>5 DEF UnlinkLatest, TypeOK, Goto, Pcs, envVars, grantVars
<1>6. ASSUME NEW r \in Runners, LinkLatest(r) PROVE TypeOK'
  BY <1>6 DEF LinkLatest, TypeOK, Goto, Pcs, envVars, grantVars
<1>7. ASSUME NEW r \in Runners, NEW s \in Steps, NEW v \in Statuses, GateStep(r, s, v)
      PROVE  TypeOK'
  <2>1. v \in {"fallback_source_missing", "fallback_not_needed",
               "dependency_missing", "dependency_blocked"}
    BY <1>7 DEF GateStep, Fallback, FallbackVerdict, Dependency, DependencyVerdicts
  <2>2. VaultOK(SpecOf(r, s)) \in BOOLEAN
    BY DEF VaultOK
  <2>3. PICK res \in Results : Finish(r, s, res)
    <3>1. (IF v = "fallback_not_needed" \/ VaultOK(SpecOf(r, s))
           THEN v ELSE "vault_missing") \in Statuses
      BY <2>1 DEF Statuses
    <3>2. QED
      BY <3>1, <2>2, <1>7 DEF GateStep, Results
  <2>4. /\ done' \in [Runners -> [Steps -> Results]]
        /\ todo' \in [Runners -> SUBSET Steps]
    BY <2>3 DEF Finish, TypeOK
  <2>5. QED
    BY <1>7, <2>4 DEF GateStep, TypeOK, storeVars, envVars, grantVars
<1>8. ASSUME NEW r \in Runners, NEW s \in Steps, RunStep(r, s) PROVE TypeOK'
  <2>1. PICK res \in Results : Finish(r, s, res)
    <3>1. Verdict(r, s) \in Statuses
      BY DEF Verdict, StepVerdict, Statuses
    <3>2. VaultOK(SpecOf(r, s)) \in BOOLEAN /\ Required(GateOf(r, s)) \in BOOLEAN
      BY DEF VaultOK, Required
    <3>3. QED
      BY <3>1, <3>2, <1>8 DEF RunStep, Results
  <2>2. /\ done' \in [Runners -> [Steps -> Results]]
        /\ todo' \in [Runners -> SUBSET Steps]
    BY <2>1 DEF Finish, TypeOK
  <2>3. /\ step' \in [Runners -> Steps \union {None}]
        /\ attempt' \in [Runners -> Nat]
        /\ pc' \in [Runners -> Pcs]
        /\ \A x \in Runners : pc'[x] = "idle" <=> pc[x] = "idle"
        /\ \A x \in Runners : step'[x] = None <=> pc'[x] \notin {"secrets", "command", "held"}
    <3>1. CASE Verdict(r, s) = "running"
      <4>1. PICK p \in {"secrets", "command"} : Goto(r, p)
        BY <1>8, <3>1 DEF RunStep
      <4>2. /\ step' = [step EXCEPT ![r] = s]
            /\ attempt' = [attempt EXCEPT ![r] = 1]
        BY <1>8, <3>1 DEF RunStep
      <4>3. pc[r] = "steps" /\ s # None
        BY <1>8 DEF RunStep
      <4>4. QED
        BY <4>1, <4>2, <4>3 DEF TypeOK, Goto, Pcs
    <3>2. CASE Verdict(r, s) # "running"
      BY <1>8, <3>2 DEF RunStep, TypeOK
    <3>3. QED
      BY <3>1, <3>2
  <2>4. QED
    BY <1>8, <2>2, <2>3 DEF RunStep, TypeOK, storeVars, envVars, grantVars
<1>9. ASSUME NEW r \in Runners, NEW st \in Statuses, NEW d \in BOOLEAN, EndStep(r, st, d),
             pc[r] # "idle"
      PROVE  /\ done' \in [Runners -> [Steps -> Results]]
             /\ step' \in [Runners -> Steps \union {None}]
             /\ attempt' \in [Runners -> Nat]
             /\ pc' \in [Runners -> Pcs]
             /\ \A x \in Runners : step'[x] = None <=> pc'[x] \notin {"secrets", "command", "held"}
             /\ \A x \in Runners : pc'[x] = "idle" <=> pc[x] = "idle"
  <2>1. done' \in [Runners -> [Steps -> Results]]
    <3>1. done[r] \in [Steps -> Results]
      BY DEF TypeOK
    <3> DEFINE end == [done[r] EXCEPT ![step[r]] =
                         [@ EXCEPT !.status = st, !.degraded = d]]
    <3>2. end \in [Steps -> Results]
      <4>1. \A x \in Results : [x EXCEPT !.status = st, !.degraded = d] \in Results
        BY DEF Results
      <4>2. QED
        BY <3>1, <4>1
    <3>3. done' = [done EXCEPT ![r] = end]
      BY <1>9 DEF EndStep
    <3>4. QED
      BY <3>2, <3>3 DEF TypeOK
  <2>2. QED
    BY <1>9, <2>1 DEF EndStep, TypeOK, Goto, Pcs
<1>10. ASSUME NEW r \in Runners, ResolveSecrets(r) PROVE TypeOK'
  <2>1. CASE EndStep(r, "secret_env_failed", FALSE)
    <3>1. "secret_env_failed" \in Statuses /\ FALSE \in BOOLEAN
      BY DEF Statuses
    <3>2. QED
      BY <1>10, <2>1, <3>1, <1>9 DEF ResolveSecrets, TypeOK, storeVars, envVars, grantVars
  <2>2. CASE Goto(r, "command") /\ UNCHANGED <<done, step, attempt>>
    BY <1>10, <2>2 DEF ResolveSecrets, TypeOK, Goto, Pcs, storeVars, envVars, grantVars
  <2>3. QED
    BY <1>10, <2>1, <2>2 DEF ResolveSecrets
<1>11. ASSUME NEW r \in Runners, NEW o \in Outcomes, RunAttempt(r, o) PROVE TypeOK'
  <2>1. CASE o # "held" /\ o \in Failures /\ Repeats(r, o)
    <3>1. /\ attempt' = [attempt EXCEPT ![r] = @ + 1]
          /\ UNCHANGED <<done, step, pc>>
      BY <1>11, <2>1 DEF RunAttempt
    <3>2. attempt' \in [Runners -> Nat]
      BY <3>1 DEF TypeOK
    <3>3. QED
      BY <1>11, <3>1, <3>2 DEF RunAttempt, TypeOK, storeVars, envVars, grantVars
  <2>0. CASE o = "held"
    BY <1>11, <2>0, ZenonT(40) DEF RunAttempt, TypeOK, Goto, Pcs, storeVars, envVars, grantVars
  <2>2. CASE o # "held" /\ ~(o \in Failures /\ Repeats(r, o))
    <3>1. PICK st \in Statuses, d \in BOOLEAN : EndStep(r, st, d)
      BY <1>11, <2>2 DEF RunAttempt, Statuses
    <3>2. pc[r] # "idle"
      BY <1>11 DEF RunAttempt
    <3>3. /\ done' \in [Runners -> [Steps -> Results]]
          /\ step' \in [Runners -> Steps \union {None}]
          /\ attempt' \in [Runners -> Nat]
          /\ pc' \in [Runners -> Pcs]
          /\ \A x \in Runners : step'[x] = None <=> pc'[x] \notin {"secrets", "command", "held"}
          /\ \A x \in Runners : pc'[x] = "idle" <=> pc[x] = "idle"
      BY <3>1, <3>2, <1>9
    <3>4. UNCHANGED <<storeVars, envVars, grantVars, granted,
                      request, source, loaded, bundle, todo>>
      BY <1>11 DEF RunAttempt
    <3>5. QED
      BY <3>3, <3>4 DEF TypeOK, storeVars, envVars, grantVars
  <2>3. QED
    BY <2>0, <2>1, <2>2
<1>12. ASSUME NEW r \in Runners, FinishSteps(r) PROVE TypeOK'
  BY <1>12 DEF FinishSteps, TypeOK, Goto, Pcs, storeVars, envVars, grantVars
<1>13. ASSUME NEW r \in Runners, WriteApprovals(r) PROVE TypeOK'
  <2>1. approvals' \in [Bundles -> SUBSET Gates]
    BY <1>13 DEF WriteApprovals, TypeOK
  <2>2. pc[r] = "write_approvals" /\ Goto(r, "write_execution")
    BY <1>13 DEF WriteApprovals
  <2>3. /\ pc' \in [Runners -> Pcs]
        /\ \A x \in Runners : pc'[x] = "idle" <=> pc[x] = "idle"
        /\ \A x \in Runners : pc'[x] \in {"secrets", "command", "held"}
                              <=> pc[x] \in {"secrets", "command", "held"}
    BY <2>2 DEF TypeOK, Goto, Pcs
  <2>4. UNCHANGED <<created, latest, execution, envVars, grantVars, granted,
                    request, source, loaded, bundle, todo, done, step, attempt>>
    BY <1>13 DEF WriteApprovals
  <2>5. QED
    BY <2>1, <2>3, <2>4 DEF TypeOK, envVars, grantVars
<1>14. ASSUME NEW r \in Runners, WriteExecution(r) PROVE TypeOK'
  <2>1. execution' \in [Bundles -> Executions \union {None}]
    <3>1. request[r] \in AllRequests
      BY <1>14 DEF WriteExecution, TypeOK
    <3>2. [workflow |-> request[r].workflow, mode |-> request[r].mode, steps |-> done[r]]
            \in Executions
      BY <3>1 DEF AllRequests, Executions, TypeOK
    <3>3. QED
      BY <1>14, <3>2 DEF WriteExecution, TypeOK
  <2>2. QED
    BY <1>14, <2>1, ForgetType DEF WriteExecution, TypeOK, envVars, grantVars
<1>15. ASSUME NEW r \in Runners, Crash(r) PROVE TypeOK'
  BY <1>15, ForgetType DEF Crash, TypeOK, storeVars, envVars, grantVars
<1>16. ASSUME NEW a \in Approvers, Approver(a) PROVE TypeOK'
  <2>1. ASSUME NEW ref \in Refs, GrantResolve(a, ref) PROVE TypeOK'
    <3>1. Resolve(ref) \in Refs
      BY DEF Resolve, TypeOK, Refs
    <3>2. QED
      BY <2>1, <3>1 DEF GrantResolve, TypeOK, storeVars, envVars, runVars
  <2>2. ASSUME NEW s \in Steps, GrantLoad(a, s) PROVE TypeOK'
    <3>1. Deref(target[a]) \in Bundles
      BY <2>2 DEF GrantLoad, Deref, TypeOK, Refs
    <3>2. <<execution[Deref(target[a])].workflow, s>> \in Gates
      BY <2>2, <3>1 DEF GrantLoad, TypeOK, Executions, Gates
    <3>3. QED
      BY <2>2, <3>2 DEF GrantLoad, TypeOK, storeVars, envVars, runVars
  <2>3. ASSUME GrantAppend(a) PROVE TypeOK'
    <3>1. record[a] \in Gates /\ Deref(target[a]) \in Bundles
      BY <2>3 DEF GrantAppend, Deref, TypeOK, Refs
    <3>2. /\ approvals' \in [Bundles -> SUBSET Gates]
          /\ granted' \in SUBSET Gates
      BY <2>3, <3>1 DEF GrantAppend, TypeOK
    <3>3. QED
      BY <2>3, <3>2 DEF GrantAppend, EndGrant, TypeOK, Refs, envVars, runVars
  <2>4. ASSUME GrantFail(a) PROVE TypeOK'
    BY <2>4 DEF GrantFail, EndGrant, TypeOK, Refs, storeVars, envVars, runVars
  <2>5. QED
    BY <1>16, <2>1, <2>2, <2>3, <2>4 DEF Approver
<1>17. ASSUME NEW p \in Policies, EditPolicy(p) PROVE TypeOK'
  BY <1>17 DEF EditPolicy, TypeOK, storeVars, runVars, grantVars
<1>18. ASSUME NEW v \in Vaults, ChangeVault(v) PROVE TypeOK'
  BY <1>18 DEF ChangeVault, TypeOK, storeVars, runVars, grantVars
<1>19. CASE UNCHANGED vars
  BY <1>19 DEF vars, TypeOK, storeVars, envVars, runVars, grantVars
<1>20. QED
  BY <1>1, <1>2, <1>3, <1>4, <1>5, <1>6, <1>7, <1>8, <1>10, <1>11, <1>12, <1>13,
     <1>14, <1>15, <1>16, <1>17, <1>18, <1>19 DEF Next, Runner, RunnerStep

(* Every variable stays within its type, whatever the constants.           *)
THEOREM TypeCorrect == Spec => []TypeOK
  BY InitType, StepType, PTL DEF Spec
-----------------------------------------------------------------------------
(* Who writes what: the only actions that touch the two files of a bundle. *)
LEMMA StoreWriters ==
  ASSUME [Next]_vars
  PROVE  /\ UNCHANGED execution \/ \E r \in Runners : WriteExecution(r)
         /\ \/ UNCHANGED approvals
            \/ \E r \in Runners : WriteApprovals(r)
            \/ \E a \in Approvers : GrantAppend(a)
         /\ UNCHANGED granted \/ \E a \in Approvers : GrantAppend(a)
<1> DEFINE Other == UNCHANGED <<execution, approvals, granted>>
<1>1. ASSUME NEW r \in Runners, Runner(r)
      PROVE  Other \/ (WriteApprovals(r) /\ UNCHANGED <<execution, granted>>)
                   \/ (WriteExecution(r) /\ UNCHANGED <<approvals, granted>>)
  <2>1. ASSUME NEW q \in Requests, StartRun(r, q) PROVE Other
    BY <2>1 DEF StartRun, storeVars
  <2>2. LoadApprovals(r) \/ CreateBundle(r) \/ CreateFails(r) \/ Crash(r)
        \/ UnlinkLatest(r) \/ LinkLatest(r) \/ FinishSteps(r) \/ ResolveSecrets(r) => Other
    BY DEF LoadApprovals, CreateBundle, CreateFails, Crash, UnlinkLatest, LinkLatest,
       FinishSteps, ResolveSecrets, storeVars
  <2>3. ASSUME NEW s \in Steps, NEW v \in Statuses, RunStep(r, s) \/ GateStep(r, s, v)
        PROVE  Other
    BY <2>3 DEF RunStep, GateStep, storeVars
  <2>4. ASSUME NEW s \in Steps, RunStep(r, s) PROVE Other
    BY <2>4 DEF RunStep, storeVars
  <2>5. ASSUME NEW o \in Outcomes, RunAttempt(r, o) PROVE Other
    BY <2>5 DEF RunAttempt, storeVars
  <2>6. /\ WriteApprovals(r) => UNCHANGED <<execution, granted>>
        /\ WriteExecution(r) => UNCHANGED <<approvals, granted>>
    BY DEF WriteApprovals, WriteExecution
  <2> HIDE DEF Other
  <2>7. QED
    BY <1>1, <2>1, <2>2, <2>3, <2>4, <2>5, <2>6 DEF Runner, RunnerStep
<1>2. ASSUME NEW a \in Approvers, Approver(a)
      PROVE  Other \/ (GrantAppend(a) /\ UNCHANGED execution)
  BY <1>2 DEF Approver, GrantResolve, GrantLoad, GrantAppend, GrantFail, storeVars
<1>3. ASSUME NEW p \in Policies, EditPolicy(p) PROVE Other
  BY <1>3 DEF EditPolicy, storeVars
<1>4. ASSUME NEW v \in Vaults, ChangeVault(v) PROVE Other
  BY <1>4 DEF ChangeVault, storeVars
<1>5. UNCHANGED vars => Other
  BY DEF vars, storeVars
<1>6. QED
  BY <1>1, <1>2, <1>3, <1>4, <1>5 DEF Next

LEMMA InitOwned == Init => Owned
  BY DEF Init, Owned, NoBundle

LEMMA OwnedStep == TypeOK /\ Owned /\ [Next]_vars => Owned'
<1> SUFFICES ASSUME TypeOK, Owned, [Next]_vars PROVE Owned'
  OBVIOUS
<1> USE BoundAssumption
<1>1. ASSUME NEW r \in Runners, NEW q \in Requests, StartRun(r, q) PROVE Owned'
  BY <1>1 DEF StartRun, Owned, TypeOK, Goto, storeVars
<1>2. ASSUME NEW r \in Runners, LoadApprovals(r) PROVE Owned'
  BY <1>2 DEF LoadApprovals, Owned, TypeOK, Goto, storeVars
<1>3. ASSUME NEW r \in Runners, CreateBundle(r) PROVE Owned'
  BY <1>3 DEF CreateBundle, Owned, TypeOK, Goto, Bundles, NoBundle
<1>4. ASSUME NEW r \in Runners, Forget(r), UNCHANGED created, UNCHANGED execution PROVE Owned'
  BY <1>4 DEF Forget, Owned, TypeOK, Goto
<1>5. ASSUME NEW r \in Runners, UnlinkLatest(r) PROVE Owned'
  BY <1>5 DEF UnlinkLatest, Owned, TypeOK, Goto
<1>6. ASSUME NEW r \in Runners, LinkLatest(r) PROVE Owned'
  BY <1>6 DEF LinkLatest, Owned, TypeOK, Goto
<1>7. ASSUME NEW r \in Runners, NEW s \in Steps, NEW v \in Statuses, GateStep(r, s, v)
      PROVE  Owned'
  BY <1>7 DEF GateStep, Owned, storeVars
<1>8. ASSUME NEW r \in Runners, NEW p \in Pcs, pc[r] \in {"steps", "secrets", "command"},
             pc' = [pc EXCEPT ![r] = p], p \notin {"idle", "load", "create"},
             UNCHANGED <<bundle, created, execution>>
      PROVE  Owned'
  BY <1>8 DEF Owned, TypeOK
<1>9. ASSUME NEW r \in Runners, NEW s \in Steps, RunStep(r, s) PROVE Owned'
  <2>1. CASE Verdict(r, s) = "running"
    BY <1>9, <2>1, <1>8 DEF RunStep, Goto, Pcs, storeVars
  <2>2. CASE Verdict(r, s) # "running"
    BY <1>9, <2>2 DEF RunStep, Owned, storeVars
  <2>3. QED
    BY <2>1, <2>2
<1>10. ASSUME NEW r \in Runners, ResolveSecrets(r) PROVE Owned'
  BY <1>10, <1>8 DEF ResolveSecrets, EndStep, Goto, Pcs, storeVars
<1>11. ASSUME NEW r \in Runners, NEW o \in Outcomes, RunAttempt(r, o) PROVE Owned'
  <2>1. CASE o \in Failures /\ Repeats(r, o)
    BY <1>11, <2>1 DEF RunAttempt, Failures, Owned, storeVars
  <2>0. CASE o = "held"
    BY <1>11, <2>0, <1>8 DEF RunAttempt, Goto, Pcs, storeVars
  <2>2. CASE o # "held" /\ ~(o \in Failures /\ Repeats(r, o))
    BY <1>11, <2>2, <1>8 DEF RunAttempt, EndStep, Goto, Pcs, storeVars
  <2>3. QED
    BY <2>0, <2>1, <2>2
<1>12. ASSUME NEW r \in Runners, FinishSteps(r) PROVE Owned'
  BY <1>12, <1>8 DEF FinishSteps, Goto, Pcs, storeVars
<1>13. ASSUME NEW r \in Runners, WriteApprovals(r) PROVE Owned'
  BY <1>13 DEF WriteApprovals, Owned, TypeOK, Goto
<1>14. ASSUME NEW r \in Runners, WriteExecution(r) PROVE Owned'
  <2>1. bundle[r] # NoBundle /\ bundle[r] \in Bundles
    BY <1>14 DEF WriteExecution, Owned, TypeOK
  <2>2. \A x \in Runners : x # r /\ bundle[x] # NoBundle => bundle[x] # bundle[r]
    BY <2>1 DEF Owned
  <2>3. /\ bundle' = [bundle EXCEPT ![r] = NoBundle]
        /\ pc' = [pc EXCEPT ![r] = "idle"]
        /\ created' = created
        /\ \A b \in Bundles : b # bundle[r] => execution'[b] = execution[b]
    BY <1>14 DEF WriteExecution, Forget, Goto, TypeOK
  <2>4. QED
    BY <2>1, <2>2, <2>3 DEF Owned, TypeOK, Bundles, NoBundle
<1>15. ASSUME NEW a \in Approvers, Approver(a) PROVE Owned'
  BY <1>15 DEF Approver, GrantResolve, GrantLoad, GrantAppend, GrantFail, Owned, storeVars, runVars
<1>16. CASE UNCHANGED <<storeVars, runVars>>
  BY <1>16 DEF Owned, storeVars, runVars
<1>17. QED
  BY <1>1, <1>2, <1>3, <1>4, <1>5, <1>6, <1>7, <1>9, <1>10, <1>11, <1>12, <1>13, <1>14,
     <1>15, <1>16
  DEF Next, Runner, RunnerStep, CreateFails, Crash, EditPolicy, ChangeVault, vars, storeVars

(* Neither the results nor the approvals of a recorded bundle go away.     *)
LEMMA KeptStep ==
  ASSUME TypeOK, Owned, [Next]_vars
  PROVE  \A b \in Bundles : execution[b] # None =>
           execution'[b] = execution[b] /\ approvals[b] \subseteq approvals'[b]
<1>1. ASSUME NEW b \in Bundles, execution[b] # None PROVE execution'[b] = execution[b]
  <2>1. CASE \E r \in Runners : WriteExecution(r)
    <3>1. PICK r \in Runners : WriteExecution(r)
      BY <2>1
    <3>2. bundle[r] # b
      BY <1>1, <3>1 DEF WriteExecution, Owned
    <3>3. QED
      BY <3>1, <3>2 DEF WriteExecution, TypeOK
  <2>2. QED
    BY <2>1, StoreWriters
<1>2. ASSUME NEW b \in Bundles, execution[b] # None PROVE approvals[b] \subseteq approvals'[b]
  <2>1. CASE \E r \in Runners : WriteApprovals(r)
    <3>1. PICK r \in Runners : WriteApprovals(r)
      BY <2>1
    <3>2. bundle[r] # b
      BY <1>2, <3>1 DEF WriteApprovals, Owned
    <3>3. QED
      BY <3>1, <3>2 DEF WriteApprovals, TypeOK
  <2>2. CASE \E a \in Approvers : GrantAppend(a)
    BY <2>2 DEF GrantAppend, TypeOK
  <2>3. QED
    BY <2>1, <2>2, StoreWriters
<1>3. QED
  BY <1>1, <1>2

LEMMA AskedGrows ==
  ASSUME TypeOK, Owned, [Next]_vars
  PROVE  Asked \subseteq Asked'
  BY KeptStep DEF Asked

-----------------------------------------------------------------------------
LEMMA InitProvenance == Init => Provenance
  BY DEF Init, Provenance, Asked

(* Only LoadApprovals and forgetting change what a run has loaded.         *)
LEMMA LoadedWriters ==
  ASSUME [Next]_vars
  PROVE  \/ UNCHANGED loaded
         \/ \E r \in Runners : LoadApprovals(r) \/ loaded' = [loaded EXCEPT ![r] = {}]
<1>1. ASSUME NEW r \in Runners, Runner(r)
      PROVE  UNCHANGED loaded \/ LoadApprovals(r) \/ loaded' = [loaded EXCEPT ![r] = {}]
  <2>1. ASSUME NEW q \in Requests, StartRun(r, q) PROVE UNCHANGED loaded
    BY <2>1 DEF StartRun
  <2>2. CreateBundle(r) \/ UnlinkLatest(r) \/ LinkLatest(r) \/ FinishSteps(r)
        \/ ResolveSecrets(r) \/ WriteApprovals(r) => UNCHANGED loaded
    BY DEF CreateBundle, UnlinkLatest, LinkLatest, FinishSteps, ResolveSecrets, WriteApprovals
  <2>3. ASSUME NEW s \in Steps, NEW v \in Statuses, GateStep(r, s, v) PROVE UNCHANGED loaded
    BY <2>3 DEF GateStep
  <2>4. ASSUME NEW s \in Steps, RunStep(r, s) PROVE UNCHANGED loaded
    BY <2>4 DEF RunStep
  <2>5. ASSUME NEW o \in Outcomes, RunAttempt(r, o) PROVE UNCHANGED loaded
    BY <2>5 DEF RunAttempt
  <2>6. CreateFails(r) \/ WriteExecution(r) \/ Crash(r) => loaded' = [loaded EXCEPT ![r] = {}]
    BY DEF CreateFails, WriteExecution, Crash, Forget
  <2>7. QED
    BY <1>1, <2>1, <2>2, <2>3, <2>4, <2>5, <2>6 DEF Runner, RunnerStep
<1>2. ASSUME NEW a \in Approvers, Approver(a) PROVE UNCHANGED loaded
  BY <1>2 DEF Approver, GrantResolve, GrantLoad, GrantAppend, GrantFail, runVars
<1>3. ASSUME NEW p \in Policies, EditPolicy(p) PROVE UNCHANGED loaded
  BY <1>3 DEF EditPolicy, runVars
<1>4. ASSUME NEW v \in Vaults, ChangeVault(v) PROVE UNCHANGED loaded
  BY <1>4 DEF ChangeVault, runVars
<1>5. UNCHANGED vars => UNCHANGED loaded
  BY DEF vars, runVars
<1>6. QED
  BY <1>1, <1>2, <1>3, <1>4, <1>5 DEF Next

(* What a grant call holds changes in its own steps only.                  *)
LEMMA RecordWriters ==
  ASSUME [Next]_vars
  PROVE  UNCHANGED grantVars \/ \E a \in Approvers : Approver(a)
<1>1. ASSUME NEW r \in Runners, Runner(r) PROVE UNCHANGED grantVars
  BY <1>1 DEF Runner, RunnerStep, StartRun, LoadApprovals, CreateBundle, CreateFails,
     UnlinkLatest, LinkLatest, GateStep, RunStep, ResolveSecrets, RunAttempt, FinishSteps,
     WriteApprovals, WriteExecution, Crash
<1>2. ASSUME NEW p \in Policies, EditPolicy(p) PROVE UNCHANGED grantVars
  BY <1>2 DEF EditPolicy
<1>3. ASSUME NEW v \in Vaults, ChangeVault(v) PROVE UNCHANGED grantVars
  BY <1>3 DEF ChangeVault
<1>4. QED
  BY <1>1, <1>2, <1>3 DEF Next, vars

LEMMA ProvenanceStep == TypeOK /\ Owned /\ Provenance /\ [Next]_vars => Provenance'
<1> SUFFICES ASSUME TypeOK, Owned, Provenance, [Next]_vars PROVE Provenance'
  OBVIOUS
<1>1. Asked \subseteq Asked'
  BY AskedGrows
<1>2. ASSUME NEW a \in Approvers, GrantAppend(a)
      PROVE  /\ record[a] \in Asked
             /\ granted' = granted \union {record[a]}
             /\ \A b \in Bundles : approvals'[b] \subseteq approvals[b] \union {record[a]}
  BY <1>2 DEF GrantAppend, Provenance, TypeOK
<1>3. granted \subseteq granted'
  BY <1>2, StoreWriters
<1>4. \A b \in Bundles : approvals'[b] \subseteq granted'
  <2>1. ASSUME NEW r \in Runners, WriteApprovals(r), NEW b \in Bundles
        PROVE  approvals'[b] \subseteq granted'
    <3>1. approvals'[b] = approvals[b] \/ approvals'[b] = loaded[r]
      BY <2>1 DEF WriteApprovals, TypeOK
    <3>2. QED
      BY <3>1, <1>3 DEF Provenance
  <2>2. ASSUME NEW a \in Approvers, GrantAppend(a), NEW b \in Bundles
        PROVE  approvals'[b] \subseteq granted'
    BY <2>2, <1>2 DEF Provenance
  <2>3. QED
    BY <2>1, <2>2, <1>3, StoreWriters DEF Provenance
<1>5. \A r \in Runners : loaded'[r] \subseteq granted'
  <2>1. ASSUME NEW r \in Runners, LoadApprovals(r), NEW x \in Runners
        PROVE  loaded'[x] \subseteq granted
    <3>1. Deref(source[r]) # NoBundle => Deref(source[r]) \in Bundles
      BY DEF Deref, TypeOK, Refs
    <3>2. loaded'[x] = loaded[x] \/ loaded'[x] = {} \/ \E b \in Bundles : loaded'[x] = approvals[b]
      BY <2>1, <3>1 DEF LoadApprovals, TypeOK
    <3>3. QED
      BY <3>2 DEF Provenance
  <2>2. ASSUME NEW r \in Runners, loaded' = [loaded EXCEPT ![r] = {}], NEW x \in Runners
        PROVE  loaded'[x] \subseteq granted
    BY <2>2 DEF Provenance, TypeOK
  <2>3. QED
    BY <2>1, <2>2, <1>3, LoadedWriters DEF Provenance
<1>6. \A a \in Approvers : gpc'[a] = "append" => record'[a] \in Asked'
  <2>1. ASSUME NEW a \in Approvers, Approver(a), NEW x \in Approvers, gpc'[x] = "append"
        PROVE  record'[x] \in Asked
    <3>1. ASSUME NEW s \in Steps, GrantLoad(a, s) PROVE record'[x] \in Asked
      <4>1. Deref(target[a]) \in Bundles
        BY <3>1 DEF GrantLoad, Deref, TypeOK, Refs
      <4>2. <<execution[Deref(target[a])].workflow, s>> \in Asked
        BY <3>1, <4>1 DEF GrantLoad, Asked, TypeOK, Executions, Gates
      <4>3. QED
        BY <3>1, <4>2, <2>1 DEF GrantLoad, TypeOK, Provenance
    <3>2. ASSUME NEW ref \in Refs, GrantResolve(a, ref) PROVE record'[x] \in Asked
      BY <3>2, <2>1 DEF GrantResolve, TypeOK, Provenance
    <3>3. CASE GrantAppend(a) \/ GrantFail(a)
      BY <3>3, <2>1 DEF GrantAppend, GrantFail, EndGrant, TypeOK, Provenance
    <3>4. QED
      BY <2>1, <3>1, <3>2, <3>3 DEF Approver
  <2>2. QED
    BY <2>1, <1>1, RecordWriters DEF grantVars, Provenance
<1>7. granted' \subseteq Asked'
  BY <1>1, <1>2, StoreWriters DEF Provenance
<1>8. QED
  BY <1>4, <1>5, <1>6, <1>7 DEF Provenance

-----------------------------------------------------------------------------
(* How one run's results change: they are forgotten, a step still to do    *)
(* gets its first result, or the step under way gets its last one.         *)
FirstResult(r) == \E s \in Steps, res \in Results :
  /\ pc[r] = "steps" /\ s \in todo[r] /\ request[r] # None
  /\ Finish(r, s, res)
  /\ res.status # "none"
  /\ \/ res.status \notin Performed /\ UNCHANGED step
     \/ /\ res.status = "running" /\ step' = [step EXCEPT ![r] = s]
        /\ res.approvalRequired => GateOf(r, s) \in loaded[r]
        /\ request[r].mode = "execute"
        /\ \A d \in SpecOf(r, s).dependsOn : done[r][d].status = "ok"
        /\ SpecOf(r, s).fallbackFor # {} =>
             \E f \in SpecOf(r, s).fallbackFor : done[r][f].status \in Failed

LastResult(r) == \E st \in Statuses, d \in BOOLEAN :
  /\ pc[r] \in {"secrets", "command"}
  /\ EndStep(r, st, d)
  /\ st \notin {"none", "running"}
  /\ UNCHANGED todo

LEMMA GateStepResult ==
  ASSUME TypeOK, NEW r \in Runners, NEW s \in Steps, NEW v \in Statuses, GateStep(r, s, v)
  PROVE  FirstResult(r)
<1>1. v \in {"fallback_source_missing", "fallback_not_needed",
             "dependency_missing", "dependency_blocked"}
  BY DEF GateStep, Fallback, FallbackVerdict, Dependency, DependencyVerdicts
<1> DEFINE st == IF v = "fallback_not_needed" \/ VaultOK(SpecOf(r, s))
                 THEN v ELSE "vault_missing"
           res == [status |-> st, approvalRequired |-> FALSE,
                   vaultOK |-> VaultOK(SpecOf(r, s)), degraded |-> FALSE]
<1>2. st \in Statuses \ (Performed \union {"none"})
  BY <1>1 DEF Statuses, Performed
<1>3. res \in Results
  BY <1>2 DEF Results, VaultOK
<1>4. Finish(r, s, res) /\ UNCHANGED step /\ pc[r] = "steps" /\ s \in todo[r]
  BY DEF GateStep, IsNext
<1>5. request[r] # None
  BY <1>4 DEF TypeOK
<1>6. res.status = st
  OBVIOUS
<1>7. QED
  BY <1>2, <1>3, <1>4, <1>5, <1>6 DEF FirstResult

(* A step in the approval map has a record of this workflow among those    *)
(* the run loaded.                                                         *)
LEMMA MapIsLoaded ==
  ASSUME TypeOK, NEW r \in Runners, NEW s \in Steps, s \in ApprovalMap(r)
  PROVE  GateOf(r, s) \in loaded[r]
<1>1. PICK g \in loaded[r] : g[1] = request[r].workflow /\ g[2] = s
  BY DEF ApprovalMap
<1>2. g \in Gates
  BY DEF TypeOK
<1>3. g = <<g[1], g[2]>>
  BY <1>2 DEF Gates
<1>4. QED
  BY <1>1, <1>3 DEF GateOf

LEMMA RunStepResult ==
  ASSUME TypeOK, NEW r \in Runners, NEW s \in Steps, RunStep(r, s)
  PROVE  FirstResult(r)
<1> DEFINE res == [status |-> Verdict(r, s), approvalRequired |-> Required(GateOf(r, s)),
                   vaultOK |-> VaultOK(SpecOf(r, s)), degraded |-> FALSE]
<1>1. Verdict(r, s) \in (Statuses \ (Performed \union {"none"})) \union {"running"}
  BY DEF Verdict, StepVerdict, Statuses, Performed
<1>2. res \in Results
  BY <1>1 DEF Results, VaultOK, Required, Statuses
<1>3. Finish(r, s, res) /\ pc[r] = "steps" /\ s \in todo[r]
  BY DEF RunStep, IsNext
<1>4. request[r] # None
  BY <1>3 DEF TypeOK
<1>5. res.status = Verdict(r, s) /\ res.approvalRequired = Required(GateOf(r, s))
  OBVIOUS
<1>6. CASE Verdict(r, s) # "running"
  <2>1. UNCHANGED step
    BY <1>6 DEF RunStep
  <2>2. res.status # "none" /\ res.status \notin Performed
    BY <1>1, <1>5, <1>6
  <2>3. QED
    BY <2>1, <2>2, <1>2, <1>3, <1>4 DEF FirstResult
<1>7. CASE Verdict(r, s) = "running"
  <2>1. step' = [step EXCEPT ![r] = s]
    BY <1>7 DEF RunStep
  <2>2. request[r].mode = "execute" /\ (Required(GateOf(r, s)) => GateOf(r, s) \in loaded[r])
    <3>1. request[r].mode = "execute" /\ (Required(GateOf(r, s)) => s \in ApprovalMap(r))
      BY <1>7 DEF Verdict, StepVerdict, GateOf
    <3>2. QED
      BY <3>1, MapIsLoaded
  <2>3. \A d \in SpecOf(r, s).dependsOn : done[r][d].status = "ok"
    <3>1. Dependency(r, s) = {}
      BY DEF RunStep
    <3>2. ASSUME NEW d \in SpecOf(r, s).dependsOn PROVE done[r][d].status = "ok"
      <4>1. \A v \in {"dependency_missing", "dependency_blocked"} :
              ~(IF v = "dependency_missing" THEN done[r][d].status = "none"
                ELSE done[r][d].status \notin {"none", "ok"})
        BY <3>1, <2>2 DEF Dependency, DependencyVerdicts
      <4>2. QED
        BY <4>1
    <3>3. QED
      BY <3>2
  <2>4. SpecOf(r, s).fallbackFor # {} =>
          \E f \in SpecOf(r, s).fallbackFor : done[r][f].status \in Failed
    BY <2>2 DEF RunStep, Fallback, FallbackVerdict
  <2> HIDE DEF res
  <2>5. QED
    BY <2>1, <2>2, <2>3, <2>4, <1>2, <1>3, <1>4, <1>5, <1>7 DEF FirstResult
<1>8. QED
  BY <1>6, <1>7

RunUnchanged == UNCHANGED <<request, todo, done, step>>

LEMMA ResultWriters ==
  ASSUME TypeOK, [Next]_vars
  PROVE  \/ RunUnchanged
         \/ \E r \in Runners : Forget(r)
         \/ \E r \in Runners, q \in Requests : StartRun(r, q)
         \/ \E r \in Runners : FirstResult(r) /\ UNCHANGED request
         \/ \E r \in Runners : LastResult(r) /\ UNCHANGED request
<1>1. ASSUME NEW r \in Runners, Runner(r)
      PROVE  \/ RunUnchanged \/ Forget(r) \/ \E q \in Requests : StartRun(r, q)
             \/ FirstResult(r) /\ UNCHANGED request
             \/ LastResult(r) /\ UNCHANGED request
  <2>1. LoadApprovals(r) \/ CreateBundle(r) \/ UnlinkLatest(r) \/ LinkLatest(r)
        \/ FinishSteps(r) \/ WriteApprovals(r) => RunUnchanged
    BY DEF LoadApprovals, CreateBundle, UnlinkLatest, LinkLatest, FinishSteps, WriteApprovals,
       RunUnchanged
  <2>2. CreateFails(r) \/ WriteExecution(r) \/ Crash(r) => Forget(r)
    BY DEF CreateFails, WriteExecution, Crash
  <2>3. ASSUME NEW s \in Steps, RunStep(r, s) PROVE FirstResult(r) /\ UNCHANGED request
    BY <2>3, RunStepResult DEF RunStep
  <2>4. ASSUME NEW s \in Steps, NEW v \in Statuses, GateStep(r, s, v)
        PROVE  FirstResult(r) /\ UNCHANGED request
    BY <2>4, GateStepResult DEF GateStep
  <2>5. ASSUME ResolveSecrets(r) PROVE RunUnchanged \/ (LastResult(r) /\ UNCHANGED request)
    <3>1. UNCHANGED <<request, todo>> /\ pc[r] = "secrets"
      BY <2>5 DEF ResolveSecrets
    <3>2. "secret_env_failed" \in Statuses /\ FALSE \in BOOLEAN
      BY DEF Statuses
    <3>3. UNCHANGED <<done, step>> \/ EndStep(r, "secret_env_failed", FALSE)
      BY <2>5 DEF ResolveSecrets
    <3>4. QED
      BY <3>1, <3>2, <3>3 DEF RunUnchanged, LastResult
  <2>6. ASSUME NEW o \in Outcomes, RunAttempt(r, o)
        PROVE  RunUnchanged \/ (LastResult(r) /\ UNCHANGED request)
    <3>1. UNCHANGED <<request, todo>> /\ pc[r] = "command"
      BY <2>6 DEF RunAttempt
    <3>2. CASE o = "held" \/ (o \in Failures /\ Repeats(r, o))
      BY <2>6, <3>1, <3>2 DEF RunAttempt, RunUnchanged
    <3>3. CASE o # "held" /\ ~(o \in Failures /\ Repeats(r, o))
      <4>1. PICK st \in Statuses \ {"none", "running"}, d \in BOOLEAN : EndStep(r, st, d)
        BY <2>6, <3>3 DEF RunAttempt, Statuses
      <4>2. QED
        BY <3>1, <4>1 DEF LastResult
    <3>4. QED
      BY <3>2, <3>3
  <2>7. QED
    BY <1>1, <2>1, <2>2, <2>3, <2>4, <2>5, <2>6 DEF Runner, RunnerStep
<1>2. ASSUME NEW a \in Approvers, Approver(a) PROVE RunUnchanged
  BY <1>2 DEF Approver, GrantResolve, GrantLoad, GrantAppend, GrantFail, runVars, RunUnchanged
<1>3. ASSUME NEW p \in Policies, EditPolicy(p) PROVE RunUnchanged
  BY <1>3 DEF EditPolicy, runVars, RunUnchanged
<1>4. ASSUME NEW v \in Vaults, ChangeVault(v) PROVE RunUnchanged
  BY <1>4 DEF ChangeVault, runVars, RunUnchanged
<1>5. UNCHANGED vars => RunUnchanged
  BY DEF vars, runVars, RunUnchanged
<1>6. QED
  BY <1>1, <1>2, <1>3, <1>4, <1>5 DEF Next

(* What the two kinds of result change do to the results of the run.       *)
LEMMA FirstResultEffect ==
  ASSUME TypeOK, NEW r \in Runners, NEW s \in Steps, NEW res \in Results, Finish(r, s, res)
  PROVE  /\ done'[r][s] = res
         /\ \A x \in Steps : x # s => done'[r][x] = done[r][x]
         /\ \A y \in Runners : y # r => done'[y] = done[y] /\ todo'[y] = todo[y]
         /\ todo'[r] = todo[r] \ {s}
  BY DEF Finish, TypeOK

LEMMA LastResultEffect ==
  ASSUME TypeOK, NEW r \in Runners, NEW st \in Statuses, NEW d \in BOOLEAN,
         pc[r] \in {"secrets", "command"}, EndStep(r, st, d)
  PROVE  /\ step[r] \in Steps
         /\ done'[r][step[r]].status = st
         /\ done'[r][step[r]].approvalRequired = done[r][step[r]].approvalRequired
         /\ \A x \in Steps : x # step[r] => done'[r][x] = done[r][x]
         /\ \A y \in Runners : y # r => done'[y] = done[y] /\ step'[y] = step[y]
         /\ step'[r] = None
<1>1. step[r] \in Steps /\ done[r] \in [Steps -> Results]
  BY DEF TypeOK
<1>2. done[r][step[r]] \in Results
  BY <1>1
<1> DEFINE last == [done[r][step[r]] EXCEPT !.status = st, !.degraded = d]
<1>3. last.status = st /\ last.approvalRequired = done[r][step[r]].approvalRequired
  BY <1>2 DEF Results
<1>4. done' = [done EXCEPT ![r] = [done[r] EXCEPT ![step[r]] = last]]
  BY DEF EndStep
<1> HIDE DEF last
<1>5. QED
  BY <1>1, <1>3, <1>4 DEF EndStep, TypeOK

LEMMA InitInOrder == Init => InOrder
  BY NoneAssumption DEF Init, InOrder, NoResult

LEMMA InOrderStep == TypeOK /\ TypeOK' /\ InOrder /\ [Next]_vars => InOrder'
<1> SUFFICES ASSUME TypeOK, TypeOK', InOrder, [Next]_vars PROVE InOrder'
  OBVIOUS
<1> DEFINE Good(td, rq, dn, st) ==
      \A s \in Steps : /\ s \in td \/ rq = None => dn[s].status = "none"
                       /\ dn[s].status = "running" <=> st = s
<1>1. \A r \in Runners : Good(todo[r], request[r], done[r], step[r])
  BY DEF InOrder, TypeOK
<1>2. SUFFICES \A r \in Runners : Good(todo'[r], request'[r], done'[r], step'[r])
  BY DEF InOrder, TypeOK
<1>3. CASE RunUnchanged
  BY <1>1, <1>3 DEF RunUnchanged
<1>4. ASSUME NEW r \in Runners, Forget(r)
      PROVE  \A x \in Runners : Good(todo'[x], request'[x], done'[x], step'[x])
  BY <1>1, <1>4, NoneAssumption DEF Forget, TypeOK, NoResult
<1>5. ASSUME NEW r \in Runners, NEW q \in Requests, StartRun(r, q)
      PROVE  \A x \in Runners : Good(todo'[x], request'[x], done'[x], step'[x])
  <2>1. request[r] = None
    BY <1>5 DEF StartRun, TypeOK
  <2>2. QED
    BY <2>1, <1>1, <1>5 DEF StartRun, TypeOK
<1>6. ASSUME NEW r \in Runners, FirstResult(r), UNCHANGED request
      PROVE  \A x \in Runners : Good(todo'[x], request'[x], done'[x], step'[x])
  <2>1. PICK s \in Steps, res \in Results :
           /\ pc[r] = "steps" /\ s \in todo[r] /\ request[r] # None
           /\ Finish(r, s, res) /\ res.status # "none"
           /\ \/ res.status \notin Performed /\ UNCHANGED step
              \/ res.status = "running" /\ step' = [step EXCEPT ![r] = s]
    BY <1>6 DEF FirstResult
  <2>2. /\ done'[r][s] = res
        /\ \A x \in Steps : x # s => done'[r][x] = done[r][x]
        /\ \A y \in Runners : y # r => done'[y] = done[y] /\ todo'[y] = todo[y]
        /\ todo'[r] = todo[r] \ {s}
    BY <2>1, FirstResultEffect
  <2>3. step[r] = None /\ s # None
    BY <2>1, NoneAssumption DEF TypeOK
  <2>4. step'[r] = IF res.status = "running" THEN s ELSE None
    BY <2>1, <2>3 DEF TypeOK, Performed
  <2>5. \A y \in Runners : y # r => step'[y] = step[y]
    BY <2>1 DEF TypeOK
  <2>6. Good(todo'[r], request'[r], done'[r], step'[r])
    <3>1. ASSUME NEW x \in Steps
          PROVE  /\ x \in todo'[r] \/ request'[r] = None => done'[r][x].status = "none"
                 /\ done'[r][x].status = "running" <=> step'[r] = x
      <4>1. CASE x = s
        BY <4>1, <2>1, <2>2, <2>3, <2>4, <1>6
      <4>2. CASE x # s
        <5>1. done[r][x].status # "running" /\ x # None
          BY <2>3, <1>1, NoneAssumption
        <5>2. QED
          BY <5>1, <4>2, <2>1, <2>2, <2>4, <1>1, <1>6
      <4>3. QED
        BY <4>1, <4>2
    <3>2. QED
      BY <3>1
  <2>7. QED
    BY <2>2, <2>5, <2>6, <1>1, <1>6
<1>7. ASSUME NEW r \in Runners, LastResult(r), UNCHANGED request
      PROVE  \A x \in Runners : Good(todo'[x], request'[x], done'[x], step'[x])
  <2>1. PICK st \in Statuses, d \in BOOLEAN :
           /\ pc[r] \in {"secrets", "command"} /\ EndStep(r, st, d)
           /\ st \notin {"none", "running"} /\ UNCHANGED todo
    BY <1>7 DEF LastResult
  <2>2. /\ step[r] \in Steps /\ done'[r][step[r]].status = st
        /\ \A x \in Steps : x # step[r] => done'[r][x] = done[r][x]
        /\ \A y \in Runners : y # r => done'[y] = done[y] /\ step'[y] = step[y]
        /\ step'[r] = None
    BY <2>1, LastResultEffect
  <2>3. done[r][step[r]].status = "running"
    BY <2>2, <1>1
  <2>4. Good(todo'[r], request'[r], done'[r], step'[r])
    <3>1. request[r] # None
      BY <2>1 DEF TypeOK
    <3>2. step[r] \notin todo[r]
      BY <2>2, <2>3, <1>1
    <3>3. ASSUME NEW s \in Steps
          PROVE  /\ s \in todo'[r] \/ request'[r] = None => done'[r][s].status = "none"
                 /\ done'[r][s].status = "running" <=> step'[r] = s
      <4>1. CASE s = step[r]
        BY <4>1, <3>1, <3>2, <2>1, <2>2, <1>7, NoneAssumption
      <4>2. CASE s # step[r]
        BY <4>2, <3>1, <2>1, <2>2, <1>1, <1>7, NoneAssumption
      <4>3. QED
        BY <4>1, <4>2
    <3>4. QED
      BY <3>3
  <2>5. QED
    BY <2>1, <2>2, <2>4, <1>1, <1>7
<1> HIDE DEF Good
<1>8. QED
  BY <1>3, <1>4, <1>5, <1>6, <1>7, ResultWriters
-----------------------------------------------------------------------------
LEMMA InitAttempted == Init => Attempted
  BY DEF Init, Attempted

(* Attempts are counted by RunAttempt alone, which makes another one only  *)
(* while some are left.                                                    *)
LEMMA AttemptedStep == TypeOK /\ TypeOK' /\ Attempted /\ [Next]_vars => Attempted'
<1> SUFFICES ASSUME TypeOK, TypeOK', Attempted, [Next]_vars PROVE Attempted'
  OBVIOUS
<1> DEFINE Fair(rq, st, n) == n \in IF st = None THEN {0}
                                    ELSE 1..MaxAttempts(Definition[rq.workflow][st])
<1>1. \A r \in Runners : Fair(request[r], step[r], attempt[r])
  BY DEF Attempted, SpecOf
<1>2. SUFFICES \A r \in Runners : Fair(request'[r], step'[r], attempt'[r])
  BY DEF Attempted, SpecOf
<1>3. CASE UNCHANGED <<request, step, attempt>>
  BY <1>1, <1>3
<1>4. ASSUME NEW r \in Runners, Forget(r)
      PROVE  \A x \in Runners : Fair(request'[x], step'[x], attempt'[x])
  <2>1. step'[r] = None /\ attempt'[r] = 0
    BY <1>4 DEF Forget, TypeOK
  <2>2. \A x \in Runners \ {r} :
          request'[x] = request[x] /\ step'[x] = step[x] /\ attempt'[x] = attempt[x]
    BY <1>4 DEF Forget, TypeOK
  <2>3. Fair(request'[r], step'[r], attempt'[r])
    BY <2>1
  <2> HIDE DEF Fair
  <2>4. QED
    BY <1>1, <2>2, <2>3
<1>5. ASSUME NEW r \in Runners, NEW q \in Requests, StartRun(r, q)
      PROVE  \A x \in Runners : Fair(request'[x], step'[x], attempt'[x])
  <2>1. step[r] = None /\ step' = step /\ attempt' = attempt
    BY <1>5 DEF StartRun, TypeOK
  <2>2. \A x \in Runners \ {r} : request'[x] = request[x]
    BY <1>5 DEF StartRun, TypeOK
  <2>3. attempt[r] = 0
    BY <1>1, <2>1
  <2>4. Fair(request'[r], step'[r], attempt'[r])
    BY <2>1, <2>3
  <2> HIDE DEF Fair
  <2>5. QED
    BY <1>1, <2>1, <2>2, <2>4
<1>6. ASSUME NEW r \in Runners, NEW status, NEW degraded, EndStep(r, status, degraded), UNCHANGED request
      PROVE  \A x \in Runners : Fair(request'[x], step'[x], attempt'[x])
  <2>1. step'[r] = None /\ attempt'[r] = 0
    BY <1>6 DEF EndStep, TypeOK
  <2>2. \A x \in Runners \ {r} : step'[x] = step[x] /\ attempt'[x] = attempt[x]
    BY <1>6 DEF EndStep, TypeOK
  <2>3. Fair(request'[r], step'[r], attempt'[r])
    BY <2>1
  <2> HIDE DEF Fair
  <2>4. QED
    BY <1>1, <1>6, <2>2, <2>3
<1>7. ASSUME NEW r \in Runners, NEW s \in Steps, RunStep(r, s)
      PROVE  \A x \in Runners : Fair(request'[x], step'[x], attempt'[x])
  <2>1. CASE Verdict(r, s) # "running"
    BY <1>1, <1>7, <2>1 DEF RunStep
  <2>2. CASE Verdict(r, s) = "running"
    <3>1. request[r] \in AllRequests
      BY <1>7, WorkflowAssumption DEF RunStep, TypeOK
    <3>2. Definition[request[r].workflow][s].maxAttempts \in Int
      BY <3>1, WorkflowAssumption DEF AllRequests, StepSpecs
    <3>3. 1 \in 1..MaxAttempts(Definition[request[r].workflow][s])
      BY <3>2 DEF MaxAttempts
    <3>4. s # None
      BY NoneAssumption
    <3>5. /\ step' = [step EXCEPT ![r] = s] /\ attempt' = [attempt EXCEPT ![r] = 1]
          /\ request' = request
      BY <1>7, <2>2 DEF RunStep
    <3> HIDE DEF Fair
    <3>6. Fair(request[r], s, 1)
      BY <3>3, <3>4 DEF Fair
    <3>7. QED
      BY <1>1, <3>5, <3>6 DEF TypeOK
  <2>3. QED
    BY <2>1, <2>2
<1>8. ASSUME NEW r \in Runners, NEW o \in Outcomes, RunAttempt(r, o)
      PROVE  \A x \in Runners : Fair(request'[x], step'[x], attempt'[x])
  <2>1. CASE o = "held"
    BY <1>3, <1>8, <2>1 DEF RunAttempt
  <2>2. CASE o # "held" /\ o \in Failures /\ Repeats(r, o)
    <3>1. /\ attempt' = [attempt EXCEPT ![r] = @ + 1] /\ step' = step /\ request' = request
      BY <1>8, <2>2 DEF RunAttempt
    <3>2. step[r] \in Steps
      BY <1>8 DEF RunAttempt, TypeOK
    <3>3. request[r] \in AllRequests
      BY <1>8, WorkflowAssumption DEF RunAttempt, TypeOK
    <3>4. Definition[request[r].workflow][step[r]].maxAttempts \in Int
      BY <3>2, <3>3, WorkflowAssumption DEF AllRequests, StepSpecs
    <3>5. MaxAttempts(Definition[request[r].workflow][step[r]]) \in Int
      BY <3>4 DEF MaxAttempts
    <3>6. attempt[r] \in Nat /\ attempt[r] < MaxAttempts(Definition[request[r].workflow][step[r]])
      BY <2>2 DEF Repeats, SpecOf, TypeOK
    <3>7. step[r] # None
      BY <3>2, NoneAssumption
    <3>8. attempt[r] + 1 \in 1..MaxAttempts(Definition[request[r].workflow][step[r]])
      BY <3>5, <3>6
    <3>9. Fair(request[r], step[r], attempt[r] + 1)
      BY <3>7, <3>8
    <3> HIDE DEF Fair
    <3>10. QED
      BY <1>1, <3>1, <3>9 DEF TypeOK
  <2>3. CASE o # "held" /\ ~(o \in Failures /\ Repeats(r, o))
    <3>1. UNCHANGED request /\ \E status, degraded : EndStep(r, status, degraded)
      BY <1>8, <2>3 DEF RunAttempt
    <3>2. QED
      BY <1>6, <3>1
  <2>4. QED
    BY <2>1, <2>2, <2>3
<1>9. ASSUME NEW r \in Runners, ResolveSecrets(r)
      PROVE  \A x \in Runners : Fair(request'[x], step'[x], attempt'[x])
  BY <1>3, <1>6, <1>9 DEF ResolveSecrets
<1> HIDE DEF Fair
<1>10. ASSUME NEW r \in Runners, Runner(r)
       PROVE  \A x \in Runners : Fair(request'[x], step'[x], attempt'[x])
  <2>1. CASE Crash(r)
    BY <1>4, <2>1 DEF Crash
  <2>2. CASE \E q \in Requests : StartRun(r, q)
    BY <1>5, <2>2
  <2>3. CASE CreateFails(r) \/ WriteExecution(r)
    BY <1>4, <2>3 DEF CreateFails, WriteExecution
  <2>4. CASE \E s \in Steps : RunStep(r, s)
    BY <1>7, <2>4
  <2>5. CASE \E o \in Outcomes : RunAttempt(r, o)
    BY <1>8, <2>5
  <2>6. CASE ResolveSecrets(r)
    BY <1>9, <2>6
  <2>7. CASE \/ LoadApprovals(r) \/ CreateBundle(r) \/ UnlinkLatest(r) \/ LinkLatest(r)
             \/ FinishSteps(r) \/ WriteApprovals(r)
             \/ \E s \in Steps, v \in Statuses : GateStep(r, s, v)
    BY <1>3, <2>7 DEF LoadApprovals, CreateBundle, UnlinkLatest, LinkLatest, FinishSteps,
                      WriteApprovals, GateStep
  <2>8. QED
    BY <1>10, <2>1, <2>2, <2>3, <2>4, <2>5, <2>6, <2>7 DEF Runner, RunnerStep
<1>11. CASE \E a \in Approvers : Approver(a)
  BY <1>3, <1>11 DEF Approver, GrantResolve, GrantLoad, GrantAppend, GrantFail, runVars
<1>12. CASE \/ \E p \in Policies : EditPolicy(p)
            \/ \E v \in Vaults : ChangeVault(v)
            \/ UNCHANGED vars
  BY <1>3, <1>12 DEF EditPolicy, ChangeVault, vars, runVars
<1>13. QED
  BY <1>10, <1>11, <1>12 DEF Next
-----------------------------------------------------------------------------
LEMMA GrantedGrows ==
  ASSUME TypeOK, [Next]_vars
  PROVE  granted \subseteq granted'
  BY StoreWriters DEF GrantAppend

LEMMA InitGranted == Init => PerformedNeedsGrant /\ PerformedOnlyWhenDue
  BY DEF Init, PerformedNeedsGrant, PerformedOnlyWhenDue

(* A recorded result is a copy of the results of the run that records it.  *)
LEMMA RecordedStep ==
  ASSUME TypeOK, [Next]_vars, NEW b \in Bundles, execution'[b] # None
  PROVE  \/ execution[b] # None /\ execution'[b] = execution[b]
         \/ \E r \in Runners : /\ request[r] # None
                               /\ execution'[b].workflow = request[r].workflow
                               /\ execution'[b].mode = request[r].mode
                               /\ execution'[b].steps = done[r]
<1>1. CASE UNCHANGED execution
  BY <1>1
<1>2. ASSUME NEW r \in Runners, WriteExecution(r)
      PROVE  \/ execution[b] # None /\ execution'[b] = execution[b]
             \/ /\ request[r] # None
                /\ execution'[b].workflow = request[r].workflow
                /\ execution'[b].mode = request[r].mode
                /\ execution'[b].steps = done[r]
  <2>1. request[r] # None
    BY <1>2 DEF WriteExecution, TypeOK
  <2>2. QED
    BY <2>1, <1>2 DEF WriteExecution, TypeOK
<1>3. QED
  BY <1>1, <1>2, StoreWriters

LEMMA GrantedStep ==
  TypeOK /\ TypeOK' /\ Provenance /\ InOrder /\ PerformedNeedsGrant /\ [Next]_vars
    => PerformedNeedsGrant'
<1> SUFFICES ASSUME TypeOK, TypeOK', Provenance, InOrder, PerformedNeedsGrant, [Next]_vars
             PROVE  PerformedNeedsGrant'
  OBVIOUS
<1> DEFINE Good(rq, dn, gr) ==
      rq # None => \A s \in Steps :
        dn[s].status \in Performed /\ dn[s].approvalRequired => <<rq.workflow, s>> \in gr
<1>1. granted \subseteq granted'
  BY GrantedGrows
<1>2. \A r \in Runners : Good(request[r], done[r], granted)
  BY DEF PerformedNeedsGrant, GrantedIn
<1>3. \A r \in Runners : Good(request[r], done[r], granted')
  BY <1>1, <1>2
<1>4. \A r \in Runners : Good(request'[r], done'[r], granted')
  <2>1. CASE RunUnchanged
    BY <1>3, <2>1 DEF RunUnchanged
  <2>2. ASSUME NEW r \in Runners, Forget(r)
        PROVE  \A x \in Runners : Good(request'[x], done'[x], granted')
    BY <1>3, <2>2 DEF Forget, TypeOK
  <2>3. ASSUME NEW r \in Runners, NEW q \in Requests, StartRun(r, q)
        PROVE  \A x \in Runners : Good(request'[x], done'[x], granted')
    <3>1. \A s \in Steps : done[r][s].status = "none"
      BY <2>3 DEF StartRun, InOrder
    <3>2. QED
      BY <3>1, <1>3, <2>3 DEF StartRun, TypeOK, Performed
  <2>4. ASSUME NEW r \in Runners, FirstResult(r), UNCHANGED request
        PROVE  \A x \in Runners : Good(request'[x], done'[x], granted')
    <3>1. PICK s \in Steps, res \in Results :
             /\ Finish(r, s, res)
             /\ \/ res.status \notin Performed
                \/ res.approvalRequired => GateOf(r, s) \in loaded[r]
      BY <2>4 DEF FirstResult
    <3>2. loaded[r] \subseteq granted'
      BY <1>1 DEF Provenance
    <3>3. QED
      BY <3>1, <3>2, <1>3, <2>4, FirstResultEffect DEF GateOf
  <2>5. ASSUME NEW r \in Runners, LastResult(r), UNCHANGED request
        PROVE  \A x \in Runners : Good(request'[x], done'[x], granted')
    <3>1. PICK st \in Statuses, d \in BOOLEAN :
             pc[r] \in {"secrets", "command"} /\ EndStep(r, st, d)
      BY <2>5 DEF LastResult
    <3>2. /\ step[r] \in Steps
          /\ done'[r][step[r]].approvalRequired = done[r][step[r]].approvalRequired
          /\ \A x \in Steps : x # step[r] => done'[r][x] = done[r][x]
          /\ \A y \in Runners : y # r => done'[y] = done[y]
      BY <3>1, LastResultEffect
    <3>3. done[r][step[r]].status \in Performed
      BY <3>2 DEF InOrder, Performed
    <3>4. QED
      BY <3>2, <3>3, <1>3, <2>5
  <2> HIDE DEF Good
  <2>6. QED
    BY <2>1, <2>2, <2>3, <2>4, <2>5, ResultWriters
<1>5. ASSUME NEW b \in Bundles, execution'[b] # None, NEW s \in Steps,
             execution'[b].steps[s].status \in Performed,
             execution'[b].steps[s].approvalRequired
      PROVE  <<execution'[b].workflow, s>> \in granted'
  <2>1. CASE execution[b] # None /\ execution'[b] = execution[b]
    BY <1>1, <1>5, <2>1 DEF PerformedNeedsGrant, GrantedIn
  <2>2. CASE \E r \in Runners : /\ request[r] # None
                                /\ execution'[b].workflow = request[r].workflow
                                /\ execution'[b].steps = done[r]
    BY <1>3, <1>5, <2>2
  <2>3. QED
    BY <1>5, <2>1, <2>2, RecordedStep
<1>6. QED
  BY <1>4, <1>5 DEF PerformedNeedsGrant, GrantedIn
LEMMA DueStep ==
  TypeOK /\ TypeOK' /\ InOrder /\ PerformedOnlyWhenDue /\ [Next]_vars
    => PerformedOnlyWhenDue'
<1> SUFFICES ASSUME TypeOK, TypeOK', InOrder, PerformedOnlyWhenDue, [Next]_vars
             PROVE  PerformedOnlyWhenDue'
  OBVIOUS
<1> DEFINE Good(rq, dn) == rq # None => DueIn(rq.workflow, rq.mode, dn)
<1>1. \A r \in Runners : Good(request[r], done[r])
  BY DEF PerformedOnlyWhenDue
<1>2. \A r \in Runners : Good(request'[r], done'[r])
  <2>1. CASE RunUnchanged
    BY <1>1, <2>1 DEF RunUnchanged
  <2>2. ASSUME NEW r \in Runners, Forget(r)
        PROVE  \A x \in Runners : Good(request'[x], done'[x])
    BY <1>1, <2>2 DEF Forget, TypeOK
  <2>3. ASSUME NEW r \in Runners, NEW q \in Requests, StartRun(r, q)
        PROVE  \A x \in Runners : Good(request'[x], done'[x])
    <3>1. \A s \in Steps : done[r][s].status = "none"
      BY <2>3 DEF StartRun, InOrder
    <3>2. \A w \in Workflows, m \in Modes : DueIn(w, m, done[r])
      BY <3>1 DEF DueIn, Performed
    <3>3. q.workflow \in Workflows /\ q.mode \in Modes
      BY WorkflowAssumption DEF AllRequests
    <3>4. request' = [request EXCEPT ![r] = q] /\ done' = done
      BY <2>3 DEF StartRun
    <3>5. Good(request'[r], done'[r])
      BY <3>2, <3>3, <3>4 DEF TypeOK
    <3>6. ASSUME NEW x \in Runners, x # r PROVE Good(request'[x], done'[x])
      BY <3>4, <3>6, <1>1 DEF TypeOK
    <3>7. QED
      BY <3>5, <3>6
  <2>4. ASSUME NEW r \in Runners, FirstResult(r), UNCHANGED request
        PROVE  \A x \in Runners : Good(request'[x], done'[x])
    <3>1. PICK s \in Steps, res \in Results :
             /\ s \in todo[r] /\ request[r] # None /\ Finish(r, s, res)
             /\ \/ res.status \notin Performed
                \/ /\ request[r].mode = "execute"
                   /\ \A d \in SpecOf(r, s).dependsOn : done[r][d].status = "ok"
                   /\ SpecOf(r, s).fallbackFor # {} =>
                        \E f \in SpecOf(r, s).fallbackFor : done[r][f].status \in Failed
      BY <2>4 DEF FirstResult
    <3>2. /\ done'[r][s] = res
          /\ \A x \in Steps : x # s => done'[r][x] = done[r][x]
          /\ \A y \in Runners : y # r => done'[y] = done[y]
      BY <3>1, FirstResultEffect
    <3>3. done[r][s].status = "none" /\ "none" \notin Failed
      BY <3>1 DEF InOrder, Failed
    <3> DEFINE w == request[r].workflow
               m == request[r].mode
    <3>4. request[r] \in AllRequests
      BY <3>1, WorkflowAssumption DEF TypeOK
    <3>5. w \in Workflows
      BY <3>4 DEF AllRequests
    <3>6. DueIn(w, m, done[r])
      BY <3>1, <1>1
    <3>7. \A x \in Steps : Definition[w][x] \in StepSpecs
      BY <3>5, WorkflowAssumption
    <3> HIDE DEF w, m
    <3>8. ASSUME NEW x \in Steps, done'[r][x].status \in Performed
          PROVE  /\ m = "execute"
                 /\ \A d \in Definition[w][x].dependsOn : done'[r][d].status = "ok"
                 /\ Definition[w][x].fallbackFor # {} =>
                      \E f \in Definition[w][x].fallbackFor : done'[r][f].status \in Failed
      <4>1. /\ m = "execute"
            /\ \A d \in Definition[w][x].dependsOn : done[r][d].status = "ok"
            /\ Definition[w][x].fallbackFor # {} =>
                 \E f \in Definition[w][x].fallbackFor : done[r][f].status \in Failed
        <5>1. CASE x = s
          BY <5>1, <3>1, <3>2, <3>8 DEF SpecOf, w, m
        <5>2. CASE x # s
          BY <5>2, <3>2, <3>6, <3>8 DEF DueIn
        <5>3. QED
          BY <5>1, <5>2
      <4>2. Definition[w][x].dependsOn \subseteq Steps /\ Definition[w][x].fallbackFor \subseteq Steps
        BY <3>7 DEF StepSpecs
      <4>3. \A d \in Steps : d # s => done'[r][d] = done[r][d]
        BY <3>2
      <4>4. \A d \in Definition[w][x].dependsOn : done'[r][d].status = "ok"
        BY <4>1, <4>2, <4>3, <3>3
      <4>5. Definition[w][x].fallbackFor # {} =>
              \E f \in Definition[w][x].fallbackFor : done'[r][f].status \in Failed
        BY <4>1, <4>2, <4>3, <3>3
      <4>6. QED
        BY <4>1, <4>4, <4>5
    <3>9. DueIn(request'[r].workflow, request'[r].mode, done'[r])
      BY <3>8, <2>4 DEF DueIn, w, m
    <3>10. QED
      BY <3>2, <3>9, <1>1, <2>4
  <2>5. ASSUME NEW r \in Runners, LastResult(r), UNCHANGED request
        PROVE  \A x \in Runners : Good(request'[x], done'[x])
    <3>1. PICK st \in Statuses, dg \in BOOLEAN :
             pc[r] \in {"secrets", "command"} /\ EndStep(r, st, dg)
      BY <2>5 DEF LastResult
    <3>2. /\ step[r] \in Steps
          /\ \A x \in Steps : x # step[r] => done'[r][x] = done[r][x]
          /\ \A y \in Runners : y # r => done'[y] = done[y]
      BY <3>1, LastResultEffect
    <3>3. done[r][step[r]].status = "running"
      BY <3>2 DEF InOrder
    <3> DEFINE w == request[r].workflow
               m == request[r].mode
    <3>4. request[r] # None
      BY <3>1 DEF TypeOK
    <3>5. w \in Workflows /\ DueIn(w, m, done[r])
      BY <3>4, <1>1, WorkflowAssumption DEF TypeOK, AllRequests
    <3>6. \A x \in Steps : Definition[w][x] \in StepSpecs
      BY <3>5, WorkflowAssumption
    <3> HIDE DEF w, m
    <3>7. ASSUME NEW x \in Steps, done'[r][x].status \in Performed
          PROVE  /\ m = "execute"
                 /\ \A d \in Definition[w][x].dependsOn : done'[r][d].status = "ok"
                 /\ Definition[w][x].fallbackFor # {} =>
                      \E f \in Definition[w][x].fallbackFor : done'[r][f].status \in Failed
      <4>1. done[r][x].status \in Performed
        BY <3>2, <3>3, <3>7 DEF Performed
      <4>2. /\ m = "execute"
            /\ \A d \in Definition[w][x].dependsOn : done[r][d].status = "ok"
            /\ Definition[w][x].fallbackFor # {} =>
                 \E f \in Definition[w][x].fallbackFor : done[r][f].status \in Failed
        BY <4>1, <3>5 DEF DueIn
      <4>3. Definition[w][x].dependsOn \subseteq Steps /\ Definition[w][x].fallbackFor \subseteq Steps
        BY <3>6 DEF StepSpecs
      <4>4. \A d \in Definition[w][x].dependsOn : done'[r][d].status = "ok"
        BY <4>2, <4>3, <3>2, <3>3
      <4>5. "running" \notin Failed
        BY DEF Failed
      <4>6. Definition[w][x].fallbackFor # {} =>
              \E f \in Definition[w][x].fallbackFor : done'[r][f].status \in Failed
        BY <4>2, <4>3, <4>5, <3>2, <3>3
      <4>7. QED
        BY <4>2, <4>4, <4>6
    <3>8. DueIn(request'[r].workflow, request'[r].mode, done'[r])
      BY <3>7, <2>5 DEF DueIn, w, m
    <3>9. QED
      BY <3>2, <3>8, <1>1, <2>5
  <2> HIDE DEF Good
  <2>6. QED
    BY <2>1, <2>2, <2>3, <2>4, <2>5, ResultWriters
<1>3. ASSUME NEW b \in Bundles, execution'[b] # None
      PROVE  DueIn(execution'[b].workflow, execution'[b].mode, execution'[b].steps)
  <2>1. CASE execution[b] # None /\ execution'[b] = execution[b]
    BY <2>1 DEF PerformedOnlyWhenDue
  <2>2. CASE \E r \in Runners : /\ request[r] # None
                                /\ execution'[b].workflow = request[r].workflow
                                /\ execution'[b].mode = request[r].mode
                                /\ execution'[b].steps = done[r]
    BY <1>1, <2>2
  <2>3. QED
    BY <1>3, <2>1, <2>2, RecordedStep
<1>4. QED
  BY <1>2, <1>3 DEF PerformedOnlyWhenDue, DueIn
-----------------------------------------------------------------------------
LEMMA InitInv == Init => IInv
  BY InitType, InitOwned, InitProvenance, InitInOrder, InitAttempted, InitGranted DEF IInv

LEMMA InvStep == IInv /\ [Next]_vars => IInv'
  BY StepType, OwnedStep, ProvenanceStep, InOrderStep, AttemptedStep,
     GrantedStep, DueStep DEF IInv

(* The inductive invariant holds throughout every behaviour.               *)
THEOREM Invariance == Spec => []IInv
  BY InitInv, InvStep, PTL DEF Spec

(* No command of a step that needed approval is performed, by any number   *)
(* of runs sharing any number of bundles, unless that step was granted.    *)
THEOREM NoUngrantedCommand == Spec => []PerformedNeedsGrant
<1>1. IInv => PerformedNeedsGrant
  BY DEF IInv
<1>2. QED
  BY <1>1, Invariance, PTL

(* Commands follow the dependency and fallback gates of their workflow.    *)
THEOREM CommandsWhenDue == Spec => []PerformedOnlyWhenDue
<1>1. IInv => PerformedOnlyWhenDue
  BY DEF IInv
<1>2. QED
  BY <1>1, Invariance, PTL

(* Every approval record, wherever it was copied, goes back to a grant,    *)
(* and every grant to a recorded result that asked for it.                 *)
THEOREM RecordsFromGrants == Spec => []Provenance
<1>1. IInv => Provenance
  BY DEF IInv
<1>2. QED
  BY <1>1, Invariance, PTL

(* No step changes the results of a recorded bundle or drops a record of   *)
(* it, and the ownership of bundles is what keeps runs apart.              *)
THEOREM EvidencePreserved == Spec => EvidenceKept
<1>1. IInv /\ [Next]_vars => [\A b \in Bundles : execution[b] # None =>
         execution'[b] = execution[b] /\ approvals[b] \subseteq approvals'[b]]_vars
  BY KeptStep DEF IInv
<1>2. QED
  BY <1>1, Invariance, PTL DEF Spec, EvidenceKept
-----------------------------------------------------------------------------
(* The runtime implements the abstract approval gate.                      *)

(* The abstract view of the two functions the mapping builds.              *)
AbsRule == [g \in Gates |-> Rule(g)]
AbsAdmitted == [r \in Runners |-> IF pc[r] \in {"secrets", "command", "held"}
                                  THEN GateOf(r, step[r]) ELSE None]

LEMMA RuleType == AbsRule \in [Gates -> Gate!Rules]
  BY DEF AbsRule, Rule, Gate!Rules

LEMMA GateInit == Init => Gate!Init
<1> SUFFICES ASSUME Init PROVE Gate!Init
  OBVIOUS
<1>1. Asked = {}
  BY DEF Init, Asked
<1>2. QED
  BY <1>1, RuleType DEF Init, Gate!Init, AbsRule, AbsAdmitted

(* A step of the runtime that leaves rules, requests and grants alone and  *)
(* moves at most one run in or out of the two labels of a command.         *)
LEMMA AdmittedSame ==
  ASSUME TypeOK, NEW r \in Runners,
         \A x \in Runners : x # r => UNCHANGED <<pc[x], request[x], step[x]>>,
         pc[r] \notin {"secrets", "command", "held"}, pc'[r] \notin {"secrets", "command", "held"}
  PROVE  AbsAdmitted' = AbsAdmitted
  BY DEF AbsAdmitted, GateOf

LEMMA AdmittedLeaves ==
  ASSUME TypeOK, NEW r \in Runners,
         \A x \in Runners : x # r => UNCHANGED <<pc[x], request[x], step[x]>>,
         pc'[r] \notin {"secrets", "command", "held"}
  PROVE  AbsAdmitted' = [AbsAdmitted EXCEPT ![r] = None]
  BY DEF AbsAdmitted, GateOf

(* How the abstract variables change in a step of one run.                 *)
LEMMA GateRunner ==
  ASSUME TypeOK, TypeOK', Provenance, NEW r \in Runners, Runner(r),
         UNCHANGED <<policy, granted>>
  PROVE  \/ AbsAdmitted' = AbsAdmitted
         \/ UNCHANGED execution /\ AbsAdmitted' = [AbsAdmitted EXCEPT ![r] = None]
         \/ \E g \in Gates : /\ UNCHANGED execution
                             /\ AbsAdmitted[r] = None
                             /\ AbsAdmitted' = [AbsAdmitted EXCEPT ![r] = g]
                             /\ \/ AbsRule[g] = "allow"
                                \/ AbsRule[g] = "require_approval" /\ g \in granted
<1> DEFINE Concl == \/ AbsAdmitted' = AbsAdmitted
                    \/ UNCHANGED execution /\ AbsAdmitted' = [AbsAdmitted EXCEPT ![r] = None]
<1>1. ASSUME NEW q \in Requests, StartRun(r, q) PROVE Concl
  BY <1>1, AdmittedSame DEF StartRun, Goto, TypeOK
<1>2. ASSUME LoadApprovals(r) \/ CreateBundle(r) \/ UnlinkLatest(r) \/ LinkLatest(r)
             \/ FinishSteps(r) \/ WriteApprovals(r)
      PROVE  Concl
  <2>1. PICK p \in Pcs \ {"secrets", "command", "held"} : Goto(r, p)
    BY <1>2 DEF LoadApprovals, CreateBundle, UnlinkLatest, LinkLatest,
       FinishSteps, WriteApprovals, Pcs
  <2>2. UNCHANGED <<request, step>> /\ pc[r] \notin {"secrets", "command", "held"}
    BY <1>2 DEF LoadApprovals, CreateBundle, UnlinkLatest, LinkLatest,
       FinishSteps, WriteApprovals
  <2>3. QED
    BY <2>1, <2>2, AdmittedSame DEF Goto, TypeOK
<1>3. ASSUME CreateFails(r) \/ Crash(r) PROVE Concl
  BY <1>3, AdmittedLeaves DEF CreateFails, Crash, Forget, Goto, TypeOK, storeVars
<1>4. ASSUME WriteExecution(r) PROVE Concl
  BY <1>4, AdmittedSame DEF WriteExecution, Forget, Goto, TypeOK
<1>5. ASSUME NEW s \in Steps, NEW v \in Statuses, GateStep(r, s, v) PROVE Concl
  BY <1>5, AdmittedSame DEF GateStep
<1>6. ASSUME NEW st \in Statuses, NEW d \in BOOLEAN, EndStep(r, st, d),
             UNCHANGED <<execution, request>>
      PROVE  Concl
  BY <1>6, AdmittedLeaves DEF EndStep, Goto, TypeOK
<1>7. ASSUME ResolveSecrets(r) PROVE Concl
  <2>1. UNCHANGED <<execution, request>> /\ pc[r] = "secrets"
    BY <1>7 DEF ResolveSecrets, storeVars
  <2>2. CASE EndStep(r, "secret_env_failed", FALSE)
    BY <1>6, <2>1, <2>2 DEF Statuses
  <2>3. CASE Goto(r, "command") /\ UNCHANGED <<done, step, attempt>>
    BY <2>1, <2>3 DEF Goto, TypeOK, AbsAdmitted, GateOf
  <2>4. QED
    BY <1>7, <2>2, <2>3 DEF ResolveSecrets
<1>8. ASSUME NEW o \in Outcomes, RunAttempt(r, o) PROVE Concl
  <2>1. UNCHANGED <<execution, request>>
    BY <1>8 DEF RunAttempt, storeVars
  <2>5. pc[r] = "command"
    BY <1>8 DEF RunAttempt
  <2>2. CASE o # "held" /\ o \in Failures /\ Repeats(r, o)
    BY <1>8, <2>1, <2>2 DEF RunAttempt, AbsAdmitted, GateOf
  <2>6. CASE o = "held"
    <3>1. Goto(r, "held") /\ UNCHANGED <<done, step, attempt>>
      BY <1>8, <2>6 DEF RunAttempt
    <3>2. QED
      BY <2>1, <2>5, <3>1 DEF Goto, TypeOK, AbsAdmitted, GateOf
  <2>3. CASE o # "held" /\ ~(o \in Failures /\ Repeats(r, o))
    <3>1. PICK st \in Statuses, d \in BOOLEAN : EndStep(r, st, d)
      BY <1>8, <2>3 DEF RunAttempt, Statuses
    <3>2. QED
      BY <3>1, <1>6, <2>1
  <2>4. QED
    BY <2>2, <2>3, <2>6
<1>9. ASSUME NEW s \in Steps, RunStep(r, s), Verdict(r, s) # "running" PROVE Concl
  BY <1>9, AdmittedSame DEF RunStep
<1>10. ASSUME NEW s \in Steps, RunStep(r, s), Verdict(r, s) = "running"
       PROVE  \E g \in Gates : /\ UNCHANGED execution
                               /\ AbsAdmitted[r] = None
                               /\ AbsAdmitted' = [AbsAdmitted EXCEPT ![r] = g]
                               /\ \/ AbsRule[g] = "allow"
                                  \/ AbsRule[g] = "require_approval" /\ g \in granted
  <2> DEFINE g == GateOf(r, s)
  <2>1. UNCHANGED <<execution, request>> /\ pc[r] = "steps"
    BY <1>10 DEF RunStep, storeVars
  <2>2. request[r] \in AllRequests
    BY <2>1, WorkflowAssumption DEF TypeOK
  <2>3. g \in Gates
    BY <2>2 DEF GateOf, Gates, AllRequests
  <2>4. PICK p \in {"secrets", "command"} : pc' = [pc EXCEPT ![r] = p]
    BY <1>10 DEF RunStep, Goto
  <2>5. step' = [step EXCEPT ![r] = s]
    BY <1>10 DEF RunStep
  <2>6. AbsAdmitted[r] = None /\ AbsAdmitted' = [AbsAdmitted EXCEPT ![r] = g]
    <3>1. AbsAdmitted[r] = None
      BY <2>1 DEF AbsAdmitted
    <3>2. pc'[r] \in {"secrets", "command", "held"} /\ step'[r] = s
      BY <2>4, <2>5 DEF TypeOK
    <3>3. AbsAdmitted'[r] = g
      BY <2>1, <3>2 DEF AbsAdmitted, GateOf
    <3>4. ASSUME NEW x \in Runners, x # r PROVE AbsAdmitted'[x] = AbsAdmitted[x]
      BY <2>1, <2>4, <2>5, <3>4 DEF AbsAdmitted, GateOf, TypeOK
    <3>5. QED
      BY <3>1, <3>3, <3>4 DEF AbsAdmitted
  <2>7. policy[g] # "deny" /\ (Required(g) => g \in granted)
    <3>1. policy[g] # "deny" /\ (Required(g) => s \in ApprovalMap(r))
      BY <1>10 DEF Verdict, StepVerdict, GateOf
    <3>2. QED
      BY <3>1, MapIsLoaded DEF Provenance
  <2>8. AbsRule[g] = Rule(g)
    BY <2>3 DEF AbsRule
  <2>9. AbsRule[g] = "allow" \/ (AbsRule[g] = "require_approval" /\ g \in granted)
    BY <2>7, <2>8 DEF Rule
  <2>10. QED
    BY <2>1, <2>3, <2>6, <2>9
<1> HIDE DEF Concl
<1>11. QED
  <2>1. Concl \/ \E s \in Steps : RunStep(r, s) /\ Verdict(r, s) = "running"
    BY <1>1, <1>2, <1>3, <1>4, <1>5, <1>7, <1>8, <1>9 DEF Runner, RunnerStep
  <2>2. QED
    BY <2>1, <1>10 DEF Concl

LEMMA GateStepMaps == IInv /\ IInv' /\ [Next]_vars => [Gate!Next]_Gate!gateVars
<1> SUFFICES ASSUME IInv, IInv', [Next]_vars PROVE [Gate!Next]_Gate!gateVars
  OBVIOUS
<1> USE DEF IInv
<1>1. ASSUME UNCHANGED policy PROVE AbsRule' = AbsRule
  BY <1>1 DEF AbsRule, Rule, Required
<1>2. UNCHANGED execution => Asked' = Asked
  BY DEF Asked
<1>3. Asked \subseteq Asked' /\ Asked' \in SUBSET Gates
  BY AskedGrows DEF Asked
<1>4. ASSUME NEW r \in Runners, Runner(r) PROVE [Gate!Next]_Gate!gateVars
  <2>1. UNCHANGED <<policy, granted>>
    BY <1>4 DEF Runner, RunnerStep, StartRun, LoadApprovals, CreateBundle, CreateFails,
       UnlinkLatest, LinkLatest, RunStep, GateStep, ResolveSecrets, RunAttempt, FinishSteps,
       WriteApprovals, WriteExecution, Crash, envVars
  <2>2. AbsRule' = AbsRule
    BY <2>1, <1>1
  <2>3. CASE AbsAdmitted' = AbsAdmitted
    <3>1. Gate!Ask
      BY <2>1, <2>2, <2>3, <1>3 DEF Gate!Ask, AbsRule, AbsAdmitted
    <3>2. QED
      BY <3>1 DEF Gate!Next
  <2>4. CASE UNCHANGED execution /\ AbsAdmitted' = [AbsAdmitted EXCEPT ![r] = None]
    <3>1. Gate!Leave(r)
      BY <2>1, <2>2, <2>4, <1>2 DEF Gate!Leave, AbsRule, AbsAdmitted
    <3>2. QED
      BY <3>1 DEF Gate!Next
  <2>5. ASSUME NEW g \in Gates, UNCHANGED execution, AbsAdmitted[r] = None,
               AbsAdmitted' = [AbsAdmitted EXCEPT ![r] = g],
               AbsRule[g] = "allow" \/ (AbsRule[g] = "require_approval" /\ g \in granted)
        PROVE  [Gate!Next]_Gate!gateVars
    <3>1. Gate!Admit(r, g)
      BY <2>1, <2>2, <2>5, <1>2 DEF Gate!Admit, Gate!Admissible, AbsRule, AbsAdmitted
    <3>2. QED
      BY <3>1 DEF Gate!Next
  <2>6. QED
    BY <1>4, <2>1, <2>3, <2>4, <2>5, GateRunner
<1>5. ASSUME NEW a \in Approvers, Approver(a) PROVE [Gate!Next]_Gate!gateVars
  <2>1. UNCHANGED <<policy, execution, pc, request, step>>
    BY <1>5 DEF Approver, GrantResolve, GrantLoad, GrantAppend, GrantFail, storeVars, envVars,
       runVars
  <2>2. AbsRule' = AbsRule /\ AbsAdmitted' = AbsAdmitted /\ Asked' = Asked
    BY <2>1, <1>1, <1>2 DEF AbsAdmitted, GateOf
  <2>3. CASE UNCHANGED granted
    BY <2>2, <2>3 DEF Gate!gateVars, AbsRule, AbsAdmitted
  <2>4. CASE GrantAppend(a)
    <3>1. record[a] \in Asked /\ record[a] \in Gates
      BY <2>4 DEF GrantAppend, Provenance, Asked
    <3>2. Gate!Grant(record[a])
      BY <2>2, <2>4, <3>1 DEF GrantAppend, Gate!Grant, AbsRule, AbsAdmitted
    <3>3. QED
      BY <3>1, <3>2 DEF Gate!Next
  <2>5. QED
    BY <1>5, <2>3, <2>4 DEF Approver, GrantResolve, GrantLoad, GrantFail
<1>6. ASSUME NEW p \in Policies, EditPolicy(p) PROVE [Gate!Next]_Gate!gateVars
  <2>1. UNCHANGED <<execution, granted, pc, request, step>>
    BY <1>6 DEF EditPolicy, storeVars, runVars
  <2>2. AbsAdmitted' = AbsAdmitted /\ Asked' = Asked
    BY <2>1, <1>2 DEF AbsAdmitted, GateOf
  <2>3. AbsRule' \in [Gates -> Gate!Rules]
    BY DEF AbsRule, Rule, Gate!Rules
  <2>4. Gate!ChangeRules
    BY <2>1, <2>2, <2>3 DEF Gate!ChangeRules, AbsRule, AbsAdmitted
  <2>5. QED
    BY <2>4 DEF Gate!Next
<1>7. ASSUME UNCHANGED <<policy, execution, granted, pc, request, step>>
      PROVE  [Gate!Next]_Gate!gateVars
  <2>1. AbsRule' = AbsRule /\ AbsAdmitted' = AbsAdmitted /\ Asked' = Asked
    BY <1>7, <1>1, <1>2 DEF AbsAdmitted, GateOf
  <2>2. QED
    BY <1>7, <2>1 DEF Gate!gateVars, AbsRule, AbsAdmitted
<1>8. ASSUME NEW v \in Vaults, ChangeVault(v) PROVE [Gate!Next]_Gate!gateVars
  BY <1>8, <1>7 DEF ChangeVault, storeVars, runVars
<1>9. CASE UNCHANGED vars
  BY <1>9, <1>7 DEF vars, storeVars, envVars, runVars
<1>10. QED
  BY <1>4, <1>5, <1>6, <1>8, <1>9 DEF Next

(* The runtime, with its bundles, link and crashes, implements the         *)
(* abstract approval gate.                                                 *)
THEOREM GateImplemented == Spec => ImplementsGate
  BY GateInit, GateStepMaps, Invariance, PTL DEF Spec, ImplementsGate, Gate!Spec
=============================================================================
