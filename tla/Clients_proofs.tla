---------------------------- MODULE Clients_proofs ----------------------------
(***************************************************************************)
(* Theorems of HealChain, ReconcileChain and MissionStore, which clients   *)
(* of the MCP server share.                                                *)
(***************************************************************************)
EXTENDS HealChain, ReconcileChain, MissionStore, FiniteSetTheorems, WellFoundedInduction, TLAPS

(* Numbers *)

(* A finite set of numbers that is not empty has a least one: of the sets  *)
(* of those below each of them one is minimal.                             *)
LEMMA Least ==
  ASSUME NEW S, S \subseteq Nat, IsFiniteSet(S), S # {}
  PROVE  LET c == CHOOSE x \in S : \A y \in S : x <= y
         IN  c \in S /\ \A y \in S : c <= y
<1> DEFINE Below(x) == {y \in S : y < x}
           Belows == {Below(x) : x \in S}
<1>1. \A x \in S : Below(x) \in FiniteSubsetsOf(S)
  <2>1. \A x \in S : Below(x) \subseteq S
    OBVIOUS
  <2>2. \A x \in S : IsFiniteSet(Below(x))
    BY <2>1, FS_Subset
  <2>3. QED
    BY <2>1, <2>2 DEF FiniteSubsetsOf
<1>2. Belows \subseteq FiniteSubsetsOf(S) /\ Belows # {}
  BY <1>1
<1>3. PICK B \in Belows : \A C \in Belows : ~(<<C, B>> \in StrictSubsetOrdering(S))
  <2> HIDE DEF Belows
  <2>1. QED
    BY <1>2, FS_StrictSubsetOrderingWellFounded, WFMin, Zenon
<1>4. PICK x \in S : B = Below(x)
  OBVIOUS
<1>5. \A y \in S : ~(y < x)
  <2>1. SUFFICES ASSUME NEW y \in S, y < x PROVE FALSE
    OBVIOUS
  <2>2. Below(y) \subseteq Below(x) /\ y \in Below(x) /\ y \notin Below(y)
    <3>1. \A z \in S : z < y => z < x
      BY <2>1, x \in Nat, y \in Nat, S \subseteq Nat
    <3>2. ~(y < y)
      BY y \in Nat
    <3>3. QED
      BY <2>1, <3>1, <3>2
  <2>3. <<Below(y), Below(x)>> \in StrictSubsetOrdering(S)
    BY <2>2 DEF StrictSubsetOrdering
  <2>4. QED
    BY <2>3, <1>3, <1>4
<1>6. \A y \in S : x <= y
  BY <1>5
<1>7. QED
  BY <1>6
(* And a greatest. *)
LEMMA Greatest ==
  ASSUME NEW S, S \subseteq Nat, IsFiniteSet(S), S # {}
  PROVE  Highest(S) \in S /\ \A y \in S : y <= Highest(S)
<1> DEFINE Above(x) == {y \in S : x < y}
           Aboves == {Above(x) : x \in S}
<1>1. \A x \in S : Above(x) \in FiniteSubsetsOf(S)
  <2>1. \A x \in S : Above(x) \subseteq S
    OBVIOUS
  <2>2. \A x \in S : IsFiniteSet(Above(x))
    BY <2>1, FS_Subset
  <2>3. QED
    BY <2>1, <2>2 DEF FiniteSubsetsOf
<1>2. Aboves \subseteq FiniteSubsetsOf(S) /\ Aboves # {}
  BY <1>1
<1>3. PICK B \in Aboves : \A C \in Aboves : ~(<<C, B>> \in StrictSubsetOrdering(S))
  <2> HIDE DEF Aboves
  <2>1. QED
    BY <1>2, FS_StrictSubsetOrderingWellFounded, WFMin, Zenon
<1>4. PICK x \in S : B = Above(x)
  OBVIOUS
<1>5. \A y \in S : ~(x < y)
  <2>1. SUFFICES ASSUME NEW y \in S, x < y PROVE FALSE
    OBVIOUS
  <2>2. Above(y) \subseteq Above(x) /\ y \in Above(x) /\ y \notin Above(y)
    <3>1. \A z \in S : y < z => x < z
      BY <2>1, x \in Nat, y \in Nat, S \subseteq Nat
    <3>2. ~(y < y)
      BY y \in Nat
    <3>3. QED
      BY <2>1, <3>1, <3>2
  <2>3. <<Above(y), Above(x)>> \in StrictSubsetOrdering(S)
    BY <2>2 DEF StrictSubsetOrdering
  <2>4. QED
    BY <2>3, <1>3, <1>4
<1>6. \A y \in S : y <= x
  BY <1>5
<1>7. QED
  BY <1>6 DEF Highest

-----------------------------------------------------------------------------
(* The self-heal chain rests, as the reconcile chain does, on provenance:  *)
(* since evidence is never changed, every record that is there was made by *)
(* one of the calls, of a record that still is there, so that what a       *)
(* record shows can be followed back to the first of its chain.            *)

LEMMA StoredStep ==
  ASSUME NEW record, Store(record), NEW kind
  PROVE  /\ Stored(kind) \subseteq Stored(kind)'
         /\ evidence' = evidence \union {record}
  BY DEF Store, Stored

(* What an executor did: at most one container failed, the last it tried.  *)
Orderly(restarted, failed) ==
  /\ \A f, g \in failed : f = g
  /\ \A c \in restarted, f \in failed : c < f

(* An execution of which more is not known only if it did not complete.    *)
Executed(g, by, status, restarted, failed) ==
  /\ Orderly(restarted, failed)
  /\ status = "completed" => g.ready /\ failed = {} /\ restarted = g.of.steps

(* A record was made by the call for its kind, of a record that is there. *)
Healed(x) ==
  /\ x.kind \in HealKinds
  /\ x.kind = "autoheal-plan" => x \in HealPlans
  /\ x.kind = "container-apply-plan" =>
       \E p \in Stored("autoheal-plan"), by \in Approvals : x = ApplyPlan(p, by)
  /\ x.kind = "container-verification-plan" =>
       \E a \in Stored("container-apply-plan") : x = VerificationPlan(a)
  /\ x.kind = "container-runbook" =>
       \E v \in Stored("container-verification-plan") : x = Runbook(v)
  /\ x.kind = "container-runbook-check" =>
       \E b \in Stored("container-runbook") : x = RunbookCheck(b)
  /\ x.kind = "container-rollback-plan" =>
       \E c \in Stored("container-runbook-check") : x = RollbackPlan(c)
  /\ x.kind = "container-completion-plan" =>
       \E k \in Stored("container-rollback-plan") : x = CompletionPlan(k)
  /\ x.kind = "container-readiness-summary" =>
       \E c \in Stored("container-completion-plan") : x = ReadinessSummary(c)
  /\ x.kind = "container-executor-gate" =>
       \E s \in Stored("container-readiness-summary"), by \in Approvals,
          dryRun, execute \in BOOLEAN : x = ExecutorGate(s, by, dryRun, execute)
  /\ x.kind = "container-executor" =>
       \E g \in Stored("container-executor-gate"), by \in Approvals,
          status \in {"blocked", "ready", "completed", "failed"},
          restarted, failed \in SUBSET Containers :
         /\ x = Execution(g, by, status, restarted, failed)
         /\ Executed(g, by, status, restarted, failed)
  /\ x.kind = "container-executor-verification" =>
       \E y \in Stored("container-executor"), agents, logscans \in Nat :
         x = Closeout(y, agents, logscans)

HealProvenance == \A x \in evidence : Healed(x)

(* A run that is under way passed a gate that is there, has the steps of   *)
(* it behind or before it, and goes through them in their order.           *)
Underway(run) ==
  /\ run.gate \in Stored("container-executor-gate")
  /\ run.gate.ready /\ run.by = run.gate.by
  /\ run.todo \union run.restarted \union run.failed = run.gate.of.steps
  /\ Orderly(run.restarted, run.failed)
  /\ \A c \in run.restarted, t \in run.todo : c < t

HealInv ==
  /\ HealProvenance
  /\ live \in [Executors -> LiveRuns \union {None}]
  /\ \A e \in Executors : live[e] # None => Underway(live[e])

(* What is ready shows the steps of what it was made of, which was ready.  *)
LEMMA StageSound ==
  ASSUME NEW kind, NEW x
  PROVE  LET s == Stage(kind, x)
         IN  /\ s.kind = kind /\ s.of = x
             /\ s.ready \in BOOLEAN
             /\ s.steps = {} \/ s.steps = x.steps
             /\ s.ready => x.ready /\ s.steps = x.steps /\ s.steps # {}
  BY DEF Stage

LEMMA StageType ==
  ASSUME NEW kind, NEW parents, NEW x \in parents, x.steps \subseteq Containers
  PROVE  /\ Stage(kind, x) \in Of(kind, parents)
         /\ Stage(kind, x).steps \subseteq Containers
  BY StageSound DEF Stage, Of

(* The records of each kind, and their steps, are of the types they have   *)
(* in HealChain.                                                           *)
LEMMA HealTypes ==
  ASSUME HealProvenance
  PROVE  /\ Stored("autoheal-plan") \subseteq HealPlans
         /\ Stored("container-apply-plan") \subseteq ApplyPlans
         /\ Stored("container-verification-plan") \subseteq VerificationPlans
         /\ Stored("container-runbook") \subseteq Runbooks
         /\ Stored("container-runbook-check") \subseteq RunbookChecks
         /\ Stored("container-rollback-plan") \subseteq RollbackPlans
         /\ Stored("container-completion-plan") \subseteq CompletionPlans
         /\ Stored("container-readiness-summary") \subseteq Summaries
         /\ Stored("container-executor-gate") \subseteq Gates
         /\ Stored("container-executor") \subseteq Executions
         /\ Stored("container-executor-verification") \subseteq Closeouts
<1>0. \A kind : \A x \in Stored(kind) : x.kind = kind /\ Healed(x)
  BY DEF Stored, HealProvenance
<1>1. Stored("autoheal-plan") \subseteq HealPlans
  BY <1>0 DEF Healed
<1>2. Stored("container-apply-plan") \subseteq ApplyPlans
  <2>1. \A p \in HealPlans, by \in Approvals : ApplyPlan(p, by) \in ApplyPlans
    <3>1. \A p \in HealPlans : p.gated \subseteq Containers
      BY DEF HealPlans
    <3>2. QED
      BY <3>1 DEF ApplyPlans, ApplyPlan
  <2>2. QED
    BY <2>1, <1>0, <1>1 DEF Healed
<1>3. Stored("container-verification-plan") \subseteq VerificationPlans
  <2>1. \A x \in ApplyPlans : x.steps \subseteq Containers
    BY DEF ApplyPlans
  <2>2. QED
    BY <2>1, <1>0, <1>2, StageType DEF Healed, VerificationPlan, VerificationPlans
<1>4. Stored("container-runbook") \subseteq Runbooks
  <2>1. \A x \in VerificationPlans : x.steps \subseteq Containers
    BY DEF VerificationPlans, Of
  <2>2. QED
    BY <2>1, <1>0, <1>3, StageType DEF Healed, Runbook, Runbooks
<1>5. Stored("container-runbook-check") \subseteq RunbookChecks
  <2>1. \A x \in Runbooks : x.steps \subseteq Containers
    BY DEF Runbooks, Of
  <2>2. QED
    BY <2>1, <1>0, <1>4, StageType DEF Healed, RunbookCheck, RunbookChecks
<1>6. Stored("container-rollback-plan") \subseteq RollbackPlans
  <2>1. \A x \in RunbookChecks : x.steps \subseteq Containers
    BY DEF RunbookChecks, Of
  <2>2. QED
    BY <2>1, <1>0, <1>5, StageType DEF Healed, RollbackPlan, RollbackPlans
<1>7. Stored("container-completion-plan") \subseteq CompletionPlans
  <2>1. \A x \in RollbackPlans : x.steps \subseteq Containers
    BY DEF RollbackPlans, Of
  <2>2. QED
    BY <2>1, <1>0, <1>6, StageType DEF Healed, CompletionPlan, CompletionPlans
<1>8. Stored("container-readiness-summary") \subseteq Summaries
  <2>1. \A x \in CompletionPlans : x.steps \subseteq Containers
    BY DEF CompletionPlans, Of
  <2>2. QED
    BY <2>1, <1>0, <1>7, StageType DEF Healed, ReadinessSummary, Summaries
<1>9. Stored("container-executor-gate") \subseteq Gates
  <2>1. \A s \in Summaries : s.ready \in BOOLEAN
    BY DEF Summaries, Of
  <2>2. \A s \in Summaries, by \in Approvals, dryRun, execute \in BOOLEAN :
          ExecutorGate(s, by, dryRun, execute) \in Gates
    BY <2>1 DEF ExecutorGate, Gates
  <2>3. QED
    BY <2>2, <1>0, <1>8 DEF Healed
<1>10. Stored("container-executor") \subseteq Executions
  BY <1>0, <1>9 DEF Healed, Execution, Executions
<1>11. Stored("container-executor-verification") \subseteq Closeouts
  <2>1. \A x \in Executions, agents, logscans \in Nat : Closeout(x, agents, logscans) \in Closeouts
    BY DEF Executions, Closeout, Closeouts
  <2>2. QED
    BY <2>1, <1>0, <1>10 DEF Healed
<1>12. QED
  BY <1>1, <1>2, <1>3, <1>4, <1>5, <1>6, <1>7, <1>8, <1>9, <1>10, <1>11

(* Behind a gate that is ready there is an apply plan that was approved,   *)
(* and its steps are all that the autoheal plan of it proposed, each under *)
(* a rule that asks for approval.                                          *)
LEMMA GateSanctioned ==
  ASSUME HealProvenance, NEW g \in Stored("container-executor-gate"), g.ready
  PROVE  LET a == ApplyPlanOf(g)
         IN  /\ a.by # None /\ g.by # None
             /\ a.of.gated = a.of.restarts
             /\ g.of.steps = a.of.restarts /\ g.of.steps # {}
<1>0. \A kind : \A x \in Stored(kind) : x.kind = kind /\ Healed(x)
  BY DEF Stored, HealProvenance
<1>1. PICK s \in Stored("container-readiness-summary") : g.of = s /\ s.ready /\ g.by # None
  <2>1. PICK s \in Stored("container-readiness-summary"), by \in Approvals,
             dryRun, execute \in BOOLEAN : g = ExecutorGate(s, by, dryRun, execute)
    BY <1>0 DEF Healed
  <2>2. QED
    BY <2>1 DEF ExecutorGate
<1> DEFINE Follows(x, y) == x.of = y /\ y.ready /\ x.steps = y.steps /\ x.steps # {}
<1>2. PICK c \in Stored("container-completion-plan") : Follows(s, c)
  BY <1>0, <1>1, StageSound DEF Healed, ReadinessSummary
<1>3. PICK r \in Stored("container-rollback-plan") : Follows(c, r)
  BY <1>0, <1>2, StageSound DEF Healed, CompletionPlan
<1>4. PICK k \in Stored("container-runbook-check") : Follows(r, k)
  BY <1>0, <1>3, StageSound DEF Healed, RollbackPlan
<1>5. PICK b \in Stored("container-runbook") : Follows(k, b)
  BY <1>0, <1>4, StageSound DEF Healed, RunbookCheck
<1>6. PICK v \in Stored("container-verification-plan") : Follows(b, v)
  BY <1>0, <1>5, StageSound DEF Healed, Runbook
<1>7. PICK a \in Stored("container-apply-plan") : Follows(v, a)
  BY <1>0, <1>6, StageSound DEF Healed, VerificationPlan
<1>8. /\ a.by # None
      /\ a.of.gated = a.of.restarts
      /\ a.steps = a.of.restarts
  <2>1. PICK p \in Stored("autoheal-plan"), by \in Approvals : a = ApplyPlan(p, by)
    BY <1>0 DEF Healed
  <2>2. a.ready
    BY <1>7
  <2>3. p.gated = p.restarts /\ by # None
    BY <2>1, <2>2 DEF ApplyPlan
  <2>4. a.of = p /\ a.by = by /\ a.steps = p.gated
    BY <2>1 DEF ApplyPlan
  <2>5. QED
    BY <2>3, <2>4
<1>9. ApplyPlanOf(g) = a
  BY <1>1, <1>2, <1>3, <1>4, <1>5, <1>6, <1>7 DEF ApplyPlanOf
<1>10. QED
  BY <1>1, <1>2, <1>3, <1>4, <1>5, <1>6, <1>7, <1>8, <1>9

LEMMA HealedStays ==
  ASSUME NEW x, Healed(x), \A kind : Stored(kind) \subseteq Stored(kind)'
  PROVE  Healed(x)'
<1> HIDE DEF Stored, ApplyPlan
<1>1. QED
  BY SMTT(60) DEF Healed

(* A call keeps every run, and leaves the new record beside the others. *)
LEMMA HealCall ==
  ASSUME HealInv, NEW record, Store(record), Healed(record)
  PROVE  /\ HealProvenance'
         /\ \A run : Underway(run) => Underway(run)'
<1>1. /\ \A kind : Stored(kind) \subseteq Stored(kind)'
      /\ evidence' = evidence \union {record}
  BY StoredStep
<1>2. HealProvenance'
  BY <1>1, HealedStays DEF HealInv, HealProvenance
<1>3. QED
  BY <1>1, <1>2 DEF Underway

LEMMA OneTried ==
  ASSUME NEW run \in LiveRuns, Underway(run), run.todo # {}, run.failed = {}, NEW ok \in BOOLEAN
  PROVE  Tried(run, ok) \in LiveRuns /\ Underway(Tried(run, ok))
<1> DEFINE c == CHOOSE x \in run.todo : \A y \in run.todo : x <= y
           next == Tried(run, ok)
<1>1. run.todo \subseteq Containers /\ run.restarted \subseteq Containers
  BY DEF LiveRuns
<1>2. c \in run.todo /\ \A y \in run.todo : c <= y
  <2>1. run.todo \subseteq Nat /\ IsFiniteSet(run.todo)
    BY <1>1, HealAssumption, FS_Subset
  <2>2. QED
    BY <2>1, Least
<1>3. next = [run EXCEPT !.todo = run.todo \ {c},
                         !.restarted = IF ok THEN run.restarted \union {c} ELSE run.restarted,
                         !.failed = IF ok THEN run.failed ELSE run.failed \union {c}]
  BY DEF Tried
<1> HIDE DEF c, next
<1>4. next = [gate |-> run.gate, by |-> run.by, todo |-> run.todo \ {c},
                 restarted |-> IF ok THEN run.restarted \union {c} ELSE run.restarted,
                 failed |-> IF ok THEN run.failed ELSE run.failed \union {c}]
  BY <1>3 DEF LiveRuns
<1>5. next \in LiveRuns
  BY <1>1, <1>2, <1>4 DEF LiveRuns
<1>6. next.todo \union next.restarted \union next.failed = next.gate.of.steps
  BY <1>2, <1>4 DEF Underway
<1>7. \A x \in run.restarted : x < c
  BY <1>2 DEF Underway
<1>8. \A t \in next.todo : c < t
  <2>1. \A t \in run.todo : t \in Nat
    BY <1>1, HealAssumption
  <2>2. QED
    BY <2>1, <1>2, <1>4
<1>9. \A x \in next.restarted, t \in next.todo : x < t
  BY <1>4, <1>8 DEF Underway
<1>10. Orderly(next.restarted, next.failed)
  BY <1>4, <1>7 DEF Orderly
<1>11. QED
  BY <1>4, <1>5, <1>6, <1>9, <1>10 DEF Underway, next

(* A call that only makes a record makes it as Healed says. *)
LEMMA CallHealed ==
  ASSUME HealInv, CallAutohealPlan \/ CallApplyPlan \/ CallVerificationPlan \/ CallRunbook
                  \/ CallRunbookCheck \/ CallRollbackPlan \/ CallCompletionPlan
                  \/ CallReadinessSummary \/ CallExecutorGate \/ CallPreview \/ CallCloseout
  PROVE  \E record : Call(record) /\ Healed(record)
<1> USE DEF Healed, HealKinds
<1>1. CASE CallAutohealPlan
  <2>1. \A shown \in SUBSET Containers : \A gated \in SUBSET shown :
          /\ HealPlan(shown, gated) \in HealPlans
          /\ HealPlan(shown, gated).kind = "autoheal-plan"
    BY DEF HealPlan, HealPlans
  <2>2. QED
    BY <1>1, <2>1 DEF CallAutohealPlan
<1>2. CASE CallApplyPlan
  <2>1. \A p, by : ApplyPlan(p, by).kind = "container-apply-plan"
    BY DEF ApplyPlan
  <2>2. QED
    BY <1>2, <2>1 DEF CallApplyPlan
<1>3. CASE CallVerificationPlan
  BY <1>3, StageSound DEF CallVerificationPlan, VerificationPlan
<1>4. CASE CallRunbook
  BY <1>4, StageSound DEF CallRunbook, Runbook
<1>5. CASE CallRunbookCheck
  BY <1>5, StageSound DEF CallRunbookCheck, RunbookCheck
<1>6. CASE CallRollbackPlan
  BY <1>6, StageSound DEF CallRollbackPlan, RollbackPlan
<1>7. CASE CallCompletionPlan
  BY <1>7, StageSound DEF CallCompletionPlan, CompletionPlan
<1>8. CASE CallReadinessSummary
  BY <1>8, StageSound DEF CallReadinessSummary, ReadinessSummary
<1>9. CASE CallExecutorGate
  <2>1. \A s, by, dryRun, execute : ExecutorGate(s, by, dryRun, execute).kind = "container-executor-gate"
    BY DEF ExecutorGate
  <2>2. QED
    BY <1>9, <2>1 DEF CallExecutorGate
<1>10. CASE CallPreview
  <2>1. PICK g \in Stored("container-executor-gate"), by \in Approvals, status \in {"ready", "blocked"} :
          Call(Execution(g, by, status, {}, {}))
    BY <1>10 DEF CallPreview
  <2>2. Executed(g, by, status, {}, {})
    BY DEF Executed, Orderly
  <2>3. Execution(g, by, status, {}, {}).kind = "container-executor"
    BY DEF Execution
  <2>4. Healed(Execution(g, by, status, {}, {}))
    BY <2>2, <2>3
  <2>5. QED
    BY <2>1, <2>4
<1>11. CASE CallCloseout
  <2>1. \A x, agents, logscans : Closeout(x, agents, logscans).kind = "container-executor-verification"
    BY DEF Closeout
  <2>2. 0 .. Cardinality(Containers) \subseteq Nat
    BY FS_CardinalityType, HealAssumption
  <2>3. QED
    BY <1>11, <2>1, <2>2 DEF CallCloseout
<1>12. QED
  BY <1>1, <1>2, <1>3, <1>4, <1>5, <1>6, <1>7, <1>8, <1>9, <1>10, <1>11

LEMMA HealInvariant == HealSpec => []HealInv
<1>1. HealInit => HealInv
  BY DEF HealInit, HealInv, HealProvenance
<1>2. HealInv /\ [HealNext]_healVars => HealInv'
  <2> SUFFICES ASSUME HealInv, [HealNext]_healVars PROVE HealInv'
    OBVIOUS
  <2>1. ASSUME evidence' = evidence
        PROVE  HealProvenance' /\ \A run : Underway(run) => Underway(run)'
    <3>1. \A kind : Stored(kind)' = Stored(kind)
      BY <2>1 DEF Stored
    <3>2. HealProvenance'
      BY <2>1, <3>1, HealedStays DEF HealInv, HealProvenance
    <3>3. QED
      BY <3>1, <3>2 DEF Underway
  <2>2. ASSUME NEW record, Call(record), Healed(record) PROVE HealInv'
    BY <2>2, HealCall DEF Call, HealInv
  <2>3. CASE CallAutohealPlan \/ CallApplyPlan \/ CallVerificationPlan \/ CallRunbook
             \/ CallRunbookCheck \/ CallRollbackPlan \/ CallCompletionPlan
             \/ CallReadinessSummary \/ CallExecutorGate \/ CallPreview \/ CallCloseout
    BY <2>2, <2>3, CallHealed
  <2>4. ASSUME NEW e \in Executors, Begin(e) PROVE HealInv'
    <3>1. PICK g \in Stored("container-executor-gate"), by \in Approvals, phraseOK \in BOOLEAN :
            /\ Admitted(g, by, TRUE, phraseOK)
            /\ live' = [live EXCEPT ![e] = [gate |-> g, by |-> by, todo |-> g.of.steps,
                                            restarted |-> {}, failed |-> {}]]
      BY <2>4 DEF Begin
    <3> DEFINE run == [gate |-> g, by |-> by, todo |-> g.of.steps, restarted |-> {}, failed |-> {}]
    <3>2. run \in LiveRuns
      <4>1. g \in Gates
        BY HealTypes DEF HealInv
      <4>2. g.of.steps \subseteq Containers
        BY <4>1 DEF Gates, Summaries, Of
      <4>3. QED
        BY <4>1, <4>2 DEF LiveRuns
    <3>3. Underway(run)
      BY <3>1 DEF Underway, Admitted, Orderly
    <3> HIDE DEF run
    <3>4. QED
      BY <2>1, <2>4, <3>1, <3>2, <3>3 DEF Begin, HealInv, run
  <2>5. ASSUME NEW e \in Executors, NEW ok \in BOOLEAN, Restart(e, ok) PROVE HealInv'
    <3>1. live[e] \in LiveRuns /\ Underway(live[e])
      BY <2>5 DEF Restart, HealInv
    <3>2. Tried(live[e], ok) \in LiveRuns /\ Underway(Tried(live[e], ok))
      BY <2>5, <3>1, OneTried DEF Restart
    <3>3. QED
      BY <2>1, <2>5, <3>2 DEF Restart, HealInv
  <2>6. ASSUME NEW e \in Executors, Finish(e) PROVE HealInv'
    <3> DEFINE run == live[e]
               status == IF run.failed = {} THEN "completed" ELSE "failed"
               record == Execution(run.gate, run.by, status, run.restarted, run.failed)
    <3>1. run \in LiveRuns /\ Underway(run)
      BY <2>6 DEF Finish, HealInv
    <3>2. Executed(run.gate, run.by, status, run.restarted, run.failed)
      BY <2>6, <3>1 DEF Executed, Underway, Finish
    <3>3. record.kind = "container-executor"
      BY DEF Execution
    <3>4. Healed(record)
      <4>1. run.by \in Approvals /\ run.restarted \in SUBSET Containers /\ run.failed \in SUBSET Containers
        BY <3>1 DEF LiveRuns
      <4>2. run.gate \in Stored("container-executor-gate")
        BY <3>1 DEF Underway
      <4>3. status \in {"blocked", "ready", "completed", "failed"}
        OBVIOUS
      <4> HIDE DEF run, status
      <4>4. QED
        BY <3>2, <3>3, <4>1, <4>2, <4>3 DEF Healed, HealKinds
    <3>5. Store(record) /\ live' = [live EXCEPT ![e] = None]
      BY <2>6 DEF Finish
    <3> HIDE DEF record
    <3>6. QED
      BY <3>4, <3>5, HealCall DEF HealInv
  <2>7. ASSUME NEW e \in Executors, Crash(e) PROVE HealInv'
    BY <2>1, <2>7 DEF Crash, HealInv
  <2>8. CASE UNCHANGED healVars
    BY <2>1, <2>8 DEF healVars, HealInv
  <2>9. QED
    BY <2>3, <2>4, <2>5, <2>6, <2>7, <2>8 DEF HealNext
<1>3. QED
  BY <1>1, <1>2, PTL DEF HealSpec

(* Every record that is there has the type of its kind, with the whole     *)
(* chain that it contains, and no run, under way or recorded, goes on      *)
(* after a container that failed.                                          *)
THEOREM HealTypeCorrect == HealSpec => []HealTypeOK
<1>1. HealInv => HealTypeOK
  <2> SUFFICES ASSUME HealInv PROVE HealTypeOK
    OBVIOUS
  <2>1. \A kind \in HealKinds : Stored(kind) \subseteq Records
    BY HealTypes, Zenon DEF HealInv, HealKinds, Records
  <2>2. \A e \in Executors : live[e] # None => Orderly(live[e].restarted, live[e].failed)
    BY DEF HealInv, Underway
  <2>3. \A x \in Stored("container-executor") : Orderly(x.restarted, x.failed)
    BY DEF HealInv, HealProvenance, Healed, Stored, Execution, Executed
  <2>4. ASSUME NEW run, Orderly(run.restarted, run.failed)
        PROVE  Cardinality(run.failed) <= 1 /\ \A c \in run.restarted, f \in run.failed : c < f
    <3>1. CASE run.failed = {}
      BY <2>4, <3>1, FS_EmptySet DEF Orderly
    <3>2. CASE run.failed # {}
      <4>1. PICK f : run.failed = {f}
        BY <2>4, <3>2 DEF Orderly
      <4>2. Cardinality(run.failed) = 1
        BY <4>1, FS_Singleton
      <4>3. QED
        BY <2>4, <4>2 DEF Orderly
    <3>3. QED
      BY <3>1, <3>2
  <2>5. QED
    BY <2>1, <2>2, <2>3, <2>4 DEF HealTypeOK, HealInv
<1>2. QED
  BY <1>1, HealInvariant, PTL

(* Whatever records are combined and however calls, runs and crashes       *)
(* interleave: what the executor restarts, or is to restart, was proposed  *)
(* under a rule that asks for its approval, as was every other restart of  *)
(* the plan, and approved twice, in the plan and by the one in whose name  *)
(* it runs at the gate.                                                    *)
THEOREM RestartsSanctioned == HealSpec => []RestartSanctioned
<1>1. HealInv => RestartSanctioned
  <2> SUFFICES ASSUME HealInv, NEW e \in Executors, live[e] # None
      PROVE  LET g == live[e].gate
                 a == ApplyPlanOf(g)
             IN  /\ live[e].restarted \union live[e].failed \union live[e].todo \subseteq a.of.gated
                 /\ a.of.gated = a.of.restarts
                 /\ a.by # None
                 /\ live[e].by = g.by /\ g.by # None
    BY DEF RestartSanctioned
  <2>1. Underway(live[e])
    BY DEF HealInv
  <2>2. /\ live[e].gate \in Stored("container-executor-gate") /\ live[e].gate.ready
        /\ live[e].by = live[e].gate.by
        /\ live[e].todo \union live[e].restarted \union live[e].failed = live[e].gate.of.steps
    BY <2>1 DEF Underway
  <2>3. QED
    BY <2>2, GateSanctioned DEF HealInv
<1>2. QED
  BY <1>1, HealInvariant, PTL

(* A closeout that is ready is about one live run that restarted with      *)
(* success every container the approved plan proposed.                     *)
THEOREM CloseoutsTrue == HealSpec => []CloseoutTrue
<1>1. HealInv => CloseoutTrue
  <2> SUFFICES ASSUME HealInv, NEW v \in Stored("container-executor-verification"), v.ready
      PROVE  /\ v.of.failed = {}
             /\ v.of.restarted = ApplyPlanOf(v.of.of).of.restarts
             /\ v.of.restarted # {}
    BY DEF CloseoutTrue
  <2>0. \A kind : \A x \in Stored(kind) : x.kind = kind /\ Healed(x)
    BY DEF Stored, HealInv, HealProvenance
  <2>1. PICK x \in Stored("container-executor"), agents \in Nat, logscans \in Nat :
          v = Closeout(x, agents, logscans)
    BY <2>0 DEF Healed
  <2>2. v.of = x /\ x.status = "completed"
    BY <2>1 DEF Closeout
  <2>3. PICK g \in Stored("container-executor-gate"), by \in Approvals,
             status \in {"blocked", "ready", "completed", "failed"},
             restarted \in SUBSET Containers, failed \in SUBSET Containers :
          /\ x = Execution(g, by, status, restarted, failed)
          /\ Executed(g, by, status, restarted, failed)
    BY <2>0 DEF Healed
  <2>4. x.of = g /\ g.ready /\ x.failed = {} /\ x.restarted = g.of.steps
    BY <2>2, <2>3 DEF Execution, Executed
  <2>5. QED
    BY <2>2, <2>4, GateSanctioned DEF HealInv
<1>2. QED
  BY <1>1, HealInvariant, PTL
-----------------------------------------------------------------------------
(* The reconcile chain *)

(* A record was made by the call for its kind, of a record that is there. *)
Reconciled(x) ==
  /\ x.kind \in ReconcileKinds
  /\ x.kind = "reconcile-approval-request" =>
       \E file \in Files, d \in Desires, a \in Actuals, rule \in Rules :
         x = ApprovalRequest(file, d, a, rule)
  /\ x.kind = "reconcile-apply-gate" =>
       \E q \in Stored("reconcile-approval-request"), file \in Files, by \in Approvals :
         x = ApplyGate(q, file, by)
  /\ x.kind = "reconcile-apply-plan" =>
       \E g \in Stored("reconcile-apply-gate") : x = ReconcileApplyPlan(g)
  /\ x.kind = "reconcile-execution-preview" =>
       \E p \in Stored("reconcile-apply-plan") : x = ExecutionPreview(p)
  /\ x.kind = "reconcile-verification-plan" =>
       \E p \in Stored("reconcile-execution-preview") : x = ReconcileVerificationPlan(p)
  /\ x.kind = "reconcile-runbook" =>
       \E v \in Stored("reconcile-verification-plan") : x = ReconcileRunbook(v)
  /\ x.kind = "reconcile-runbook-check" =>
       \E b \in Stored("reconcile-runbook") : x = ReconcileRunbookCheck(b)
  /\ x.kind = "reconcile-rollback-plan" =>
       \E c \in Stored("reconcile-runbook-check") : x = ReconcileRollbackPlan(c)
  /\ x.kind = "reconcile-completion-plan" =>
       \E k \in Stored("reconcile-rollback-plan") : x = ReconcileCompletionPlan(k)
  /\ x.kind = "reconcile-readiness-summary" =>
       \E c \in Stored("reconcile-completion-plan") : x = ReconcileSummary(c)

ReconcileProvenance == \A x \in evidence : Reconciled(x)

LEMMA ActionType ==
  ASSUME NEW kind \in {"offline", "role", "service", "container", "disk", "memory"},
         NEW does \in {"read_only_diagnosis", "plan_only", "service_check", "container_restart",
                       "container_recreate", "container_pull_redeploy", "disk_investigate",
                       "process_top"},
         NEW approval \in BOOLEAN
  PROVE  /\ Action(kind, does, approval) \in Drifts
         /\ Action(kind, does, approval).kind = kind
         /\ Action(kind, does, approval).approval = approval
  BY DEF Action, Drifts

(* What asks for approval by nature includes all that is done to a container. *)
LEMMA DiffType ==
  ASSUME NEW d, NEW a
  PROVE  /\ Diff(d, a) \subseteq Drifts
         /\ \A x \in Diff(d, a) : x.kind = "container" => x.approval = TRUE
<1> DEFINE Fine(X) == /\ X \subseteq Drifts
                      /\ \A x \in X : x.kind = "container" => x.approval = TRUE
<1>0. ASSUME NEW kind \in {"offline", "role", "service", "container", "disk", "memory"},
             NEW does \in {"read_only_diagnosis", "plan_only", "service_check", "container_restart",
                           "container_recreate", "container_pull_redeploy", "disk_investigate",
                           "process_top"},
             NEW approval \in BOOLEAN,
             kind # "container" \/ approval = TRUE
      PROVE  Fine({Action(kind, does, approval)})
  BY <1>0, ActionType
<1>none. Fine({})
  OBVIOUS
<1> HIDE DEF Fine
<1>1. Fine(ServiceDrift(d.service, a.service))
  <2>1. CASE d.service \in {"running", "active"}
    <3>1. (d.service \in {"running", "active"}) = TRUE
      BY <2>1
    <3>2. \/ ServiceDrift(d.service, a.service) = {}
          \/ ServiceDrift(d.service, a.service) = {Action("service", "service_check", TRUE)}
      BY <3>1 DEF ServiceDrift
    <3>3. QED
      BY <3>2, <1>0, <1>none
  <2>2. CASE d.service \notin {"running", "active"}
    <3>1. (d.service \in {"running", "active"}) = FALSE
      BY <2>2
    <3>2. \/ ServiceDrift(d.service, a.service) = {}
          \/ ServiceDrift(d.service, a.service) = {Action("service", "service_check", FALSE)}
      BY <3>1 DEF ServiceDrift
    <3>3. QED
      BY <3>2, <1>0, <1>none
  <2>3. QED
    BY <2>1, <2>2
<1>2. Fine(ContainerDrift(d.container, a.container))
  <2>1. \/ ContainerDrift(d.container, a.container) = {}
        \/ ContainerDrift(d.container, a.container) = {Action("container", "container_restart", TRUE)}
        \/ ContainerDrift(d.container, a.container) = {Action("container", "container_recreate", TRUE)}
        \/ ContainerDrift(d.container, a.container) = {Action("container", "container_pull_redeploy", TRUE)}
    BY DEF ContainerDrift
  <2>2. QED
    BY <2>1, <1>0, <1>none
<1>3. /\ Fine({Action("offline", "read_only_diagnosis", FALSE)})
      /\ Fine({Action("role", "plan_only", FALSE)})
      /\ Fine({Action("disk", "disk_investigate", FALSE)})
      /\ Fine({Action("memory", "process_top", FALSE)})
  BY <1>0
<1>4. \A X, Y : Fine(X) /\ Fine(Y) => Fine(X \union Y)
  BY DEF Fine
<1>5. Fine(Diff(d, a))
  BY <1>1, <1>2, <1>3, <1>4, <1>none DEF Diff
<1>6. QED
  BY <1>5 DEF Fine

LEMMA MadeSound ==
  ASSUME NEW kind, NEW x, NEW ready \in BOOLEAN, NEW steps
  PROVE  LET m == Made(kind, x, ready, steps)
         IN  /\ m.kind = kind /\ m.of = x
             /\ m.ready = ready
             /\ m.steps = IF ready THEN steps ELSE {}
  BY DEF Made

LEMMA MadeType ==
  ASSUME NEW kind, NEW parents, NEW x \in parents,
         NEW ready \in BOOLEAN, NEW steps \in SUBSET Drifts
  PROVE  Made(kind, x, ready, steps) \in StagesOf(kind, parents)
  BY DEF Made, StagesOf

LEMMA StagesTyped ==
  ASSUME NEW kind, NEW parents, NEW x \in StagesOf(kind, parents)
  PROVE  x.ready \in BOOLEAN /\ x.steps \in SUBSET Drifts
  BY DEF StagesOf

(* The records of the kinds that ReconcileTypeOK is about have the types   *)
(* it gives them, and with them all that they contain.                     *)
LEMMA ReconcileTypes ==
  ASSUME ReconcileProvenance
  PROVE  /\ Stored("reconcile-approval-request") \subseteq ReconcileRequests
         /\ Stored("reconcile-apply-gate") \subseteq ReconcileGates
         /\ Stored("reconcile-runbook-check") \subseteq ReconcileChecks
         /\ Stored("reconcile-readiness-summary") \subseteq ReconcileSummaries
<1>0. \A kind : \A x \in Stored(kind) : x.kind = kind /\ Reconciled(x)
  BY DEF Stored, ReconcileProvenance
<1>1. Stored("reconcile-approval-request") \subseteq ReconcileRequests
  <2>1. \A file \in Files, d \in Desires, a \in Actuals, rule \in Rules :
          ApprovalRequest(file, d, a, rule) \in ReconcileRequests
    BY DiffType, ZenonT(40) DEF ApprovalRequest, ReconcileRequests
  <2>2. QED
    BY <2>1, <1>0 DEF Reconciled
<1>2. Stored("reconcile-apply-gate") \subseteq ReconcileGates
  <2>1. \A q \in ReconcileRequests, file \in Files, by \in Approvals :
          ApplyGate(q, file, by) \in ReconcileGates
    BY DEF ApplyGate, ReconcileGates
  <2>2. QED
    BY <2>1, <1>0, <1>1 DEF Reconciled
<1> DEFINE P3 == StagesOf("reconcile-apply-plan", ReconcileGates)
           P4 == StagesOf("reconcile-execution-preview", P3)
           P5 == StagesOf("reconcile-verification-plan", P4)
           P6 == StagesOf("reconcile-runbook", P5)
           P7 == StagesOf("reconcile-runbook-check", P6)
           P8 == StagesOf("reconcile-rollback-plan", P7)
           P9 == StagesOf("reconcile-completion-plan", P8)
           P10 == StagesOf("reconcile-readiness-summary", P9)
<1>3. Stored("reconcile-apply-plan") \subseteq P3
  <2>1. \A g \in ReconcileGates : g.ready \in BOOLEAN /\ g.of.actions \in SUBSET Drifts
    BY DEF ReconcileGates, ReconcileRequests
  <2>2. QED
    BY <2>1, <1>0, <1>2, MadeType DEF Reconciled, ReconcileApplyPlan
<1> HIDE DEF P3
<1>4. Stored("reconcile-execution-preview") \subseteq P4
  <2>1. \A x \in P3 : x.ready \in BOOLEAN /\ x.steps \in SUBSET Drifts
    BY StagesTyped DEF P3
  <2>2. QED
    BY <2>1, <1>0, <1>3, MadeType DEF Reconciled, ExecutionPreview, Following
<1> HIDE DEF P4
<1>5. Stored("reconcile-verification-plan") \subseteq P5
  <2>1. \A x \in P4 : x.ready \in BOOLEAN /\ x.steps \in SUBSET Drifts
    BY StagesTyped DEF P4
  <2>2. QED
    BY <2>1, <1>0, <1>4, MadeType DEF Reconciled, ReconcileVerificationPlan, Following
<1> HIDE DEF P5
<1>6. Stored("reconcile-runbook") \subseteq P6
  <2>1. \A x \in P5 : x.ready \in BOOLEAN /\ x.steps \in SUBSET Drifts
    BY StagesTyped DEF P5
  <2>2. QED
    BY <2>1, <1>0, <1>5, MadeType DEF Reconciled, ReconcileRunbook, Following
<1> HIDE DEF P6
<1>7. Stored("reconcile-runbook-check") \subseteq P7
  <2>1. \A x \in P6 : x.ready \in BOOLEAN /\ x.steps \in SUBSET Drifts
    BY StagesTyped DEF P6
  <2>2. \A x \in P6 : ReconcileRunbookCheck(x) \in P7
    BY <2>1, MadeType DEF ReconcileRunbookCheck
  <2>3. QED
    BY <2>2, <1>0, <1>6 DEF Reconciled
<1> HIDE DEF P7
<1>8. Stored("reconcile-rollback-plan") \subseteq P8
  <2>1. \A x \in P7 : x.ready \in BOOLEAN /\ x.steps \in SUBSET Drifts
    BY StagesTyped DEF P7
  <2>2. QED
    BY <2>1, <1>0, <1>7, MadeType DEF Reconciled, ReconcileRollbackPlan, Following
<1> HIDE DEF P8
<1>9. Stored("reconcile-completion-plan") \subseteq P9
  <2>1. \A x \in P8 : x.ready \in BOOLEAN /\ x.steps \in SUBSET Drifts
    BY StagesTyped DEF P8
  <2>2. QED
    BY <2>1, <1>0, <1>8, MadeType DEF Reconciled, ReconcileCompletionPlan, Following
<1> HIDE DEF P9
<1>10. Stored("reconcile-readiness-summary") \subseteq P10
  <2>1. \A x \in P9 : x.ready \in BOOLEAN /\ x.steps \in SUBSET Drifts
    BY StagesTyped DEF P9
  <2>2. QED
    BY <2>1, <1>0, <1>9, MadeType DEF Reconciled, ReconcileSummary, Following
<1>11. P7 = ReconcileChecks /\ P10 = ReconcileSummaries
  BY DEF P3, P4, P5, P6, P7, P8, P9, ReconcileChecks, ReconcileSummaries
<1>12. QED
  BY <1>1, <1>2, <1>7, <1>10, <1>11

(* Behind a summary that is ready there is a gate that is, and the steps   *)
(* are the actions of the request that the gate was made of.               *)
LEMMA SummaryFollowed ==
  ASSUME ReconcileProvenance, NEW s \in Stored("reconcile-readiness-summary"), s.ready
  PROVE  /\ GateOf(s) \in Stored("reconcile-apply-gate") /\ GateOf(s).ready
         /\ s.steps = GateOf(s).of.actions /\ s.steps # {}
<1>0. \A kind : \A x \in Stored(kind) : x.kind = kind /\ Reconciled(x)
  BY DEF Stored, ReconcileProvenance
<1> DEFINE Follows(x, y) == x.of = y /\ y.ready /\ x.steps = y.steps
<1>1. \A x, y, kind : x.ready /\ x = Following(kind, y) => Follows(x, y)
  BY DEF Following, Made
<1>2. PICK c \in Stored("reconcile-completion-plan") : Follows(s, c)
  BY <1>0, <1>1 DEF Reconciled, ReconcileSummary
<1>3. PICK r \in Stored("reconcile-rollback-plan") : Follows(c, r)
  BY <1>0, <1>1, <1>2 DEF Reconciled, ReconcileCompletionPlan
<1>4. PICK k \in Stored("reconcile-runbook-check") : Follows(r, k)
  BY <1>0, <1>1, <1>3 DEF Reconciled, ReconcileRollbackPlan
<1>5. PICK b \in Stored("reconcile-runbook") : Follows(k, b) /\ b.steps # {}
  <2>1. PICK b \in Stored("reconcile-runbook") : k = ReconcileRunbookCheck(b)
    BY <1>0, <1>4 DEF Reconciled
  <2>2. k.of = b /\ (b.ready /\ b.steps # {} => k.steps = b.steps)
    BY <2>1 DEF ReconcileRunbookCheck, Made
  <2>3. ~(b.ready /\ b.steps # {}) => ~k.ready
    BY <2>1 DEF ReconcileRunbookCheck, Made
  <2>4. QED
    BY <1>4, <2>2, <2>3
<1>6. PICK v \in Stored("reconcile-verification-plan") : Follows(b, v)
  BY <1>0, <1>1, <1>5 DEF Reconciled, ReconcileRunbook
<1>7. PICK e \in Stored("reconcile-execution-preview") : Follows(v, e)
  BY <1>0, <1>1, <1>6 DEF Reconciled, ReconcileVerificationPlan
<1>8. PICK p \in Stored("reconcile-apply-plan") : Follows(e, p)
  BY <1>0, <1>1, <1>7 DEF Reconciled, ExecutionPreview
<1>9. PICK g \in Stored("reconcile-apply-gate") : p.of = g /\ g.ready /\ p.steps = g.of.actions
  BY <1>0, <1>8 DEF Reconciled, ReconcileApplyPlan, Made
<1>10. GateOf(s) = g
  BY <1>2, <1>3, <1>4, <1>5, <1>6, <1>7, <1>8, <1>9 DEF GateOf
<1>11. QED
  BY <1>2, <1>3, <1>4, <1>5, <1>6, <1>7, <1>8, <1>9, <1>10

LEMMA ReconciledStays ==
  ASSUME NEW x, Reconciled(x), \A kind : Stored(kind) \subseteq Stored(kind)'
  PROVE  Reconciled(x)'
<1> HIDE DEF Stored
<1>1. QED
  BY DEF Reconciled

LEMMA ReconcileMade ==
  ASSUME ReconcileNext
  PROVE  \E record : Store(record) /\ Reconciled(record)
<1> USE DEF Reconciled, ReconcileKinds
<1>0. \A kind, x, ready, steps : Made(kind, x, ready, steps).kind = kind
  BY DEF Made
<1>1. CASE RequestApproval
  <2>1. \A file, d, a, rule : ApprovalRequest(file, d, a, rule).kind = "reconcile-approval-request"
    BY DEF ApprovalRequest
  <2>2. QED
    BY <1>1, <2>1 DEF RequestApproval
<1>2. CASE CallApplyGate
  <2>1. \A q, file, by : ApplyGate(q, file, by).kind = "reconcile-apply-gate"
    BY DEF ApplyGate
  <2>2. QED
    BY <1>2, <2>1 DEF CallApplyGate
<1>3. CASE CallReconcileApplyPlan
  <2>1. \A g : ReconcileApplyPlan(g).kind = "reconcile-apply-plan"
    BY <1>0 DEF ReconcileApplyPlan
  <2>2. QED
    BY <1>3, <2>1 DEF CallReconcileApplyPlan
<1>4. CASE CallExecutionPreview
  <2>1. \A p : ExecutionPreview(p).kind = "reconcile-execution-preview"
    BY <1>0 DEF ExecutionPreview, Following
  <2>2. QED
    BY <1>4, <2>1 DEF CallExecutionPreview
<1>5. CASE CallReconcileVerificationPlan
  <2>1. \A p : ReconcileVerificationPlan(p).kind = "reconcile-verification-plan"
    BY <1>0 DEF ReconcileVerificationPlan, Following
  <2>2. QED
    BY <1>5, <2>1 DEF CallReconcileVerificationPlan
<1>6. CASE CallReconcileRunbook
  <2>1. \A v : ReconcileRunbook(v).kind = "reconcile-runbook"
    BY <1>0 DEF ReconcileRunbook, Following
  <2>2. QED
    BY <1>6, <2>1 DEF CallReconcileRunbook
<1>7. CASE CallReconcileRunbookCheck
  <2>1. \A b : ReconcileRunbookCheck(b).kind = "reconcile-runbook-check"
    BY <1>0 DEF ReconcileRunbookCheck
  <2>2. QED
    BY <1>7, <2>1 DEF CallReconcileRunbookCheck
<1>8. CASE CallReconcileRollbackPlan
  <2>1. \A c : ReconcileRollbackPlan(c).kind = "reconcile-rollback-plan"
    BY <1>0 DEF ReconcileRollbackPlan, Following
  <2>2. QED
    BY <1>8, <2>1 DEF CallReconcileRollbackPlan
<1>9. CASE CallReconcileCompletionPlan
  <2>1. \A k : ReconcileCompletionPlan(k).kind = "reconcile-completion-plan"
    BY <1>0 DEF ReconcileCompletionPlan, Following
  <2>2. QED
    BY <1>9, <2>1 DEF CallReconcileCompletionPlan
<1>10. CASE CallReconcileSummary
  <2>1. \A c : ReconcileSummary(c).kind = "reconcile-readiness-summary"
    BY <1>0 DEF ReconcileSummary, Following
  <2>2. QED
    BY <1>10, <2>1 DEF CallReconcileSummary
<1>11. QED
  BY <1>1, <1>2, <1>3, <1>4, <1>5, <1>6, <1>7, <1>8, <1>9, <1>10 DEF ReconcileNext

LEMMA ReconcileInvariant == ReconcileSpec => []ReconcileProvenance
<1>1. ReconcileInit => ReconcileProvenance
  BY DEF ReconcileInit, ReconcileProvenance
<1>2. ReconcileProvenance /\ [ReconcileNext]_evidence => ReconcileProvenance'
  <2> SUFFICES ASSUME ReconcileProvenance, [ReconcileNext]_evidence PROVE ReconcileProvenance'
    OBVIOUS
  <2>1. CASE ReconcileNext
    <3>1. PICK record : Store(record) /\ Reconciled(record)
      BY <2>1, ReconcileMade
    <3>2. QED
      BY <3>1, StoredStep, ReconciledStays DEF ReconcileProvenance
  <2>2. CASE evidence' = evidence
    <3>1. \A kind : Stored(kind)' = Stored(kind)
      BY <2>2 DEF Stored
    <3>2. QED
      BY <2>2, <3>1, ReconciledStays DEF ReconcileProvenance
  <2>3. QED
    BY <2>1, <2>2
<1>3. QED
  BY <1>1, <1>2, PTL DEF ReconcileSpec

(* The request, gate, runbook check and summary that are there have their  *)
(* types, with the whole chain they contain, and no summary is ready with  *)
(* nothing to do.                                                          *)
THEOREM ReconcileTypeCorrect == ReconcileSpec => []ReconcileTypeOK
<1>1. ReconcileProvenance => ReconcileTypeOK
  BY ReconcileTypes, SummaryFollowed DEF ReconcileTypeOK
<1>2. QED
  BY <1>1, ReconcileInvariant, PTL

(* For every desired state, report and policy: what a summary that is      *)
(* ready leaves out of the drift, policy allows and by its nature needs no *)
(* approval; nothing in it is denied, and someone approved the rest.       *)
THEOREM ReadyCovers == ReconcileSpec => []ReadyCoversDrift
<1>1. ReconcileProvenance => ReadyCoversDrift
  <2> SUFFICES ASSUME ReconcileProvenance, NEW s \in Stored("reconcile-readiness-summary"), s.ready
      PROVE  LET g == GateOf(s)
                 q == g.of
             IN  /\ g.by # None
                 /\ \A x \in Diff(q.desired, q.actual) :
                      /\ q.rule[x.does] # "deny"
                      /\ x \in s.steps \/ (q.rule[x.does] = "allow" /\ ~x.approval)
    BY DEF ReadyCoversDrift
  <2>0. \A kind : \A x \in Stored(kind) : x.kind = kind /\ Reconciled(x)
    BY DEF Stored, ReconcileProvenance
  <2> DEFINE g == GateOf(s)
  <2>1. g \in Stored("reconcile-apply-gate") /\ g.ready /\ s.steps = g.of.actions /\ s.steps # {}
    BY SummaryFollowed
  <2>2. PICK q \in Stored("reconcile-approval-request"), file \in Files, by \in Approvals :
          g = ApplyGate(q, file, by)
    BY <2>0, <2>1 DEF Reconciled
  <2>3. g.of = q /\ g.by = by /\ q.blocked = {} /\ (q.actions # {} => by # None)
    BY <2>1, <2>2 DEF ApplyGate
  <2>4. PICK f \in Files, d \in Desires, a \in Actuals, rule \in Rules :
          q = ApprovalRequest(f, d, a, rule)
    BY <2>0 DEF Reconciled
  <2>5. /\ q.desired = d /\ q.actual = a /\ q.rule = rule
        /\ q.actions = {x \in Diff(d, a) : \/ rule[x.does] = "require_approval"
                                           \/ rule[x.does] = "allow" /\ x.approval}
        /\ q.blocked = {x \in Diff(d, a) : rule[x.does] = "deny"}
    BY <2>4 DEF ApprovalRequest
  <2>6. \A x \in Diff(d, a) : /\ rule[x.does] \in {"allow", "require_approval", "deny"}
                              /\ x.approval \in BOOLEAN
    BY DiffType, RulesAssumption DEF Drifts
  <2> HIDE DEF g
  <2>7. QED
    BY <2>1, <2>3, <2>5, <2>6 DEF g
<1>2. QED
  BY <1>1, ReconcileInvariant, PTL

LEMMA ServiceExact ==
  ASSUME NEW word \in {"", "running", "active", "stopped", "inactive"},
         NEW actual, actual \notin {"running", "up", "stopped", "down"}
  PROVE  ServiceFits(word, actual) <=> ServiceDrift(word, actual) = {}
  BY DEF ServiceFits, ServiceDrift, NormalizeState

LEMMA ContainerExact ==
  ASSUME NEW d, WellWorded(d), NEW a, Observed(a)
  PROVE  LET none == ContainerDrift(d.container, a.container) = {}
         IN  /\ ContainerFits(d.container, a.container) => none
             /\ none => ContainerFits(d.container, a.container) \/ Unread(d, a)
<1> DEFINE w == d.container
           c == a.container
<1>1. /\ w.desired \in {"", "running", "stopped", "present", "absent"}
      /\ w.restart \notin {"manual", "approval_required"}
      /\ (w.desired = "" /\ w.image = "") \/ w.desired = "absent"
           => w.image = "" /\ w.health = "" /\ w.restart = ""
  BY DEF WellWorded
<1>2. \/ c.state = "" /\ c.image = "" /\ c.health = "" /\ c.restart = ""
      \/ c.state \in DockerStates /\ c.image # ""
  BY DEF Observed
<1> HIDE DEF w, c
<1>3. ContainerDrift(w, c) = {} <=>
        /\ ~StateDrift(w, c)
        /\ w.image = "" \/ w.image = c.image
        /\ w.health \in {"", "unknown"} \/ c.health = "" \/ w.health = c.health
        /\ w.restart = "" \/ c.restart = "" \/ w.restart = c.restart
  BY DEF ContainerDrift
<1> DEFINE unread == /\ c.state # ""
                     /\ \/ w.health \notin {"", "unknown"} /\ c.health = ""
                        \/ w.restart # "" /\ c.restart = ""
           exact == /\ ContainerFits(w, c) => ContainerDrift(w, c) = {}
                    /\ ContainerDrift(w, c) = {} => ContainerFits(w, c) \/ unread
<1>4. exact
  <2>1. CASE w.desired = ""
    BY <1>1, <1>2, <1>3, <2>1 DEF ContainerFits, StateDrift, NormalizeContainerState, DockerStates
  <2>2. CASE w.desired = "running"
    BY <1>1, <1>2, <1>3, <2>2 DEF ContainerFits, StateDrift, NormalizeContainerState, DockerStates
  <2>3. CASE w.desired = "stopped"
    BY <1>1, <1>2, <1>3, <2>3 DEF ContainerFits, StateDrift, NormalizeContainerState, DockerStates
  <2>4. CASE w.desired = "present"
    BY <1>1, <1>2, <1>3, <2>4 DEF ContainerFits, StateDrift, NormalizeContainerState, DockerStates
  <2>5. CASE w.desired = "absent"
    BY <1>1, <1>2, <1>3, <2>5 DEF ContainerFits, StateDrift, NormalizeContainerState, DockerStates
  <2>6. QED
    BY <1>1, <2>1, <2>2, <2>3, <2>4, <2>5
<1>5. QED
  BY <1>4 DEF w, c, Unread

LEMMA DiffExact ==
  ASSUME NEW d, WellWorded(d), NEW a, Observed(a)
  PROVE  /\ Fits(d, a) => Diff(d, a) = {}
         /\ Diff(d, a) = {} => Fits(d, a) \/ Unread(d, a)
<1>1. ServiceFits(d.service, a.service) <=> ServiceDrift(d.service, a.service) = {}
  BY ServiceExact DEF WellWorded, Observed
<1>2. LET none == ContainerDrift(d.container, a.container) = {}
      IN  /\ ContainerFits(d.container, a.container) => none
          /\ none => ContainerFits(d.container, a.container) \/ Unread(d, a)
  BY ContainerExact
<1>3. a.online \in BOOLEAN /\ a.role \in BOOLEAN /\ a.diskLow \in BOOLEAN /\ a.memoryHigh \in BOOLEAN
  BY DEF Observed
<1>4. Diff(d, a) = {} <=>
        /\ a.online
        /\ ~(d.role /\ ~a.role)
        /\ ServiceDrift(d.service, a.service) = {}
        /\ ContainerDrift(d.container, a.container) = {}
        /\ ~a.diskLow /\ ~a.memoryHigh
  BY <1>3 DEF Diff
<1>5. QED
  BY <1>1, <1>2, <1>3, <1>4 DEF Fits

(* The plan of a node is empty if the node, by its report, is as desired,  *)
(* and only then, except where docker inspect did not tell the health or   *)
(* restart policy that is asked for: for every state of systemd and of     *)
(* Docker, a dead container counting as stopped, all images, health and    *)
(* restart words, and every combination of what may be desired. A report   *)
(* that does not list a container shows none.                              *)
THEOREM DriftExact ==
  ASSUME \A d \in Desires : WellWorded(d), \A a \in Actuals : Observed(a)
  PROVE  ReconcileSpec => []DriftIsExact
<1>1. ReconcileProvenance => DriftIsExact
  <2> SUFFICES ASSUME ReconcileProvenance, NEW q \in Stored("reconcile-approval-request")
      PROVE  LET none == Diff(q.desired, q.actual) = {}
             IN  /\ Fits(q.desired, q.actual) => none
                 /\ none => Fits(q.desired, q.actual) \/ Unread(q.desired, q.actual)
    BY DEF DriftIsExact
  <2>1. q \in ReconcileRequests
    BY ReconcileTypes
  <2>2. q.desired \in Desires /\ q.actual \in Actuals
    BY <2>1 DEF ReconcileRequests
  <2>3. WellWorded(q.desired) /\ Observed(q.actual)
    BY <2>2
  <2>4. QED
    BY <2>3, DiffExact
<1>2. QED
  BY <1>1, ReconcileInvariant, PTL
-----------------------------------------------------------------------------
(* The mission store. The file and every mission that a call under way is  *)
(* about to save are alike: each agrees with what was reported by then and *)
(* what its own call will report, except what is overrun or has been since *)
(* it was read. A save makes the mission of one call the one in the file;  *)
(* for those of the others the call it made is one more that they overrun. *)

Missions == [status : Statuses \union {"active"}, tasks : Seq(Items), artifacts : Seq(Items)]
Answers == [call : 1 .. MaxCalls, list : Lists, id : Nat \ {0}, about : 1 .. MaxCalls]
Underways == [call : 1 .. MaxCalls, changed : Missions, answer : SUBSET Answers,
              overtaken : SUBSET (1 .. MaxCalls)]

(* A mission has items of calls up to n, apart from each other.            *)
Fit(m, n) ==
  /\ m \in Missions
  /\ \A l \in Lists :
       /\ \A i, j \in DOMAIN m[l] : m[l][i].call = m[l][j].call => i = j
       /\ \A i, j \in DOMAIN m[l] : m[l][i].id = m[l][j].id /\ i # j => m[l][i].id >= IdLimit
       /\ \A i \in DOMAIN m[l] : m[l][i].call <= n

(* Every item of a mission was reported by the call that added it.         *)
Origin(m, told) ==
  \A l \in Lists : \A i \in DOMAIN m[l] :
    \E a \in told : /\ a.call = m[l][i].call /\ a.about = m[l][i].call
                    /\ a.list = l /\ a.id = m[l][i].id

(* AnswersHold, of any mission and answers.                                *)
Holds(m, told, lost) ==
  \A a \in told : a.call \notin lost =>
    IF a.call = a.about
    THEN \E i \in DOMAIN m[a.list] : m[a.list][i].call = a.call /\ m[a.list][i].id = a.id
    ELSE a.id < IdLimit =>
           \A i \in DOMAIN m.tasks : m.tasks[i].call = a.about => m.tasks[i].done

(* DoneAsAsked, of any mission and answers.                                *)
Asked(m, told, lost) ==
  \A i \in DOMAIN m.tasks :
    m.tasks[i].done =>
      \/ \E a \in told : a.call # a.about /\ a.about = m.tasks[i].call
      \/ \E a \in told : a.call \in lost /\ a.id = m.tasks[i].id
      \/ m.tasks[i].id >= IdLimit

View(m, told, lost) == Origin(m, told) /\ Holds(m, told, lost) /\ Asked(m, told, lost)

(* What the store reported and what the calls under way will report.       *)
Told == answered \union UNION {calling[s].answer : s \in {x \in Servers : calling[x] # NoCall}}

Pending(c) ==
  /\ c.call <= calls
  /\ Fit(c.changed, calls)
  /\ View(c.changed, answered \union c.answer, overrun \union c.overtaken)
  /\ \A a \in c.answer : a.call = c.call

MissionInv ==
  /\ calls \in 0 .. MaxCalls /\ answered \subseteq Answers /\ overrun \subseteq 1 .. MaxCalls
  /\ calling \in [Servers -> Underways \union {NoCall}]
  /\ Fit(mission, calls) /\ View(mission, answered, overrun)
  /\ \A s \in Servers : calling[s] # NoCall => Pending(calling[s])
  /\ \A a \in Told : a.call <= calls /\ a.about <= calls
  /\ \A a, b \in Told : a.call = b.call => a = b

LEMMA ItemTypes ==
  ASSUME NEW list \in Seq(Items), NEW i \in DOMAIN list
  PROVE  /\ list[i] \in Items
         /\ list[i].id \in Nat \ {0} /\ list[i].call \in 1 .. MaxCalls
         /\ list[i].call \in Nat /\ list[i].done \in BOOLEAN
<1>1. list[i] \in Items
  OBVIOUS
<1>2. QED
  BY <1>1, MissionAssumption DEF Items

(* A new id is above every id that is read back as it is. *)
LEMMA NewID ==
  ASSUME NEW list \in Seq(Items)
  PROVE  /\ NextItemID(list) \in Nat \ {0}
         /\ \A i \in DOMAIN list : list[i].id < IdLimit => list[i].id < NextItemID(list)
<1> DEFINE numbers == {ReadBack(n) : n \in Ids(list)}
           f == [i \in 1 .. Len(list) |-> ReadBack(list[i].id)]
<1>0. DOMAIN list = 1 .. Len(list) /\ Len(list) \in Nat
  OBVIOUS
<1>1. \A i \in DOMAIN list : list[i].id \in Nat /\ list[i].id # 0
  BY ItemTypes
<1>2. \A n \in Nat : ReadBack(n) \in Nat
  <2>1. \A n \in Nat : n \div 10 \in Nat
    OBVIOUS
  <2>2. QED
    BY <2>1 DEF ReadBack
<1>3. f \in Surjection(1 .. Len(list), numbers)
  <2>1. f \in [1 .. Len(list) -> numbers]
    BY <1>0 DEF Ids
  <2>2. \A t \in numbers : \E i \in 1 .. Len(list) : f[i] = t
    BY <1>0 DEF Ids
  <2>3. QED
    BY <2>1, <2>2 DEF Surjection
<1>4. IsFiniteSet({0} \union numbers)
  <2>1. IsFiniteSet(1 .. Len(list))
    BY <1>0, FS_Interval
  <2>2. IsFiniteSet(numbers)
    <3> HIDE DEF numbers, f
    <3>1. QED
      BY <2>1, <1>3, FS_Surjection
  <2>3. IsFiniteSet({0})
    BY FS_Singleton
  <2>4. QED
    BY <2>2, <2>3, FS_Union
<1>5. {0} \union numbers \subseteq Nat
  BY <1>1, <1>2, SMTT(30) DEF Ids
<1>6. /\ Highest({0} \union numbers) \in Nat
      /\ \A y \in {0} \union numbers : y <= Highest({0} \union numbers)
  <2> HIDE DEF numbers
  <2>1. {0} \union numbers # {}
    OBVIOUS
  <2>2. QED
    BY <1>4, <1>5, <2>1, Greatest
<1>7. NextItemID(list) = 1 + Highest({0} \union numbers)
  BY DEF NextItemID
<1>8. ASSUME NEW i \in DOMAIN list, list[i].id < IdLimit
      PROVE  list[i].id <= Highest({0} \union numbers)
  <2>1. ReadBack(list[i].id) = list[i].id
    BY <1>8 DEF ReadBack
  <2>2. ReadBack(list[i].id) \in numbers
    BY DEF Ids
  <2>3. QED
    BY <2>1, <2>2, <1>6
<1>9. QED
  <2>1. IdLimit \in Nat
    BY MissionAssumption
  <2> HIDE DEF numbers
  <2> DEFINE top == Highest({0} \union numbers)
  <2>3. top \in Nat /\ NextItemID(list) = 1 + top
    BY <1>6, <1>7
  <2>4. \A i \in DOMAIN list : list[i].id < IdLimit => list[i].id <= top
    BY <1>8
  <2> HIDE DEF top
  <2>5. QED
    BY <1>1, <2>3, <2>4

(* What an added item leaves of a list, and what it adds. *)
LEMMA AddedItem ==
  ASSUME NEW m \in Missions, NEW l \in Lists, NEW call \in 1 .. MaxCalls
  PROVE  LET new == [id |-> NextItemID(m[l]), call |-> call, done |-> FALSE]
             last == Len(m[l]) + 1
         IN  /\ Added(m, l, call) \in Missions
             /\ \A k \in Lists : k # l => Added(m, l, call)[k] = m[k]
             /\ DOMAIN Added(m, l, call)[l] = DOMAIN m[l] \union {last}
             /\ last \notin DOMAIN m[l]
             /\ Added(m, l, call)[l][last] = new
             /\ \A i \in DOMAIN m[l] : Added(m, l, call)[l][i] = m[l][i]
             /\ Added(m, l, call).status = m.status
<1> DEFINE new == [id |-> NextItemID(m[l]), call |-> call, done |-> FALSE]
           longer == Append(m[l], new)
<1>1. m[l] \in Seq(Items)
  BY DEF Missions, Lists
<1>2. new \in Items
  BY <1>1, NewID DEF Items
<1> HIDE DEF new
<1>3. /\ longer \in Seq(Items) /\ Len(longer) = Len(m[l]) + 1
      /\ DOMAIN longer = 1 .. (Len(m[l]) + 1) /\ DOMAIN m[l] = 1 .. Len(m[l])
      /\ longer[Len(m[l]) + 1] = new
      /\ \A i \in 1 .. Len(m[l]) : longer[i] = m[l][i]
      /\ Len(m[l]) \in Nat
  BY <1>1, <1>2
<1>4. DOMAIN longer = DOMAIN m[l] \union {Len(m[l]) + 1} /\ Len(m[l]) + 1 \notin DOMAIN m[l]
  BY <1>3
<1>5. Added(m, l, call) = [m EXCEPT ![l] = longer]
  BY DEF Added, new
<1> HIDE DEF longer
<1>6. /\ Added(m, l, call) \in Missions /\ Added(m, l, call)[l] = longer
      /\ \A k \in Lists : k # l => Added(m, l, call)[k] = m[k]
      /\ Added(m, l, call).status = m.status
  BY <1>3, <1>5 DEF Missions, Lists
<1>7. QED
  BY <1>3, <1>4, <1>6 DEF new

LEMMA AddedFit ==
  ASSUME NEW m, NEW n \in Nat, Fit(m, n), NEW l \in Lists, n + 1 \in 1 .. MaxCalls
  PROVE  Fit(Added(m, l, n + 1), n + 1)
<1> DEFINE more == Added(m, l, n + 1)
           last == Len(m[l]) + 1
<1>0. m \in Missions
  BY DEF Fit
<1>1. \A k \in Lists : m[k] \in Seq(Items)
  BY <1>0 DEF Missions, Lists
<1>2. /\ more \in Missions
      /\ \A k \in Lists : k # l => more[k] = m[k]
      /\ DOMAIN more[l] = DOMAIN m[l] \union {last}
      /\ last \notin DOMAIN m[l]
      /\ more[l][last].id = NextItemID(m[l]) /\ more[l][last].call = n + 1
      /\ \A i \in DOMAIN m[l] : more[l][i] = m[l][i]
  <2>1. LET new == [id |-> NextItemID(m[l]), call |-> n + 1, done |-> FALSE]
        IN  /\ more \in Missions
            /\ \A k \in Lists : k # l => more[k] = m[k]
            /\ DOMAIN more[l] = DOMAIN m[l] \union {last}
            /\ last \notin DOMAIN m[l]
            /\ more[l][last] = new
            /\ \A i \in DOMAIN m[l] : more[l][i] = m[l][i]
    BY <1>0, AddedItem
  <2> HIDE DEF more, last
  <2>2. QED
    BY <2>1
<1>3. /\ NextItemID(m[l]) \in Nat
      /\ \A i \in DOMAIN m[l] : m[l][i].id < IdLimit => m[l][i].id < NextItemID(m[l])
  BY <1>1, NewID
<1>4. \A k \in Lists : \A i \in DOMAIN m[k] : m[k][i].call \in Nat /\ m[k][i].id \in Nat
  BY <1>1, ItemTypes
<1>5. IdLimit \in Nat
  BY MissionAssumption
<1> HIDE DEF more, last
<1>6. ASSUME NEW k \in Lists
      PROVE  /\ \A i, j \in DOMAIN more[k] : more[k][i].call = more[k][j].call => i = j
             /\ \A i, j \in DOMAIN more[k] :
                  more[k][i].id = more[k][j].id /\ i # j => more[k][i].id >= IdLimit
             /\ \A i \in DOMAIN more[k] : more[k][i].call <= n + 1
  <2>1. /\ \A i, j \in DOMAIN m[k] : m[k][i].call = m[k][j].call => i = j
        /\ \A i, j \in DOMAIN m[k] : m[k][i].id = m[k][j].id /\ i # j => m[k][i].id >= IdLimit
        /\ \A i \in DOMAIN m[k] : m[k][i].call <= n
    BY DEF Fit
  <2>2. CASE k # l
    BY <2>1, <2>2, <1>2, <1>4
  <2>3. CASE k = l
    <3>1. \A i \in DOMAIN m[l] : m[l][i].call <= n /\ m[l][i].call # n + 1
      BY <2>1, <2>3, <1>4
    <3>2. \A i, j \in DOMAIN more[l] : more[l][i].call = more[l][j].call => i = j
      BY <2>1, <2>3, <3>1, <1>2
    <3>3. \A i \in DOMAIN more[l] : more[l][i].call <= n + 1
      BY <3>1, <1>2, <1>4
    <3>4. \A i \in DOMAIN m[l] : m[l][i].id = NextItemID(m[l]) => m[l][i].id >= IdLimit
      BY <1>3, <1>4, <1>5
    <3>5. \A i, j \in DOMAIN more[l] : more[l][i].id = more[l][j].id /\ i # j => more[l][i].id >= IdLimit
      BY <2>1, <2>3, <3>4, <1>2
    <3>6. QED
      BY <2>3, <3>2, <3>3, <3>5
  <2>4. QED
    BY <2>2, <2>3
<1>7. QED
  BY <1>2, <1>6 DEF Fit, more

(* CompleteTask finds the first task of its id, and only marks it done. *)
LEMMA CompletedItem ==
  ASSUME NEW m \in Missions, NEW id \in Ids(m.tasks)
  PROVE  \E first \in DOMAIN m.tasks :
           /\ m.tasks[first].id = id
           /\ Completed(m, id) \in Missions
           /\ Completed(m, id).artifacts = m.artifacts
           /\ Completed(m, id).status = m.status
           /\ DOMAIN Completed(m, id).tasks = DOMAIN m.tasks
           /\ \A i \in DOMAIN m.tasks :
                /\ Completed(m, id).tasks[i].id = m.tasks[i].id
                /\ Completed(m, id).tasks[i].call = m.tasks[i].call
                /\ Completed(m, id).tasks[i].done = (m.tasks[i].done \/ i = first)
<1> DEFINE tasks == m.tasks
           Named(i) == tasks[i].id = id
           S == {i \in DOMAIN tasks : Named(i)}
           first == CHOOSE i \in DOMAIN tasks : Named(i) /\ \A j \in 1 .. (i - 1) : tasks[j].id # id
<1>0. tasks \in Seq(Items) /\ DOMAIN tasks = 1 .. Len(tasks) /\ Len(tasks) \in Nat
  BY DEF Missions
<1>1. IsFiniteSet(S)
  <2>1. IsFiniteSet(1 .. Len(tasks))
    BY <1>0, FS_Interval
  <2>2. S \subseteq 1 .. Len(tasks)
    BY <1>0
  <2>3. QED
    <3> HIDE DEF S
    <3>1. QED
      BY <2>1, <2>2, FS_Subset
<1>2. S # {} /\ S \subseteq Nat
  BY <1>0 DEF Ids
<1>3. PICK i \in S : \A y \in S : i <= y
  <2> HIDE DEF S
  <2>1. QED
    BY <1>1, <1>2, Least
<1>4. \A j \in 1 .. (i - 1) : tasks[j].id # id
  <2>1. SUFFICES ASSUME NEW j \in 1 .. (i - 1), tasks[j].id = id PROVE FALSE
    OBVIOUS
  <2>2. i \in 1 .. Len(tasks)
    BY <1>0
  <2>3. j \in DOMAIN tasks /\ j < i /\ i \in Nat /\ j \in Nat
    BY <2>2, <1>0
  <2>4. j \in S
    BY <2>1, <2>3
  <2>5. QED
    BY <2>3, <2>4, <1>3
<1>5. first \in DOMAIN tasks /\ tasks[first].id = id
  <2>1. i \in DOMAIN tasks /\ Named(i)
    OBVIOUS
  <2>2. QED
    BY <2>1, <1>4
<1>6. Completed(m, id) = [m EXCEPT !.tasks[first].done = TRUE]
  BY DEF Completed
<1> HIDE DEF first
<1>7. tasks[first] \in Items /\ \A k \in DOMAIN tasks : tasks[k] \in Items
  BY <1>5, <1>0
<1> DEFINE marked == [tasks[first] EXCEPT !.done = TRUE]
           after == [tasks EXCEPT ![first] = marked]
<1>8. /\ marked \in Items /\ marked.id = tasks[first].id
      /\ marked.call = tasks[first].call /\ marked.done = TRUE
  BY <1>7 DEF Items
<1>9. Completed(m, id) = [m EXCEPT !.tasks = after]
  BY <1>6
<1> HIDE DEF marked
<1>10. /\ after \in Seq(Items) /\ DOMAIN after = DOMAIN tasks
       /\ after[first] = marked
       /\ \A k \in DOMAIN tasks : k # first => after[k] = tasks[k]
  BY <1>0, <1>5, <1>8
<1> HIDE DEF after
<1>11. /\ Completed(m, id) \in Missions /\ Completed(m, id).tasks = after
       /\ Completed(m, id).artifacts = m.artifacts /\ Completed(m, id).status = m.status
  BY <1>9, <1>10 DEF Missions
<1>12. \A k \in DOMAIN tasks :
         /\ after[k].id = tasks[k].id /\ after[k].call = tasks[k].call
         /\ after[k].done = (tasks[k].done \/ k = first)
  <2>1. \A k \in DOMAIN tasks : tasks[k].done \in BOOLEAN
    BY <1>7 DEF Items
  <2>2. \A k \in DOMAIN tasks : k # first => after[k].done = (tasks[k].done \/ k = first)
    BY <1>10, <2>1
  <2>3. after[first].done = (tasks[first].done \/ first = first)
    BY <1>10, <1>8
  <2>4. QED
    BY <1>8, <1>10, <2>2, <2>3
<1>13. QED
  BY <1>5, <1>10, <1>11, <1>12

LEMMA CompletedFit ==
  ASSUME NEW m, NEW n \in Nat, Fit(m, n), NEW id \in Ids(m.tasks)
  PROVE  Fit(Completed(m, id), n)
<1>1. m \in Missions
  BY DEF Fit
<1>2. PICK first \in DOMAIN m.tasks :
        /\ Completed(m, id) \in Missions
        /\ Completed(m, id).artifacts = m.artifacts
        /\ DOMAIN Completed(m, id).tasks = DOMAIN m.tasks
        /\ \A i \in DOMAIN m.tasks :
             /\ Completed(m, id).tasks[i].id = m.tasks[i].id
             /\ Completed(m, id).tasks[i].call = m.tasks[i].call
  BY <1>1, CompletedItem
<1>3. QED
  BY <1>2 DEF Fit, Lists

(* A status says nothing of the items. *)
LEMMA UpdatedView ==
  ASSUME NEW m, NEW n \in Nat, Fit(m, n), NEW told \in SUBSET Answers, NEW lost,
         View(m, told, lost), NEW status \in Statuses
  PROVE  /\ Fit([m EXCEPT !.status = status], n)
         /\ View([m EXCEPT !.status = status], told, lost)
<1> DEFINE c == [m EXCEPT !.status = status]
<1>1. m \in Missions
  BY DEF Fit
<1>2. c \in Missions /\ c.tasks = m.tasks /\ \A l \in Lists : c[l] = m[l]
  BY <1>1 DEF Missions, Lists
<1> HIDE DEF c
<1>3. Fit(c, n)
  BY <1>2 DEF Fit
<1>4. Origin(c, told)
  BY <1>2 DEF View, Origin
<1>5. Asked(c, told, lost)
  BY <1>2 DEF View, Asked
<1>6. Holds(c, told, lost)
  <2>1. SUFFICES ASSUME NEW a \in told, a.call \notin lost
                 PROVE  IF a.call = a.about
                        THEN \E i \in DOMAIN c[a.list] :
                               c[a.list][i].call = a.call /\ c[a.list][i].id = a.id
                        ELSE a.id < IdLimit =>
                               \A i \in DOMAIN c.tasks : c.tasks[i].call = a.about => c.tasks[i].done
    BY DEF Holds
  <2>2. IF a.call = a.about
        THEN \E i \in DOMAIN m[a.list] : m[a.list][i].call = a.call /\ m[a.list][i].id = a.id
        ELSE a.id < IdLimit =>
               \A i \in DOMAIN m.tasks : m.tasks[i].call = a.about => m.tasks[i].done
    BY <2>1 DEF View, Holds
  <2>3. c[a.list] = m[a.list]
    BY <1>2 DEF Answers
  <2>4. QED
    BY <2>2, <2>3, <1>2
<1>7. QED
  BY <1>3, <1>4, <1>5, <1>6 DEF View, c

(* The new item is in the mission of its call as that call will report it; *)
(* what others reported is of other items.                                 *)
LEMMA AddedView ==
  ASSUME NEW m, NEW n \in Nat, Fit(m, n), n + 1 \in 1 .. MaxCalls,
         NEW told \in SUBSET Answers, NEW lost, View(m, told, lost),
         \A a \in told : a.about <= n,
         NEW l \in Lists
  PROVE  View(Added(m, l, n + 1), told \union Answer(n + 1, l, NextItemID(m[l]), n + 1), lost)
<1> DEFINE c == Added(m, l, n + 1)
           last == Len(m[l]) + 1
           new == [call |-> n + 1, list |-> l, id |-> NextItemID(m[l]), about |-> n + 1]
           more == told \union {new}
<1>0. m \in Missions
  BY DEF Fit
<1>1. /\ \A k \in Lists : k # l => c[k] = m[k]
      /\ DOMAIN c[l] = DOMAIN m[l] \union {last}
      /\ c[l][last] = [id |-> NextItemID(m[l]), call |-> n + 1, done |-> FALSE]
      /\ \A i \in DOMAIN m[l] : c[l][i] = m[l][i]
  BY <1>0, AddedItem
<1>2. /\ c[l][last].id = NextItemID(m[l]) /\ c[l][last].call = n + 1
      /\ c[l][last].done = FALSE
  BY <1>1
<1>3. \A a \in told : a.list \in Lists /\ a.about \in Nat /\ a.about # n + 1
  BY DEF Answers
<1> DEFINE step == /\ DOMAIN c.tasks = IF l = "tasks" THEN DOMAIN m.tasks \union {last} ELSE DOMAIN m.tasks
                   /\ \A i \in DOMAIN m.tasks : c.tasks[i] = m.tasks[i]
<1>4. step
  BY <1>1 DEF Lists
<1>5. more = told \union Answer(n + 1, l, NextItemID(m[l]), n + 1)
  BY DEF Answer
<1>6. new.call = n + 1 /\ new.list = l /\ new.id = NextItemID(m[l]) /\ new.about = n + 1
  OBVIOUS
<1> HIDE DEF c, last, new
<1>7. Origin(c, more)
  <2>1. SUFFICES ASSUME NEW k \in Lists, NEW i \in DOMAIN c[k]
                 PROVE  \E a \in more : /\ a.call = c[k][i].call /\ a.about = c[k][i].call
                                        /\ a.list = k /\ a.id = c[k][i].id
    BY DEF Origin
  <2>2. CASE k = l /\ i = last
    BY <2>2, <1>2, <1>6
  <2>3. CASE i \in DOMAIN m[k] /\ c[k][i] = m[k][i]
    BY <2>3 DEF View, Origin
  <2>4. QED
    BY <2>2, <2>3, <1>1
<1>8. Holds(c, more, lost)
  <2>1. SUFFICES ASSUME NEW a \in more, a.call \notin lost
                 PROVE  IF a.call = a.about
                        THEN \E i \in DOMAIN c[a.list] :
                               c[a.list][i].call = a.call /\ c[a.list][i].id = a.id
                        ELSE a.id < IdLimit =>
                               \A i \in DOMAIN c.tasks : c.tasks[i].call = a.about => c.tasks[i].done
    BY DEF Holds
  <2>2. CASE a = new
    BY <2>2, <1>1, <1>2, <1>6
  <2>3. CASE a \in told /\ a.call = a.about
    <3>1. PICK i \in DOMAIN m[a.list] : m[a.list][i].call = a.call /\ m[a.list][i].id = a.id
      BY <2>1, <2>3 DEF View, Holds
    <3>2. i \in DOMAIN c[a.list] /\ c[a.list][i] = m[a.list][i]
      BY <3>1, <2>3, <1>1, <1>3
    <3>3. QED
      BY <3>1, <3>2, <2>3
  <2>4. CASE a \in told /\ a.call # a.about
    <3>1. ASSUME a.id < IdLimit, NEW i \in DOMAIN c.tasks, c.tasks[i].call = a.about
          PROVE  c.tasks[i].done
      <4>1. i \in DOMAIN m.tasks /\ c.tasks[i] = m.tasks[i]
        BY <3>1, <2>4, <1>2, <1>3, <1>4
      <4>2. QED
        BY <4>1, <3>1, <2>1, <2>4 DEF View, Holds
    <3>2. QED
      BY <3>1, <2>4
  <2>5. QED
    BY <2>2, <2>3, <2>4
<1>9. Asked(c, more, lost)
  <2>1. SUFFICES ASSUME NEW i \in DOMAIN c.tasks, c.tasks[i].done
                 PROVE  \/ \E a \in more : a.call # a.about /\ a.about = c.tasks[i].call
                        \/ \E a \in more : a.call \in lost /\ a.id = c.tasks[i].id
                        \/ c.tasks[i].id >= IdLimit
    BY DEF Asked
  <2>2. i \in DOMAIN m.tasks /\ c.tasks[i] = m.tasks[i]
    BY <2>1, <1>2, <1>4
  <2>3. QED
    BY <2>1, <2>2 DEF View, Asked
<1>10. QED
  BY <1>5, <1>7, <1>8, <1>9 DEF View, c

(* The task that is completed is the one the client was told of, unless    *)
(* that one was lost to an overrun or its number is beyond the limit.      *)
LEMMA CompletedView ==
  ASSUME NEW m, NEW n \in Nat, Fit(m, n), n + 1 \in 1 .. MaxCalls,
         NEW told \in SUBSET Answers, NEW lost, View(m, told, lost),
         \A a \in told : a.about <= n,
         \A a, b \in told : a.call = b.call => a = b,
         NEW o \in told, o.list = "tasks", o.call = o.about, o.id \in Ids(m.tasks)
  PROVE  View(Completed(m, o.id), told \union Answer(n + 1, "tasks", o.id, o.about), lost)
<1> DEFINE c == Completed(m, o.id)
           new == [call |-> n + 1, list |-> "tasks", id |-> o.id, about |-> o.about]
           more == told \union {new}
<1>0. m \in Missions
  BY DEF Fit
<1>1. PICK first \in DOMAIN m.tasks :
        /\ m.tasks[first].id = o.id
        /\ c.artifacts = m.artifacts
        /\ DOMAIN c.tasks = DOMAIN m.tasks
        /\ \A i \in DOMAIN m.tasks :
             /\ c.tasks[i].id = m.tasks[i].id
             /\ c.tasks[i].call = m.tasks[i].call
             /\ c.tasks[i].done = (m.tasks[i].done \/ i = first)
  BY <1>0, CompletedItem
<1>2. /\ \A a \in told : a.list \in Lists /\ a.about \in Nat /\ a.about # n + 1 /\ a.id \in Nat
      /\ o.id \in Nat /\ IdLimit \in Nat
  BY MissionAssumption DEF Answers
<1>3. more = told \union Answer(n + 1, "tasks", o.id, o.about)
  BY DEF Answer
<1>4. new.call = n + 1 /\ new.id = o.id /\ new.about = o.about /\ new.call # new.about
  BY <1>2
<1>5. \A l \in Lists : DOMAIN c[l] = DOMAIN m[l] /\
        \A i \in DOMAIN m[l] : c[l][i].call = m[l][i].call /\ c[l][i].id = m[l][i].id
  BY <1>1 DEF Lists
<1>6. \A i, j \in DOMAIN m.tasks : m.tasks[i].id = m.tasks[j].id /\ i # j => m.tasks[i].id >= IdLimit
  BY DEF Fit, Lists
<1> HIDE DEF c, new
(* The tasks that calls answered for have the ids they answered. *)
<1>7. \A i \in DOMAIN m.tasks : m.tasks[i].call = o.about => m.tasks[i].id = o.id
  <2>1. SUFFICES ASSUME NEW i \in DOMAIN m.tasks, m.tasks[i].call = o.about
                 PROVE  m.tasks[i].id = o.id
    OBVIOUS
  <2>2. PICK b \in told : b.call = m.tasks[i].call /\ b.id = m.tasks[i].id
    BY DEF View, Origin, Lists
  <2>3. QED
    BY <2>1, <2>2
<1>8. Origin(c, more)
  <2>1. SUFFICES ASSUME NEW k \in Lists, NEW i \in DOMAIN c[k]
                 PROVE  \E a \in more : /\ a.call = c[k][i].call /\ a.about = c[k][i].call
                                        /\ a.list = k /\ a.id = c[k][i].id
    BY DEF Origin
  <2>2. PICK a \in told : /\ a.call = m[k][i].call /\ a.about = m[k][i].call
                          /\ a.list = k /\ a.id = m[k][i].id
    BY <1>5 DEF View, Origin
  <2>3. QED
    BY <2>2, <1>5
<1>9. Holds(c, more, lost)
  <2>1. SUFFICES ASSUME NEW a \in more, a.call \notin lost
                 PROVE  IF a.call = a.about
                        THEN \E i \in DOMAIN c[a.list] :
                               c[a.list][i].call = a.call /\ c[a.list][i].id = a.id
                        ELSE a.id < IdLimit =>
                               \A i \in DOMAIN c.tasks : c.tasks[i].call = a.about => c.tasks[i].done
    BY DEF Holds
  <2>2. CASE a = new
    <3>1. ASSUME o.id < IdLimit, NEW i \in DOMAIN m.tasks, m.tasks[i].call = o.about
          PROVE  i = first
      <4>1. m.tasks[i].id = m.tasks[first].id /\ m.tasks[i].id < IdLimit
        BY <3>1, <1>1, <1>7
      <4>2. ~(m.tasks[i].id >= IdLimit)
        BY <4>1, <1>1, <1>2
      <4>3. QED
        BY <4>1, <4>2, <1>6
    <3>2. o.id < IdLimit => \A i \in DOMAIN c.tasks : c.tasks[i].call = o.about => c.tasks[i].done
      BY <3>1, <1>1
    <3>3. QED
      BY <2>2, <3>2, <1>4
  <2>3. CASE a \in told /\ a.call = a.about
    <3>1. PICK i \in DOMAIN m[a.list] : m[a.list][i].call = a.call /\ m[a.list][i].id = a.id
      BY <2>1, <2>3 DEF View, Holds
    <3>2. a.list \in Lists
      BY <2>3, <1>2
    <3>3. i \in DOMAIN c[a.list] /\ c[a.list][i].call = a.call /\ c[a.list][i].id = a.id
      BY <3>1, <3>2, <1>5
    <3>4. QED
      BY <3>3, <2>3
  <2>4. CASE a \in told /\ a.call # a.about
    <3>1. a.id < IdLimit => \A i \in DOMAIN m.tasks : m.tasks[i].call = a.about => m.tasks[i].done
      BY <2>1, <2>4 DEF View, Holds
    <3>2. QED
      BY <3>1, <2>4, <1>1
  <2>5. QED
    BY <2>2, <2>3, <2>4
<1>10. Asked(c, more, lost)
  <2>1. SUFFICES ASSUME NEW i \in DOMAIN c.tasks, c.tasks[i].done
                 PROVE  \/ \E a \in more : a.call # a.about /\ a.about = c.tasks[i].call
                        \/ \E a \in more : a.call \in lost /\ a.id = c.tasks[i].id
                        \/ c.tasks[i].id >= IdLimit
    BY DEF Asked
  <2>2. CASE m.tasks[i].done
    <3>1. \/ \E a \in told : a.call # a.about /\ a.about = m.tasks[i].call
          \/ \E a \in told : a.call \in lost /\ a.id = m.tasks[i].id
          \/ m.tasks[i].id >= IdLimit
      BY <2>2, <1>1 DEF View, Asked
    <3>2. QED
      BY <3>1, <1>1
  <2>3. CASE i = first /\ o.call \in lost
    BY <2>3, <1>1
  <2>4. CASE i = first /\ o.call \notin lost
    <3>1. PICK j \in DOMAIN m.tasks : m.tasks[j].call = o.call /\ m.tasks[j].id = o.id
      BY <2>4 DEF View, Holds
    <3>2. j = first \/ m.tasks[first].id >= IdLimit
      BY <3>1, <1>1, <1>6
    <3>3. j = first => new.about = c.tasks[i].call
      BY <3>1, <2>4, <1>1, <1>4
    <3>4. QED
      BY <3>2, <3>3, <2>4, <1>1, <1>4
  <2>5. QED
    BY <2>1, <2>2, <2>3, <2>4, <1>1
<1>11. QED
  BY <1>3, <1>8, <1>9, <1>10 DEF View, c

(* A mission stays true to more reports of calls that overran it, and when *)
(* more of the reports have been overrun.                                  *)
LEMMA ViewKept ==
  ASSUME NEW m, NEW told, NEW lost, View(m, told, lost),
         NEW more, told \subseteq more, NEW over, lost \subseteq over,
         \A a \in more : a \in told \/ a.call \in over
  PROVE  View(m, more, over)
<1>1. Origin(m, more)
  BY DEF View, Origin
<1>2. Holds(m, more, over)
  BY DEF View, Holds
<1>3. Asked(m, more, over)
  BY DEF View, Asked
<1>4. QED
  BY <1>1, <1>2, <1>3 DEF View

LEMMA FitKept ==
  ASSUME NEW m, NEW n \in Nat, NEW k \in Nat, n <= k, Fit(m, n)
  PROVE  Fit(m, k)
<1>1. \A l \in Lists : \A i \in DOMAIN m[l] : m[l][i].call \in Nat
  BY ItemTypes DEF Fit, Missions, Lists
<1>2. QED
  BY <1>1 DEF Fit

(* What a call under way has to be in the next state. *)
LEMMA PendingNext ==
  ASSUME NEW x \in Servers,
         calling'[x].call <= calls',
         Fit(calling'[x].changed, calls'),
         View(calling'[x].changed, answered' \union calling'[x].answer,
              overrun' \union calling'[x].overtaken),
         \A a \in calling'[x].answer : a.call = calling'[x].call
  PROVE  Pending(calling[x])'
  BY DEF Pending, Fit, View, Origin, Holds, Asked

LEMMA MissionInitInv == MissionInit => MissionInv
<1> SUFFICES ASSUME MissionInit PROVE MissionInv
  OBVIOUS
<1>1. /\ mission \in Missions /\ mission.tasks = << >> /\ mission.artifacts = << >>
      /\ \A s \in Servers : calling[s] = NoCall
      /\ calling \in [Servers -> Underways \union {NoCall}]
      /\ calls = 0 /\ answered = {} /\ overrun = {}
  BY DEF MissionInit, Missions
<1>2. \A l \in Lists : mission[l] = << >> /\ DOMAIN mission[l] = {}
  BY <1>1 DEF Lists
<1>3. Fit(mission, calls)
  BY <1>1, <1>2 DEF Fit
<1>4. View(mission, answered, overrun)
  BY <1>1, <1>2 DEF View, Origin, Holds, Asked, Lists
<1>5. Told = {}
  BY <1>1 DEF Told
<1>6. QED
  BY <1>1, <1>3, <1>4, <1>5, MissionAssumption DEF MissionInv

(* A call that has read the file is the last one, so that no other answer  *)
(* is its own.                                                             *)
LEMMA LoadKept ==
  ASSUME MissionInv, NEW s \in Servers, NEW changed, NEW answer \in SUBSET Answers,
         Load(s, changed, answer), answered' = answered,
         Fit(changed, calls + 1), View(changed, answered \union answer, overrun),
         \A a \in answer : a.call = calls + 1 /\ a.about <= calls + 1,
         \A a, b \in answer : a = b
  PROVE  MissionInv'
<1> DEFINE new == [call |-> calls + 1, changed |-> changed, answer |-> answer, overtaken |-> {}]
<1>1. /\ calls < MaxCalls /\ calls \in Nat /\ MaxCalls \in Nat
      /\ calls' = calls + 1 /\ calls' \in 0 .. MaxCalls /\ calls + 1 \in 1 .. MaxCalls
      /\ mission' = mission /\ overrun' = overrun
  BY MissionAssumption DEF MissionInv, Load
<1>2. calling' = [calling EXCEPT ![s] = new]
  BY <1>1 DEF Load
<1>3. new \in Underways
  BY <1>1 DEF Underways, Fit
<1>4. /\ new.call = calls + 1 /\ new.changed = changed /\ new.answer = answer
      /\ new.overtaken = {}
  OBVIOUS
<1> HIDE DEF new
<1>5. /\ calling' \in [Servers -> Underways \union {NoCall}]
      /\ calling'[s] = new
      /\ \A x \in Servers : x # s => calling'[x] = calling[x]
  BY <1>2, <1>3 DEF MissionInv
<1>6. Fit(mission, calls)' /\ View(mission, answered, overrun)'
  <2>1. Fit(mission, calls + 1)
    BY <1>1, FitKept DEF MissionInv
  <2>2. QED
    BY <2>1, <1>1 DEF MissionInv, Fit, View, Origin, Holds, Asked
<1>7. ASSUME NEW x \in Servers, calling'[x] # NoCall
      PROVE  Pending(calling[x])'
  <2>1. SUFFICES /\ calling'[x].call <= calls + 1
                 /\ Fit(calling'[x].changed, calls + 1)
                 /\ View(calling'[x].changed, answered \union calling'[x].answer,
                         overrun \union calling'[x].overtaken)
                 /\ \A a \in calling'[x].answer : a.call = calling'[x].call
    BY <1>1, PendingNext
  <2>2. CASE x = s
    <3>1. overrun \union {} = overrun
      OBVIOUS
    <3>2. calls + 1 <= calls + 1
      BY <1>1
    <3>3. /\ calling'[x].call = calls + 1 /\ calling'[x].changed = changed
          /\ calling'[x].answer = answer /\ calling'[x].overtaken = {}
      BY <2>2, <1>4, <1>5
    <3>4. QED
      BY <3>1, <3>2, <3>3
  <2>3. CASE x # s
    <3>1. calling'[x] = calling[x] /\ Pending(calling[x]) /\ calling[x] \in Underways
      BY <2>3, <1>5, <1>7 DEF MissionInv
    <3>2. Fit(calling[x].changed, calls + 1)
      BY <3>1, <1>1, FitKept DEF Pending
    <3>3. calling[x].call \in Nat /\ calling[x].call <= calls
      BY <3>1 DEF Pending, Underways
    <3>4. calling[x].call <= calls + 1
      BY <3>3, <1>1
    <3>5. QED
      BY <3>1, <3>2, <3>4 DEF Pending
  <2>4. QED
    BY <2>2, <2>3
<1>8. Told' \subseteq Told \union answer
  BY <1>4, <1>5 DEF Told
<1>9. Told \subseteq Answers
  BY DEF Told, MissionInv, Underways
<1>10. \A a \in Told : a.call \in Nat /\ a.about \in Nat /\ a.call <= calls /\ a.about <= calls
  BY <1>9 DEF MissionInv, Answers
<1>11. \A a \in Told' : a.call <= calls + 1 /\ a.about <= calls + 1
  <2>1. \A a \in Told : a.call <= calls + 1 /\ a.about <= calls + 1
    BY <1>1, <1>10
  <2>2. \A a \in answer : a.call <= calls + 1
    BY <1>1
  <2>3. QED
    BY <2>1, <2>2, <1>8
<1>12. \A a, b \in Told' : a.call = b.call => a = b
  <2>1. \A a \in Told : a.call # calls + 1
    BY <1>1, <1>10
  <2>2. QED
    BY <2>1, <1>8 DEF MissionInv
<1>13. answered' \subseteq Answers /\ overrun' \subseteq 1 .. MaxCalls
  BY <1>1 DEF MissionInv
<1>14. QED
  BY <1>1, <1>5, <1>6, <1>7, <1>11, <1>12, <1>13 DEF MissionInv

(* What is saved is what its call had made of the file, and what it says.  *)
LEMMA SaveKept ==
  ASSUME MissionInv, NEW s \in Servers, Save(s)
  PROVE  MissionInv'
<1> DEFINE c == calling[s]
           after(x) == [calling[x] EXCEPT !.overtaken = @ \union {c.call}]
<1>1. c \in Underways /\ Pending(c)
  BY DEF MissionInv, Save
<1>2. /\ mission' = c.changed /\ answered' = answered \union c.answer
      /\ overrun' = overrun \union c.overtaken /\ calls' = calls
      /\ calling' = [x \in Servers |-> IF x = s \/ calling[x] = NoCall THEN NoCall ELSE after(x)]
  BY DEF Save
<1>3. c.call \in 1 .. MaxCalls /\ c.answer \subseteq Answers /\ c.overtaken \subseteq 1 .. MaxCalls
  BY <1>1 DEF Underways
<1> HIDE DEF c
<1>4. ASSUME NEW x \in Servers, x # s, calling[x] # NoCall
      PROVE  /\ calling[x] \in Underways /\ after(x) \in Underways
             /\ after(x).call = calling[x].call /\ after(x).changed = calling[x].changed
             /\ after(x).answer = calling[x].answer
             /\ after(x).overtaken = calling[x].overtaken \union {c.call}
  <2>1. calling[x] \in Underways
    BY <1>4 DEF MissionInv
  <2>2. QED
    BY <2>1, <1>3 DEF Underways
<1>5. \A x \in Servers : calling'[x] # NoCall =>
        x # s /\ calling[x] # NoCall /\ calling'[x] = after(x)
  BY <1>2
<1>6. calling' \in [Servers -> Underways \union {NoCall}]
  BY <1>2, <1>4
<1> HIDE DEF after
<1>7. Fit(mission, calls)' /\ View(mission, answered, overrun)'
  BY <1>1, <1>2 DEF Pending, Fit, View, Origin, Holds, Asked
<1>8. ASSUME NEW x \in Servers, calling'[x] # NoCall
      PROVE  Pending(calling[x])'
  <2>1. SUFFICES /\ calling'[x].call <= calls
                 /\ Fit(calling'[x].changed, calls)
                 /\ View(calling'[x].changed, answered' \union calling'[x].answer,
                         overrun' \union calling'[x].overtaken)
                 /\ \A a \in calling'[x].answer : a.call = calling'[x].call
    BY <1>2, PendingNext
  <2>2. /\ calling[x] # NoCall /\ x # s /\ Pending(calling[x])
        /\ calling'[x].call = calling[x].call /\ calling'[x].changed = calling[x].changed
        /\ calling'[x].answer = calling[x].answer
        /\ calling'[x].overtaken = calling[x].overtaken \union {c.call}
    BY <1>4, <1>5, <1>8 DEF MissionInv
  <2> DEFINE told == answered \union calling[x].answer
             lost == overrun \union calling[x].overtaken
             more == answered' \union calling'[x].answer
             over == overrun' \union calling'[x].overtaken
             m == calling[x].changed
  <2>3. View(m, told, lost)
    BY <2>2 DEF Pending
  <2>4. told \subseteq more /\ lost \subseteq over
    BY <2>2, <1>2
  <2>5. \A a \in more : a \in told \/ a.call \in over
    BY <2>2, <1>1, <1>2 DEF Pending
  <2>6. View(m, more, over)
    <3> HIDE DEF told, lost, more, over, m
    <3>1. QED
      BY <2>3, <2>4, <2>5, ViewKept
  <2>7. QED
    BY <2>2, <2>6 DEF Pending
<1>9. Told' \subseteq Told
  <2>1. c.answer \subseteq Told /\ answered \subseteq Told
    BY DEF Told, Save, c
  <2>2. \A x \in Servers : calling'[x] # NoCall => calling'[x].answer \subseteq Told
    BY <1>4, <1>5 DEF Told
  <2>3. QED
    BY <2>1, <2>2, <1>2 DEF Told
<1>10. answered' \subseteq Answers /\ overrun' \subseteq 1 .. MaxCalls
  BY <1>2, <1>3 DEF MissionInv
<1>11. (\A a \in Told : a.call <= calls /\ a.about <= calls)'
  BY <1>2, <1>9 DEF MissionInv
<1>12. (\A a, b \in Told : a.call = b.call => a = b)'
  BY <1>9 DEF MissionInv
<1>13. QED
  BY <1>2, <1>6, <1>7, <1>8, <1>10, <1>11, <1>12 DEF MissionInv

(* Nothing has to hold of the calls that went away. *)
LEMMA DropKept ==
  ASSUME MissionInv,
         mission' = mission, answered' = answered, overrun' = overrun, calls' = calls,
         calling' \in [Servers -> Underways \union {NoCall}],
         \A x \in Servers : calling'[x] # NoCall => calling'[x] = calling[x]
  PROVE  MissionInv'
<1>1. Told' \subseteq Told
  BY DEF Told
<1>2. ASSUME NEW x \in Servers, calling'[x] # NoCall
      PROVE  Pending(calling[x])'
  <2>1. Pending(calling[x])
    BY <1>2 DEF MissionInv
  <2>2. calling'[x] = calling[x]
    BY <1>2
  <2>3. QED
    BY <2>1, <2>2, PendingNext DEF Pending
<1>3. Fit(mission, calls)' /\ View(mission, answered, overrun)'
  BY DEF MissionInv, Fit, View, Origin, Holds, Asked
<1>4. QED
  BY <1>1, <1>2, <1>3 DEF MissionInv

LEMMA MissionStep == MissionInv /\ [MissionNext]_missionVars => MissionInv'
<1> SUFFICES ASSUME MissionInv, [MissionNext]_missionVars PROVE MissionInv'
  OBVIOUS
<1>1. /\ answered \in SUBSET Answers /\ answered \subseteq Told
      /\ Fit(mission, calls) /\ View(mission, answered, overrun) /\ mission \in Missions
      /\ calls \in Nat
      /\ \A a \in answered : a.about <= calls
      /\ \A a, b \in answered : a.call = b.call => a = b
  BY DEF MissionInv, Told, Fit
<1>2. ASSUME NEW s \in Servers, LoadToAdd(s) PROVE MissionInv'
  <2>1. PICK l \in Lists : Load(s, Added(mission, l, calls + 1),
                                Answer(calls + 1, l, NextItemID(mission[l]), calls + 1))
    BY <1>2 DEF LoadToAdd
  <2> DEFINE a == [call |-> calls + 1, list |-> l, id |-> NextItemID(mission[l]), about |-> calls + 1]
  <2>2. calls + 1 \in 1 .. MaxCalls /\ answered' = answered
    BY <1>1, <1>2, <2>1, MissionAssumption DEF Load, LoadToAdd
  <2>3. NextItemID(mission[l]) \in Nat \ {0}
    BY <1>1, NewID DEF Missions, Lists
  <2>4. a \in Answers /\ a.call = calls + 1 /\ a.about = calls + 1
    BY <2>2, <2>3 DEF Answers
  <2>5. Answer(calls + 1, l, NextItemID(mission[l]), calls + 1) = {a}
    BY DEF Answer
  <2>6. Fit(Added(mission, l, calls + 1), calls + 1)
    BY <1>1, <2>2, AddedFit
  <2>7. View(Added(mission, l, calls + 1),
             answered \union Answer(calls + 1, l, NextItemID(mission[l]), calls + 1), overrun)
    BY <1>1, <2>2, AddedView
  <2> HIDE DEF a
  <2>8. calls + 1 <= calls + 1
    BY <1>1
  <2>9. QED
    BY <2>1, <2>2, <2>4, <2>5, <2>6, <2>7, <2>8, LoadKept
<1>3. ASSUME NEW s \in Servers, LoadToUpdate(s) PROVE MissionInv'
  <2>1. PICK status \in Statuses : Load(s, [mission EXCEPT !.status = status], {})
    BY <1>3 DEF LoadToUpdate
  <2>2. answered' = answered /\ answered \union {} = answered
    BY <1>3 DEF LoadToUpdate
  <2>3. /\ Fit([mission EXCEPT !.status = status], calls)
        /\ View([mission EXCEPT !.status = status], answered, overrun)
    BY <1>1, UpdatedView
  <2>4. Fit([mission EXCEPT !.status = status], calls + 1)
    <3>1. calls <= calls + 1 /\ calls + 1 \in Nat
      BY <1>1
    <3>2. QED
      BY <1>1, <2>3, <3>1, FitKept
  <2>5. QED
    <3> DEFINE m == [mission EXCEPT !.status = status]
    <3> HIDE DEF m
    <3>1. {} \in SUBSET Answers
      OBVIOUS
    <3>2. Load(s, m, {}) /\ Fit(m, calls + 1) /\ View(m, answered \union {}, overrun)
      BY <2>1, <2>2, <2>3, <2>4 DEF m
    <3>3. QED
      BY <3>1, <3>2, <2>2, LoadKept
<1>4. ASSUME NEW s \in Servers, LoadToComplete(s) PROVE MissionInv'
  <2>1. PICK o \in answered :
          /\ o.list = "tasks" /\ o.call = o.about
          /\ o.id \in Ids(mission.tasks)
          /\ Load(s, Completed(mission, o.id), Answer(calls + 1, "tasks", o.id, o.about))
    BY <1>4 DEF LoadToComplete
  <2> DEFINE a == [call |-> calls + 1, list |-> "tasks", id |-> o.id, about |-> o.about]
  <2>2. calls + 1 \in 1 .. MaxCalls /\ answered' = answered
    BY <1>1, <1>4, <2>1, MissionAssumption DEF Load, LoadToComplete
  <2>3. o.id \in Nat \ {0} /\ o.about \in 1 .. MaxCalls /\ o.about \in Nat /\ o.about <= calls
    BY <1>1, MissionAssumption DEF Answers
  <2>4. a \in Answers /\ a.call = calls + 1 /\ a.about <= calls + 1
    BY <1>1, <2>2, <2>3 DEF Answers, Lists
  <2>5. Answer(calls + 1, "tasks", o.id, o.about) = {a}
    BY DEF Answer
  <2>6. Fit(Completed(mission, o.id), calls + 1)
    <3>1. calls <= calls + 1 /\ calls + 1 \in Nat
      BY <1>1
    <3>2. Fit(Completed(mission, o.id), calls)
      BY <1>1, <2>1, CompletedFit
    <3>3. QED
      BY <1>1, <3>1, <3>2, FitKept
  <2>7. View(Completed(mission, o.id),
             answered \union Answer(calls + 1, "tasks", o.id, o.about), overrun)
    BY <1>1, <2>1, <2>2, CompletedView
  <2> HIDE DEF a
  <2>8. QED
    BY <2>1, <2>2, <2>4, <2>5, <2>6, <2>7, LoadKept
<1>5. ASSUME NEW s \in Servers, Save(s) PROVE MissionInv'
  BY <1>5, SaveKept
<1>6. ASSUME NEW s \in Servers, Drop(s) PROVE MissionInv'
  <2>1. /\ mission' = mission /\ answered' = answered /\ overrun' = overrun /\ calls' = calls
        /\ calling' \in [Servers -> Underways \union {NoCall}]
        /\ \A x \in Servers : calling'[x] # NoCall => calling'[x] = calling[x]
    BY <1>6 DEF Drop, MissionInv
  <2>2. QED
    BY <2>1, DropKept
<1>7. CASE UNCHANGED missionVars
  <2>1. /\ mission' = mission /\ calling' = calling /\ calls' = calls
        /\ answered' = answered /\ overrun' = overrun
    BY <1>7 DEF missionVars
  <2>2. calling' \in [Servers -> Underways \union {NoCall}]
    BY <2>1 DEF MissionInv
  <2>3. QED
    BY <2>1, <2>2, DropKept
<1>8. QED
  BY <1>2, <1>3, <1>4, <1>5, <1>6, <1>7 DEF MissionNext

LEMMA MissionInvariant == MissionSpec => []MissionInv
BY MissionInitInv, MissionStep, PTL DEF MissionSpec

(* Up to the limit of the ids no two items of a list have the same one,    *)
(* and no call adds two items, however many servers overlap.               *)
THEOREM MissionTypeCorrect == MissionSpec => []MissionTypeOK
<1>1. MissionInv => MissionTypeOK
  <2>1. SUFFICES ASSUME MissionInv PROVE MissionTypeOK
    OBVIOUS
  <2>2. mission \in Missions
    BY <2>1 DEF MissionInv, Fit
  <2>3. mission.status \in Statuses \union {"active"} /\ \A l \in Lists : mission[l] \in Seq(Items)
    BY <2>2 DEF Missions, Lists
  <2>4. QED
    BY <2>1, <2>3 DEF MissionInv, Fit, MissionTypeOK, Answers
<1>2. QED
  BY <1>1, MissionInvariant, PTL

(* What a call reported of the mission stays so, crashes included, unless  *)
(* a call that had read the file before it replaced the file after it.     *)
THEOREM MissionAnswersHold == MissionSpec => []AnswersHold
<1>1. MissionInv => AnswersHold
  BY DEF MissionInv, View, Holds, AnswersHold
<1>2. QED
  BY <1>1, MissionInvariant, PTL

(* A task is done only if a client had it completed, unless the task of    *)
(* that id was lost to an overrun or the number is beyond the limit.       *)
THEOREM MissionDoneAsAsked == MissionSpec => []DoneAsAsked
<1>1. MissionInv => DoneAsAsked
  BY DEF MissionInv, View, Asked, DoneAsAsked
<1>2. QED
  BY <1>1, MissionInvariant, PTL
=============================================================================
