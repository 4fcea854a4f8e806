--------------------------- MODULE PolicyFile_proofs --------------------------
(***************************************************************************)
(* Theorems of PolicyFile.                                                 *)
(***************************************************************************)
EXTENDS PolicyFile, TLAPS

Caches == [stamp : Stamps, rules : Policies \union {Devops, <<>>}]
Pending == [asked : Questions, stamp : Stamps, seen : SUBSET Contents]

(* What is remembered, and the decisions under way. *)
PolicyTypes ==
  /\ PolicyTypeOK
  /\ cached \in [Readers -> Caches]
  /\ deciding \in [Readers -> Pending \union {Idle}]
  /\ DOMAIN decided = Readers
  /\ stamp = NoFile <=> file = Missing

(* A decision has seen all that was in the file since it asked for its     *)
(* stamp, of a file that was there.                                        *)
SeenAll ==
  \A p \in Readers : deciding[p] # Idle => file \in deciding[p].seen /\ deciding[p].stamp # NoFile

(* A cache with the stamp of the file has its contents. *)
CacheTrue ==
  clash \/ \A p \in Readers : cached[p] # Nothing /\ cached[p].stamp = stamp =>
             cached[p].rules = IF file = Missing THEN Devops ELSE file

PolicyInv == PolicyTypes /\ SeenAll /\ CacheTrue /\ DecisionIsCurrent
-----------------------------------------------------------------------------
LEMMA Distinct ==
  /\ Missing # Torn /\ Missing \notin Policies /\ Torn \notin Policies
  /\ Missing # Devops /\ Torn # Devops
  BY PolicyAssumption

(* A decision under way is one, and a file that is there has a stamp. *)
LEMMA Shapes ==
  /\ \A x \in Pending : x # Idle
  /\ \A t \in 0 .. MaxTicks, c \in Policies :
       /\ [time |-> t, size |-> 0] \in Stamps /\ [time |-> t, size |-> SizeOf[c]] \in Stamps
       /\ [time |-> t, size |-> 0] # NoFile /\ [time |-> t, size |-> SizeOf[c]] # NoFile
  /\ NoFile \in Stamps
<1>1. ASSUME NEW x \in Pending PROVE x # Idle
  <2>1. "seen" \in DOMAIN x /\ "seen" \notin DOMAIN Idle
    BY DEF Pending, Idle
  <2>2. QED
    BY <2>1
<1>2. ASSUME NEW t \in 0 .. MaxTicks, NEW c \in Policies
      PROVE  /\ [time |-> t, size |-> 0] \in Stamps /\ [time |-> t, size |-> SizeOf[c]] \in Stamps
             /\ [time |-> t, size |-> 0] # NoFile /\ [time |-> t, size |-> SizeOf[c]] # NoFile
  <2>1. SizeOf[c] \in Nat
    BY PolicyAssumption
  <2>2. QED
    BY <2>1 DEF Stamps, NoFile
<1>3. NoFile \in Stamps
  BY PolicyAssumption DEF Stamps, NoFile
<1>4. QED
  BY <1>1, <1>2, <1>3

LEMMA InitPolicy == PolicyInit => PolicyInv
<1> SUFFICES ASSUME PolicyInit PROVE PolicyInv
  OBVIOUS
<1>1. Nothing \in Caches /\ Nothing.stamp # NoFile
  BY PolicyAssumption DEF Nothing, Caches, Stamps, NoFile
<1>2. /\ file = Missing /\ stamp = NoFile /\ ticks = 0 /\ edits = 0 /\ clash = FALSE
      /\ \A p \in Readers : cached[p] = Nothing /\ deciding[p] = Idle /\ decided[p] = Idle
      /\ cached \in [Readers -> Caches] /\ deciding \in [Readers -> Pending \union {Idle}]
      /\ DOMAIN decided = Readers
  BY <1>1 DEF PolicyInit
<1>3. PolicyTypeOK
  <2>1. file \in Contents /\ stamp \in Stamps /\ clash \in BOOLEAN
    BY <1>2, Shapes DEF Contents
  <2>2. ticks \in 0 .. MaxTicks /\ edits \in 0 .. MaxEdits
    BY <1>2, PolicyAssumption
  <2>3. \A p \in Readers : cached[p] \in [stamp : Stamps, rules : Policies \union {Devops, <<>>}]
    BY <1>2 DEF Caches
  <2>4. QED
    BY <1>1, <1>2, <2>1, <2>2, <2>3 DEF PolicyTypeOK
<1>4. QED
  BY <1>2, <1>3 DEF PolicyInv, PolicyTypes, SeenAll, CacheTrue, DecisionIsCurrent

(* What an edit does, in place or not. *)
LEMMA EditStep ==
  ASSUME PolicyInv, NEW content \in Contents, NEW s \in Stamps, edits < MaxEdits,
         edits' = edits + 1, file' = content, stamp' = s, s = NoFile <=> content = Missing,
         clash' \in BOOLEAN, clash => clash',
         clash' \/ \A p \in Readers : cached[p] # Nothing /\ cached[p].stamp = s =>
                     cached[p].rules = IF content = Missing THEN Devops ELSE content,
         deciding' = [p \in Readers |-> IF deciding[p] = Idle THEN Idle
                                        ELSE [deciding[p] EXCEPT !.seen = @ \union {content}]],
         UNCHANGED <<ticks, cached, decided>>
  PROVE  PolicyInv'
<1> DEFINE d(p) == [deciding[p] EXCEPT !.seen = @ \union {content}]
<1>1. ASSUME NEW p \in Readers, deciding[p] # Idle
      PROVE  d(p) \in Pending /\ content \in d(p).seen /\ d(p).stamp = deciding[p].stamp
  <2>1. deciding[p] \in Pending
    BY <1>1 DEF PolicyInv, PolicyTypes
  <2>2. QED
    BY <2>1 DEF Pending
<1>2. \A p \in Readers : deciding'[p] = IF deciding[p] = Idle THEN Idle ELSE d(p)
  OBVIOUS
<1> HIDE DEF d
<1>3. deciding' \in [Readers -> Pending \union {Idle}]
  BY <1>1, <1>2
<1>4. \A p \in Readers : deciding'[p] = Idle \/ deciding'[p].seen \subseteq Contents
  BY <1>3 DEF Pending
<1>5. edits' \in 0 .. MaxEdits
  BY PolicyAssumption DEF PolicyInv, PolicyTypes, PolicyTypeOK
<1>6. PolicyTypes'
  BY <1>3, <1>4, <1>5 DEF PolicyInv, PolicyTypes, PolicyTypeOK
<1>7. SeenAll'
  BY <1>1, <1>2 DEF PolicyInv, SeenAll
<1>8. CacheTrue'
  BY DEF CacheTrue
<1>9. DecisionIsCurrent'
  BY DEF PolicyInv, DecisionIsCurrent
<1>10. QED
  BY <1>6, <1>7, <1>8, <1>9 DEF PolicyInv

LEMMA ChangedStep ==
  ASSUME PolicyInv, NEW content \in Policies \union {Torn}, NEW size, Changed(content, size),
         content = Torn => size = 0, content \in Policies => size = SizeOf[content]
  PROVE  PolicyInv'
<1> DEFINE s == [time |-> ticks, size |-> size]
<1>1. content \in Contents /\ content # Missing
  BY Distinct DEF Contents
<1>2. s \in Stamps /\ s # NoFile
  <2>1. ticks \in 0 .. MaxTicks
    BY DEF PolicyInv, PolicyTypes, PolicyTypeOK
  <2>2. CASE content = Torn
    <3>1. size = 0
      BY <2>2
    <3>2. /\ s = [time |-> ticks, size |-> 0]
      BY <3>1
    <3>3. [time |-> ticks, size |-> 0] \in Stamps /\ [time |-> ticks, size |-> 0] # NoFile
      BY <2>1 DEF Stamps, NoFile
    <3>4. QED
      BY <3>2, <3>3
  <2>3. CASE content \in Policies
    BY <2>1, <2>3, Shapes
  <2>4. QED
    BY <2>2, <2>3
<1>3. /\ clash' = (clash \/ \E p \in Readers : cached[p] # Nothing /\ cached[p].stamp = s
                                               /\ cached[p].rules # content)
      /\ edits < MaxEdits /\ edits' = edits + 1 /\ file' = content /\ stamp' = s
      /\ deciding' = [p \in Readers |-> IF deciding[p] = Idle THEN Idle
                                        ELSE [deciding[p] EXCEPT !.seen = @ \union {content}]]
      /\ UNCHANGED <<ticks, cached, decided>>
  BY DEF Changed
<1> HIDE DEF s
<1>4. /\ clash' \in BOOLEAN /\ clash => clash'
      /\ clash' \/ \A p \in Readers : cached[p] # Nothing /\ cached[p].stamp = s =>
                     cached[p].rules = IF content = Missing THEN Devops ELSE content
  BY <1>1, <1>3
<1>5. s = NoFile <=> content = Missing
  BY <1>1, <1>2
<1>6. QED
  BY <1>1, <1>2, <1>3, <1>4, <1>5, EditStep

LEMMA RemoveStep == ASSUME PolicyInv, RemovePolicy PROVE PolicyInv'
<1>1. /\ edits < MaxEdits /\ edits' = edits + 1 /\ file' = Missing /\ stamp' = NoFile
      /\ deciding' = [p \in Readers |-> IF deciding[p] = Idle THEN Idle
                                        ELSE [deciding[p] EXCEPT !.seen = @ \union {Missing}]]
      /\ UNCHANGED <<ticks, cached, decided>> /\ clash' = clash
  BY DEF RemovePolicy
<1>2. \A p \in Readers : cached[p].stamp = NoFile => cached[p].rules = Devops
  BY DEF PolicyInv, PolicyTypes, PolicyTypeOK
<1>3. clash' \in BOOLEAN /\ Missing \in Contents /\ NoFile \in Stamps
  BY <1>1, Shapes DEF PolicyInv, PolicyTypes, PolicyTypeOK, Contents
<1>4. QED
  BY <1>1, <1>2, <1>3, EditStep

(* A decision that is right, with a cache that is. *)
LEMMA DecideStep ==
  ASSUME PolicyInv, NEW p \in Readers, NEW r, NEW seen, NEW verdict, Decide(p, r, seen, verdict),
         \/ clash
         \/ \E c \in seen : verdict = Says(c, r)
         \/ Missing \in seen /\ verdict = BuiltIn(r),
         NEW c \in Caches, cached' = [cached EXCEPT ![p] = c],
         c # Nothing => c.rules \in Policies \union {Devops},
         c.stamp = NoFile => c.rules = Devops,
         clash \/ (c # Nothing /\ c.stamp = stamp => c.rules = IF file = Missing THEN Devops ELSE file)
  PROVE  PolicyInv'
<1>1. /\ cached \in [Readers -> Caches] /\ deciding \in [Readers -> Pending \union {Idle}]
      /\ DOMAIN decided = Readers
  BY DEF PolicyInv, PolicyTypes
<1>2. /\ deciding' = [deciding EXCEPT ![p] = Idle]
      /\ UNCHANGED <<file, stamp, ticks, edits, clash>>
  BY DEF Decide
<1>3. /\ cached' \in [Readers -> Caches] /\ cached'[p] = c
      /\ \A q \in Readers : q # p => cached'[q] = cached[q]
      /\ deciding' \in [Readers -> Pending \union {Idle}] /\ deciding'[p] = Idle
      /\ \A q \in Readers : q # p => deciding'[q] = deciding[q]
  BY <1>1, <1>2
<1>4. PolicyTypeOK'
  <2>1. ASSUME NEW q \in Readers
        PROVE  /\ cached'[q] \in [stamp : Stamps, rules : Policies \union {Devops, <<>>}]
               /\ cached'[q] # Nothing => cached'[q].rules \in Policies \union {Devops}
               /\ cached'[q].stamp = NoFile => cached'[q].rules = Devops
               /\ deciding'[q] = Idle \/ deciding'[q].seen \subseteq Contents
    BY <1>3 DEF PolicyInv, PolicyTypes, PolicyTypeOK, Caches
  <2>2. QED
    BY <1>2, <2>1 DEF PolicyInv, PolicyTypes, PolicyTypeOK
<1>5. PolicyTypes'
  BY <1>2, <1>3, <1>4 DEF PolicyInv, PolicyTypes, Decide
<1>6. SeenAll'
  BY <1>2, <1>3 DEF PolicyInv, SeenAll
<1>7. CacheTrue'
  BY <1>2, <1>3 DEF PolicyInv, CacheTrue
<1>8. DecisionIsCurrent'
  <2> DEFINE d == [asked |-> r, seen |-> seen, verdict |-> verdict, clash |-> clash]
  <2>1. decided'[p] = d /\ \A q \in Readers : q # p => decided'[q] = decided[q]
    BY <1>1 DEF Decide
  <2>2. d.asked = r /\ d.seen = seen /\ d.verdict = verdict /\ d.clash = clash
    OBVIOUS
  <2> HIDE DEF d
  <2>3. QED
    BY <2>1, <2>2 DEF PolicyInv, DecisionIsCurrent
<1>9. QED
  BY <1>5, <1>6, <1>7, <1>8 DEF PolicyInv

LEMMA StepPolicy == PolicyInv /\ [PolicyNext]_policyVars => PolicyInv'
<1> SUFFICES ASSUME PolicyInv, [PolicyNext]_policyVars PROVE PolicyInv'
  OBVIOUS
<1>0. /\ cached \in [Readers -> Caches] /\ deciding \in [Readers -> Pending \union {Idle}]
      /\ file \in Contents /\ stamp \in Stamps /\ (stamp = NoFile <=> file = Missing)
      /\ \A p \in Readers : /\ cached[p] # Nothing => cached[p].rules \in Policies \union {Devops}
                            /\ cached[p].stamp = NoFile => cached[p].rules = Devops
                            /\ clash \/ (cached[p] # Nothing /\ cached[p].stamp = stamp =>
                                 cached[p].rules = IF file = Missing THEN Devops ELSE file)
  BY DEF PolicyInv, PolicyTypes, PolicyTypeOK, CacheTrue
<1>1. CASE Truncate
  BY <1>1, ChangedStep, Distinct DEF Truncate
<1>2. CASE RemovePolicy
  BY <1>2, RemoveStep
<1>3. CASE Tick
  <2>1. ticks' \in 0 .. MaxTicks
    BY <1>3, PolicyAssumption DEF Tick, PolicyInv, PolicyTypes, PolicyTypeOK
  <2>2. PolicyTypes'
    BY <1>3, <2>1 DEF Tick, PolicyInv, PolicyTypes, PolicyTypeOK
  <2>3. SeenAll' /\ CacheTrue' /\ DecisionIsCurrent'
    BY <1>3 DEF Tick, PolicyInv, SeenAll, CacheTrue, DecisionIsCurrent
  <2>4. QED
    BY <2>2, <2>3 DEF PolicyInv
<1>4. ASSUME NEW c \in Policies, WritePolicy(c) PROVE PolicyInv'
  BY <1>4, ChangedStep, Distinct DEF WritePolicy
<1>5. ASSUME NEW p \in Readers, Read(p) PROVE PolicyInv'
  <2>1. /\ deciding[p] \in Pending /\ file \in deciding[p].seen /\ deciding[p].stamp # NoFile
        /\ deciding[p].stamp \in Stamps
    BY <1>0, <1>5 DEF Read, PolicyInv, SeenAll, Pending
  <2> DEFINE r == deciding[p].asked
             seen == deciding[p].seen
  <2>2. CASE file \in Policies
    <3> DEFINE c == [stamp |-> deciding[p].stamp, rules |-> file]
    <3>1. cached' = [cached EXCEPT ![p] = c] /\ Decide(p, r, seen, Evaluate(file, r))
      BY <1>5, <2>2 DEF Read
    <3>2. Evaluate(file, r) = Says(file, r)
      BY <2>2, Distinct DEF Says
    <3>3. c \in Caches /\ c.stamp = deciding[p].stamp /\ c.rules = file
      BY <2>1, <2>2 DEF Caches
    <3> HIDE DEF c, r, seen
    <3>4. \E x \in seen : Evaluate(file, r) = Says(x, r)
      BY <2>1, <3>2 DEF seen
    <3>5. file # Missing
      BY <2>2, Distinct
    <3>6. QED
      BY <2>1, <2>2, <3>1, <3>3, <3>4, <3>5, DecideStep
  <2>3. CASE file \notin Policies
    <3>1. cached' = cached /\ Decide(p, r, seen, BuiltIn(r))
      BY <1>5, <2>3 DEF Read
    <3>2. file = Missing \/ file = Torn
      BY <1>0, <2>3 DEF Contents
    <3>3. Says(Torn, r) = BuiltIn(r)
      BY Distinct DEF Says
    <3>4. \/ \E x \in seen : BuiltIn(r) = Says(x, r)
          \/ Missing \in seen /\ BuiltIn(r) = BuiltIn(r)
      BY <2>1, <3>2, <3>3
    <3>5. cached' = [cached EXCEPT ![p] = cached[p]] /\ cached[p] \in Caches
      BY <1>0, <3>1
    <3> HIDE DEF r, seen
    <3>6. QED
      BY <1>0, <3>1, <3>4, <3>5, DecideStep
  <2>4. QED
    BY <2>2, <2>3
<1>6. ASSUME NEW p \in Readers, NEW r \in Questions, DecideFromCache(p, r) PROVE PolicyInv'
  <2>1. /\ cached[p] # Nothing /\ cached[p].stamp = stamp /\ cached' = cached
        /\ Decide(p, r, {file}, Evaluate(cached[p].rules, r))
    BY <1>6 DEF DecideFromCache, Hit
  <2>2. clash \/ Evaluate(cached[p].rules, r) = Says(file, r)
    <3>1. CASE file = Missing
      BY <1>0, <2>1, <3>1, Distinct DEF Says
    <3>2. CASE file # Missing
      BY <1>0, <2>1, <3>2, Distinct DEF Says
    <3>3. QED
      BY <3>1, <3>2
  <2>3. cached' = [cached EXCEPT ![p] = cached[p]] /\ cached[p] \in Caches
    BY <1>0, <2>1
  <2>4. clash \/ \E c \in {file} : Evaluate(cached[p].rules, r) = Says(c, r)
    BY <2>2
  <2>5. QED
    BY <1>0, <2>1, <2>3, <2>4, DecideStep
<1>7. ASSUME NEW p \in Readers, NEW r \in Questions, DecideWithoutFile(p, r) PROVE PolicyInv'
  <2> DEFINE c == [stamp |-> NoFile, rules |-> Devops]
  <2>1. /\ file = Missing /\ cached' = [cached EXCEPT ![p] = c]
        /\ Decide(p, r, {file}, Evaluate(Devops, r))
    BY <1>7 DEF DecideWithoutFile
  <2>2. Evaluate(Devops, r) = Says(file, r)
    BY <2>1, Distinct DEF Says
  <2>3. c \in Caches /\ c.stamp = NoFile /\ c.rules = Devops
    BY Shapes DEF Caches
  <2> HIDE DEF c
  <2>4. \E x \in {file} : Evaluate(Devops, r) = Says(x, r)
    BY <2>2
  <2>5. QED
    BY <2>1, <2>3, <2>4, DecideStep
<1>8. ASSUME NEW p \in Readers, NEW r \in Questions, Stat(p, r) PROVE PolicyInv'
  <2> DEFINE x == [asked |-> r, stamp |-> stamp, seen |-> {file}]
  <2>1. x \in Pending /\ file \in x.seen /\ x.stamp # NoFile /\ x.seen \subseteq Contents
    BY <1>0, <1>8 DEF Stat, Pending
  <2>2. deciding' = [deciding EXCEPT ![p] = x] /\ UNCHANGED <<file, stamp, ticks, edits, cached, decided, clash>>
    BY <1>8 DEF Stat
  <2> HIDE DEF x
  <2>3. PolicyTypes'
    BY <1>0, <2>1, <2>2 DEF PolicyInv, PolicyTypes, PolicyTypeOK
  <2>4. SeenAll' /\ CacheTrue' /\ DecisionIsCurrent'
    BY <1>0, <2>1, <2>2 DEF PolicyInv, SeenAll, CacheTrue, DecisionIsCurrent
  <2>5. QED
    BY <2>3, <2>4 DEF PolicyInv
<1>9. CASE UNCHANGED policyVars
  BY <1>9 DEF policyVars, PolicyInv, PolicyTypes, PolicyTypeOK, SeenAll, CacheTrue, DecisionIsCurrent
<1>10. QED
  BY <1>1, <1>2, <1>3, <1>4, <1>5, <1>6, <1>7, <1>8, <1>9 DEF PolicyNext

LEMMA PolicyInvariant == PolicySpec => []PolicyInv
  BY InitPolicy, StepPolicy, PTL DEF PolicySpec

(* No process remembers what it could not read as a policy, and a file     *)
(* that is not there is remembered as the preset (LoadConfig).             *)
THEOREM PolicyTypeCorrect == PolicySpec => []PolicyTypeOK
<1>1. PolicyInv => PolicyTypeOK
  BY DEF PolicyInv, PolicyTypes
<1>2. QED
  BY <1>1, PolicyInvariant, PTL

(* For any policies, questions and processes: a decision is that of a      *)
(* policy that was in the file while it was made, unless the file came to  *)
(* have the time and size that a process remembers of other contents.      *)
THEOREM PolicyDecisionIsCurrent == PolicySpec => []DecisionIsCurrent
<1>1. PolicyInv => DecisionIsCurrent
  BY DEF PolicyInv
<1>2. QED
  BY <1>1, PolicyInvariant, PTL
=============================================================================
