------------------------------ MODULE PolicyFile ------------------------------
(***************************************************************************)
(* The policy file and the cache of it that a process keeps between two    *)
(* decisions (policy.LoadConfig), while policy-init, setup or an editor    *)
(* change the file.                                                        *)
(*                                                                         *)
(* A decision asks for time and size of the file and, when they are not    *)
(* those it has in the cache, reads it: between the two the file may       *)
(* change. Time is that of the file system, in steps of its resolution.    *)
(* The processes of the program decide one thing after the other, each     *)
(* with a cache of its own.                                                *)
(***************************************************************************)
EXTENDS Policy

CONSTANTS
  Readers,     (* processes that decide: listener, MCP server, commands    *)
  Policies,    (* contents of the file, as sequences of rules              *)
  SizeOf,      (* [Policies -> their size]                                 *)
  Questions,   (* requests                                                 *)
  MaxTicks,    (* bound on the time                                        *)
  MaxEdits,    (* bound on the changes of the file                         *)
  Missing, Torn

ASSUME PolicyAssumption ==
  /\ SizeOf \in [Policies -> Nat \ {0}]
  /\ {Missing, Torn} \intersect (Policies \union {Devops}) = {} /\ Missing # Torn
  /\ MaxTicks \in Nat /\ MaxEdits \in Nat

VARIABLES
  file,      \* what is in the policy file: a policy, Missing or Torn
  stamp,     \* its [time, size]
  ticks,     \* the time
  edits,     \* changes so far
  cached,    \* [Readers -> [stamp, rules], the stamp of size -1 for no file]
  deciding,  \* [Readers -> the decision between Stat and read, or None]
  (* history *)
  decided,   \* [Readers -> the last decision and what was in the file meanwhile]
  clash      \* the file has had the stamp that a cache has of other contents

policyVars == <<file, stamp, ticks, edits, cached, deciding, decided, clash>>

NoFile == [time |-> 0, size |-> -1]
Nothing == [stamp |-> [time |-> 0, size |-> 0], rules |-> <<>>]
Idle == [asked |-> "nothing"]

Contents == Policies \union {Missing, Torn}
Stamps == [time : 0 .. MaxTicks, size : {-1, 0} \union {SizeOf[c] : c \in Policies}]

(* Nothing that could not be read is kept, and no file is remembered as    *)
(* the preset.                                                             *)
PolicyTypeOK ==
  /\ file \in Contents /\ stamp \in Stamps
  /\ ticks \in 0 .. MaxTicks /\ edits \in 0 .. MaxEdits
  /\ \A p \in Readers :
       /\ cached[p] \in [stamp : Stamps, rules : Policies \union {Devops, <<>>}]
       /\ cached[p] # Nothing => cached[p].rules \in Policies \union {Devops}
       /\ cached[p].stamp = NoFile => cached[p].rules = Devops
       /\ deciding[p] = Idle \/ deciding[p].seen \subseteq Contents
  /\ clash \in BOOLEAN

PolicyInit ==
  /\ file = Missing /\ stamp = NoFile
  /\ ticks = 0 /\ edits = 0
  /\ cached = [p \in Readers |-> Nothing]
  /\ deciding = [p \in Readers |-> Idle]
  /\ decided = [p \in Readers |-> Idle]
  /\ clash = FALSE
-----------------------------------------------------------------------------
(* Changes of the file *)

Changed(content, size) ==
  /\ edits < MaxEdits
  /\ edits' = edits + 1
  /\ file' = content
  /\ stamp' = [time |-> ticks, size |-> size]
  /\ clash' = (clash \/ \E p \in Readers : /\ cached[p] # Nothing /\ cached[p].stamp = stamp'
                                            /\ cached[p].rules # content)
  /\ deciding' = [p \in Readers |-> IF deciding[p] = Idle THEN Idle
                                    ELSE [deciding[p] EXCEPT !.seen = @ \union {content}]]
  /\ UNCHANGED <<ticks, cached, decided>>

(* os.WriteFile empties the file and fills it; it may stay empty when the  *)
(* writer dies. Editors also replace it in one step, or remove it.         *)
Truncate == Changed(Torn, 0)
WritePolicy(c) == Changed(c, SizeOf[c])
RemovePolicy ==
  /\ edits < MaxEdits /\ file # Missing
  /\ edits' = edits + 1
  /\ file' = Missing /\ stamp' = NoFile
  /\ deciding' = [p \in Readers |-> IF deciding[p] = Idle THEN Idle
                                    ELSE [deciding[p] EXCEPT !.seen = @ \union {Missing}]]
  /\ UNCHANGED <<ticks, cached, decided, clash>>

Tick ==
  /\ ticks < MaxTicks
  /\ ticks' = ticks + 1
  /\ UNCHANGED <<file, stamp, edits, cached, deciding, decided, clash>>
-----------------------------------------------------------------------------
(* Decisions *)

Decide(p, r, seen, verdict) ==
  /\ decided' = [decided EXCEPT ![p] = [asked |-> r, seen |-> seen, verdict |-> verdict,
                                        clash |-> clash]]
  /\ deciding' = [deciding EXCEPT ![p] = Idle]
  /\ UNCHANGED <<file, stamp, ticks, edits, clash>>

(* Mutant of Hit: the time alone says whether the file has changed.        *)
TimeHit(p) == cached[p] # Nothing /\ cached[p].stamp.time = stamp.time

Hit(p) == cached[p] # Nothing /\ cached[p].stamp = stamp

(* Time and size are those of the cache.                                   *)
DecideFromCache(p, r) ==
  /\ deciding[p] = Idle /\ Hit(p)
  /\ Decide(p, r, {file}, Evaluate(cached[p].rules, r))
  /\ UNCHANGED cached

(* There is no file: the preset, remembered as such.                       *)
DecideWithoutFile(p, r) ==
  /\ deciding[p] = Idle /\ ~Hit(p) /\ file = Missing
  /\ cached' = [cached EXCEPT ![p] = [stamp |-> NoFile, rules |-> Devops]]
  /\ Decide(p, r, {file}, Evaluate(Devops, r))

Stat(p, r) ==
  /\ deciding[p] = Idle /\ ~Hit(p) /\ file # Missing
  /\ deciding' = [deciding EXCEPT ![p] = [asked |-> r, stamp |-> stamp, seen |-> {file}]]
  /\ UNCHANGED <<file, stamp, ticks, edits, cached, decided, clash>>

(* Mutant of Read: an unreadable file is remembered as one without rules.  *)
KeepingRead(p) ==
  /\ deciding[p] # Idle
  /\ LET rules == IF file \in Policies THEN file ELSE <<>>
     IN  /\ cached' = [cached EXCEPT ![p] = [stamp |-> deciding[p].stamp, rules |-> rules]]
         /\ Decide(p, deciding[p].asked, deciding[p].seen, Evaluate(rules, deciding[p].asked))

(* A file that cannot be read or parsed leaves the decision to the         *)
(* defaults, and the cache as it is.                                       *)
Read(p) ==
  /\ deciding[p] # Idle
  /\ IF file \in Policies
     THEN /\ cached' = [cached EXCEPT ![p] = [stamp |-> deciding[p].stamp, rules |-> file]]
          /\ Decide(p, deciding[p].asked, deciding[p].seen, Evaluate(file, deciding[p].asked))
     ELSE /\ Decide(p, deciding[p].asked, deciding[p].seen, BuiltIn(deciding[p].asked))
          /\ UNCHANGED cached

PolicyNext ==
  \/ Truncate \/ RemovePolicy \/ Tick
  \/ \E c \in Policies : WritePolicy(c)
  \/ \E p \in Readers :
       \/ Read(p)
       \/ \E r \in Questions : DecideFromCache(p, r) \/ DecideWithoutFile(p, r) \/ Stat(p, r)

PolicySpec == PolicyInit /\ [][PolicyNext]_policyVars
-----------------------------------------------------------------------------
(* Properties *)

(* What a file with this content says of a request; a file that cannot be  *)
(* read leaves it to the defaults.                                         *)
Says(content, r) ==
  CASE content = Missing -> Evaluate(Devops, r)
    [] content = Torn -> BuiltIn(r)
    [] OTHER -> Evaluate(content, r)

(* A decision is that of a policy that was in the file while it was made:  *)
(* an edit is in force for the next decision of every process, however     *)
(* long it has been running. Except when the file has the time and size    *)
(* that a process remembers of other contents, and a file that is removed  *)
(* while it is being read leaves the decision to the defaults.             *)
DecisionIsCurrent ==
  \A p \in Readers : decided[p] # Idle /\ ~decided[p].clash =>
    LET r == decided[p].asked
    IN  \/ \E c \in decided[p].seen : decided[p].verdict = Says(c, r)
        \/ Missing \in decided[p].seen /\ decided[p].verdict = BuiltIn(r)
=============================================================================
