---------------------------- MODULE ApprovalGate ----------------------------
(***************************************************************************)
(* What the workflow runtime promises about approvals, with no bundle, no  *)
(* file and no link in sight.                                              *)
(*                                                                         *)
(* A gate (workflow, step) is asked for when some recorded run shows that  *)
(* the step needs approval; only a gate that was asked for can be granted; *)
(* a run is admitted to perform a gate's command only when the rule for    *)
(* the gate, at that moment, is "allow", or is "require_approval" and the  *)
(* gate has been granted.                                                  *)
(*                                                                         *)
(* The rule of a gate may change at any time: policy files are edited      *)
(* while workflows run. A change does not recall a run already admitted.   *)
(***************************************************************************)
CONSTANTS
  Runs,   (* who performs commands                  *)
  Gates,  (* the (workflow, step) pairs             *)
  NoGate  (* the value for "performing nothing"     *)

VARIABLES
  rule,      (* [Gates -> Rules]: what policy and declaration say now *)
  asked,     (* gates some recorded run left waiting for approval     *)
  granted,   (* gates somebody has approved                           *)
  admitted   (* [Runs -> Gates or NoGate]: commands under way         *)

gateVars == <<rule, asked, granted, admitted>>

Rules == {"allow", "require_approval", "deny"}

(* Who may perform gate g at this moment. *)
Admissible(g) ==
  \/ rule[g] = "allow"
  \/ rule[g] = "require_approval" /\ g \in granted

Init ==
  /\ rule \in [Gates -> Rules]
  /\ asked = {}
  /\ granted = {}
  /\ admitted = [r \in Runs |-> NoGate]

(* Policy is edited, or the step's need for approval changes with it. *)
ChangeRules ==
  /\ rule' \in [Gates -> Rules]
  /\ UNCHANGED <<asked, granted, admitted>>

(* A finished run is recorded; the gates it left waiting become askable. *)
Ask ==
  /\ asked' \in SUBSET Gates
  /\ asked \subseteq asked'
  /\ UNCHANGED <<rule, granted, admitted>>

Grant(g) ==
  /\ g \in asked
  /\ granted' = granted \union {g}
  /\ UNCHANGED <<rule, asked, admitted>>

Admit(r, g) ==
  /\ admitted[r] = NoGate
  /\ Admissible(g)
  /\ admitted' = [admitted EXCEPT ![r] = g]
  /\ UNCHANGED <<rule, asked, granted>>

(* The command ends, or the process that runs it does. *)
Leave(r) ==
  /\ admitted' = [admitted EXCEPT ![r] = NoGate]
  /\ UNCHANGED <<rule, asked, granted>>

Next ==
  \/ ChangeRules
  \/ Ask
  \/ \E g \in Gates : Grant(g)
  \/ \E r \in Runs : Leave(r) \/ \E g \in Gates : Admit(r, g)

Spec == Init /\ [][Next]_gateVars
=============================================================================
