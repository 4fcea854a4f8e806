----------------------------- MODULE EvidenceStore ----------------------------
(***************************************************************************)
(* The evidence store (internal/evidence) as the self-heal and reconcile   *)
(* chains use it: Store writes a record to a file of its own, Load reads   *)
(* one back by its path. Nothing changes or removes a record, and a client *)
(* may load any that is there. Records of the same contents made at        *)
(* different times are one here.                                           *)
(***************************************************************************)
EXTENDS Integers, FiniteSets

CONSTANTS
  Operators,    (* what approved_by may say                                *)
  Kinds,        (* kinds of records                                        *)
  MaxOf,        (* bound: [Kinds -> how many records of each]              *)
  None

ASSUME EvidenceAssumption ==
  /\ MaxOf \in [Kinds -> Nat]
  /\ None \notin Operators

VARIABLE evidence

Approvals == Operators \union {None}

(* What a call that loads a record of this kind may be given; it refuses   *)
(* a record of another.                                                    *)
Stored(kind) == {x \in evidence : x.kind = kind}

Room(kind) == Cardinality(Stored(kind)) < MaxOf[kind]

Store(record) == Room(record.kind) /\ evidence' = evidence \union {record}
=============================================================================
