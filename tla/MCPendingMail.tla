---------------------------- MODULE MCPendingMail -----------------------------
(***************************************************************************)
(* Bounds for model checking PendingMail.                                  *)
(***************************************************************************)
EXTENDS PendingMail, TLC

(* Messages are written while the listener waits; those written while it   *)
(* works on a batch would be in the next one all the same.                 *)
Calm == batch # <<>> => queue = <<>>

Chats == Permutations(Targets)
=============================================================================
