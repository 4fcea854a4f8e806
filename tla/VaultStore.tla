------------------------------ MODULE VaultStore ------------------------------
(***************************************************************************)
(* The guard vault (internal/guardvault): a secret's entry file, the       *)
(* master key that the local backend seals it with, and the password       *)
(* manager that the other backends keep it in. Commands, the local page of *)
(* guard and the chat listener share them with no lock, every file is      *)
(* written in place, and using a secret rewrites its entry to note the     *)
(* time.                                                                   *)
(*                                                                         *)
(* One handle. A secret, and a key, is the number of the call it came      *)
(* with. The key is in its file; MESHCLAW_GUARD_VAULT_KEY is not set.      *)
(* What only fails before it changes anything (arguments, a password       *)
(* manager without the secret) and what only reads is left out.            *)
(***************************************************************************)
EXTENDS Integers

CONSTANTS
  Users,                  (* processes that call the vault                 *)
  Backends,               (* of "local", "pass" and "link"                 *)
  MaxVaultCalls,          (* bound on the calls                            *)
  Absent, Empty, Garbled, (* a file that is not there, or holds no JSON    *)
  AtRest                  (* a process with no call                        *)

VaultCalls == 1 .. MaxVaultCalls

(* of: the put that it describes, by its fingerprint. For the local        *)
(* backend it holds that secret, sealed under the key.                     *)
Entries == [of : VaultCalls, backend : Backends, key : {0} \union VaultCalls]

Steps == {"init", "new key", "key opened", "seal", "store", "open key", "touch", "write", "opened", "remove"}

(* A call under way, and the entry it is to write, or read.                *)
Requests == [call : VaultCalls, kind : {"put", "use", "delete"}, step : Steps,
             entry : Entries, overtaken : BOOLEAN, gone : BOOLEAN, crossed : BOOLEAN]

Unreadable == {Absent, Empty, Garbled}

ASSUME VaultAssumption ==
  /\ MaxVaultCalls \in Nat
  /\ Backends \subseteq {"local", "pass", "link"}

(* What stands for no file, no entry and no call is none.                  *)
ASSUME VaultValues ==
  /\ Absent # Empty /\ Absent # Garbled /\ Empty # Garbled
  /\ Unreadable \intersect Entries = {}
  /\ Absent \notin VaultCalls /\ Empty \notin VaultCalls
  /\ AtRest \notin Requests

VARIABLES
  entry,       \* the entry file
  keyFile,     \* master.key
  password,    \* the secret in the password manager, 0 for none
  using,       \* [Users -> the call under way, or AtRest]
  vaultCalls,  \* calls so far
  (* history *)
  wanted,      \* what the put or delete that ended last left as the entry
  lost,        \* it was undone by a touch, or torn by writers in each other's way
  split,       \* puts in each other's way, or a death, left a secret with an older entry
  twoKeys      \* two processes found no key at the same time

vaultVars == <<entry, keyFile, password, using, vaultCalls, wanted, lost, split, twoKeys>>

(* A local entry is sealed, and a key is never torn: all are as long.      *)
VaultTypeOK ==
  /\ entry \in Entries \union Unreadable
  /\ entry \in Entries => (entry.backend = "local") = (entry.key # 0)
  /\ keyFile \in VaultCalls \union {Absent, Empty}
  /\ password \in {0} \union VaultCalls
  /\ using \in [Users -> Requests \union {AtRest}]
  /\ vaultCalls \in 0 .. MaxVaultCalls
  /\ wanted \in VaultCalls \union {Absent}
  /\ {lost, split, twoKeys} \subseteq BOOLEAN

VaultInit ==
  /\ entry = Absent /\ keyFile = Absent /\ password = 0
  /\ using = [u \in Users |-> AtRest]
  /\ vaultCalls = 0
  /\ wanted = Absent
  /\ lost = FALSE /\ split = FALSE /\ twoKeys = FALSE
-----------------------------------------------------------------------------
At(u, step) == using[u] # AtRest /\ using[u].step = step
Goto(u, step) == using' = [using EXCEPT ![u].step = step]
EndCall(u) == using' = [using EXCEPT ![u] = AtRest]

StartCall(u, kind, step, e) ==
  /\ using[u] = AtRest /\ vaultCalls < MaxVaultCalls
  /\ vaultCalls' = vaultCalls + 1
  /\ using' = [using EXCEPT ![u] =
       [call |-> vaultCalls', kind |-> kind, step |-> step, entry |-> e,
        overtaken |-> FALSE, gone |-> FALSE, crossed |-> FALSE]]
  /\ UNCHANGED <<entry, keyFile, password, wanted, lost, split, twoKeys>>

(* Put, or LinkKeychain: "link" is an entry for a secret that the operator *)
(* keeps in the keychain, "pass" is either password manager. List and the  *)
(* command that only makes the vault are a put that quits once it has a    *)
(* key.                                                                    *)
BeginPut(u) ==
  \E b \in Backends : StartCall(u, "put", "init", [of |-> vaultCalls + 1, backend |-> b, key |-> 0])

(* UseEnv, once it has read the entry. *)
BeginUse(u) ==
  /\ entry \notin Unreadable
  /\ StartCall(u, "use", IF entry.backend = "local" THEN "open key" ELSE "touch", entry)

(* Delete, once it has read the entry. *)
BeginDelete(u) == entry \notin Unreadable /\ StartCall(u, "delete", "remove", entry)
-----------------------------------------------------------------------------
(* The master key *)

(* Mutant of AfterInit: a local secret is written as it came.              *)
UnsealedAfterInit(b) == IF b = "pass" THEN "store" ELSE "write"

AfterInit(b) == CASE b = "local" -> "seal" [] b = "pass" -> "store" [] b = "link" -> "write"

(* Mutant of FindKey: a key that does not decode is replaced.              *)
ReplacingFindKey(u) ==
  /\ At(u, "init")
  /\ Goto(u, IF keyFile \in {Absent, Empty} THEN "new key" ELSE AfterInit(using[u].entry.backend))
  /\ twoKeys' = (twoKeys \/ (keyFile = Absent /\ \E v \in Users \ {u} : At(v, "new key")))
  /\ UNCHANGED <<entry, keyFile, password, vaultCalls, wanted, lost, split>>

(* Init, by a put. A key file that is there and does not decode fails it.  *)
FindKey(u) ==
  /\ At(u, "init")
  /\ \/ keyFile = Empty /\ EndCall(u)
     \/ keyFile = Absent /\ Goto(u, "new key")
     \/ keyFile \in VaultCalls /\ Goto(u, AfterInit(using[u].entry.backend))
  /\ twoKeys' = (twoKeys \/ (keyFile = Absent /\ \E v \in Users \ {u} : At(v, "new key")))
  /\ UNCHANGED <<entry, keyFile, password, vaultCalls, wanted, lost, split>>

OpenKey(u) ==
  /\ At(u, "new key")
  /\ keyFile' = Empty
  /\ Goto(u, "key opened")
  /\ UNCHANGED <<entry, password, vaultCalls, wanted, lost, split, twoKeys>>

WriteKey(u) ==
  /\ At(u, "key opened")
  /\ keyFile' = using[u].call
  /\ Goto(u, AfterInit(using[u].entry.backend))
  /\ UNCHANGED <<entry, password, vaultCalls, wanted, lost, split, twoKeys>>

(* A put reads the key again to seal its secret. *)
Seal(u) ==
  /\ At(u, "seal")
  /\ IF keyFile = Empty THEN EndCall(u)
     ELSE using' = [using EXCEPT ![u].entry.key = keyFile, ![u].step = "write"]
  /\ UNCHANGED <<entry, keyFile, password, vaultCalls, wanted, lost, split, twoKeys>>

(* openSecret of a use; with the wrong key there is nothing to use. A key  *)
(* was there before the entry, so none is made here or in Seal.            *)
Unseal(u) ==
  /\ At(u, "open key")
  /\ IF keyFile = using[u].entry.key THEN Goto(u, "touch") ELSE EndCall(u)
  /\ UNCHANGED <<entry, keyFile, password, vaultCalls, wanted, lost, split, twoKeys>>
-----------------------------------------------------------------------------
(* The entry *)

(* Between: a put whose secret is in the password manager, and not yet its *)
(* entry in the file.                                                      *)
Between(u) ==
  /\ using[u] # AtRest /\ using[u].kind = "put" /\ using[u].entry.backend = "pass"
  /\ using[u].step \in {"write", "opened"}

(* Mutant of StorePassword: that the password manager failed goes          *)
(* unnoticed.                                                              *)
UncheckedStorePassword(u) ==
  /\ At(u, "store")
  /\ password' \in {password, using[u].call}
  /\ using' = [v \in Users |-> IF v = u THEN [using[u] EXCEPT !.step = "write"]
                               ELSE IF Between(v) THEN [using[v] EXCEPT !.crossed = TRUE]
                               ELSE using[v]]
  /\ UNCHANGED <<entry, keyFile, vaultCalls, wanted, lost, split, twoKeys>>

StorePassword(u) ==
  /\ At(u, "store")
  /\ password' = using[u].call
  /\ using' = [v \in Users |-> IF v = u THEN [using[u] EXCEPT !.step = "write"]
                               ELSE IF Between(v) THEN [using[v] EXCEPT !.crossed = TRUE]
                               ELSE using[v]]
  /\ UNCHANGED <<entry, keyFile, vaultCalls, wanted, lost, split, twoKeys>>

(* Mutant of Touch: it writes the entry that the use began with.           *)
StaleTouch(u) ==
  /\ At(u, "touch")
  /\ IF entry \in Unreadable THEN EndCall(u) ELSE Goto(u, "write")
  /\ UNCHANGED <<entry, keyFile, password, vaultCalls, wanted, lost, split, twoKeys>>

(* touchLastUsed, after the command: it reads the entry again. *)
Touch(u) ==
  /\ At(u, "touch")
  /\ IF entry \in Unreadable THEN EndCall(u)
     ELSE using' = [using EXCEPT ![u].entry = entry, ![u].step = "write"]
  /\ UNCHANGED <<entry, keyFile, password, vaultCalls, wanted, lost, split, twoKeys>>

(* WriteFile, of a put or a touch: the file is emptied, or a new one made. *)
OpenEntry(u) ==
  /\ At(u, "write")
  /\ entry' = Empty
  /\ Goto(u, "opened")
  /\ UNCHANGED <<keyFile, password, vaultCalls, wanted, lost, split, twoKeys>>

(* A put or delete has ended: what others are about to write is old.       *)
EndUpdate(u, unlinked) ==
  using' = [v \in Users |->
    IF v = u \/ using[v] = AtRest THEN AtRest
    ELSE [using[v] EXCEPT !.overtaken = @ \/ using[v].step \in {"write", "opened"},
                          !.gone = @ \/ (unlinked /\ using[v].step = "opened")]]

(* What is written over another's longer text leaves its end behind, over  *)
(* a text that leaves its end.                                             *)
WriteEntry(u) ==
  /\ At(u, "opened") /\ ~using[u].gone
  /\ entry' \in {using[u].entry} \union (IF entry = Empty THEN {} ELSE {Garbled})
  /\ IF using[u].kind = "put"
     THEN /\ wanted' = using[u].call
          /\ lost' = (entry' = Garbled)
          /\ split' = IF Between(u) THEN using[u].crossed ELSE split
          /\ EndUpdate(u, FALSE)
     ELSE /\ lost' = (lost \/ using[u].overtaken \/ entry' = Garbled)
          /\ EndCall(u)
          /\ UNCHANGED <<wanted, split>>
  /\ UNCHANGED <<keyFile, password, vaultCalls, twoKeys>>

(* The file has been deleted since it was opened. *)
WriteNowhere(u) ==
  /\ At(u, "opened") /\ using[u].gone
  /\ EndCall(u)
  /\ UNCHANGED <<entry, keyFile, password, vaultCalls, wanted, lost, split, twoKeys>>

(* Delete; the password manager keeps the secret. *)
Remove(u) ==
  /\ At(u, "remove")
  /\ IF entry = Absent THEN EndCall(u) /\ UNCHANGED <<entry, wanted, lost>>
     ELSE /\ entry' = Absent
          /\ wanted' = Absent /\ lost' = FALSE
          /\ EndUpdate(u, TRUE)
  /\ UNCHANGED <<keyFile, password, vaultCalls, split, twoKeys>>

(* A process dies, or what it tries next fails. *)
Quit(u) ==
  /\ using[u] # AtRest
  /\ EndCall(u)
  /\ lost' = (lost \/ (At(u, "opened") /\ ~using[u].gone))
  /\ split' = (split \/ (Between(u) /\ ~using[u].crossed))
  /\ UNCHANGED <<entry, keyFile, password, vaultCalls, wanted, twoKeys>>

VaultNext ==
  \E u \in Users :
    \/ BeginPut(u) \/ BeginUse(u) \/ BeginDelete(u)
    \/ FindKey(u) \/ OpenKey(u) \/ WriteKey(u) \/ Seal(u) \/ Unseal(u)
    \/ StorePassword(u) \/ Touch(u) \/ OpenEntry(u) \/ WriteEntry(u) \/ WriteNowhere(u)
    \/ Remove(u) \/ Quit(u)

VaultSpec == VaultInit /\ [][VaultNext]_vaultVars
-----------------------------------------------------------------------------
(* Properties *)

(* What the last put or delete left is what the vault has, however many    *)
(* uses go on beside it: only a touch that had read the entry before, two  *)
(* writers at once or a death while writing can undo or tear it. The code  *)
(* is Put, Delete and touchLastUsed.                                       *)
PutsHold ==
  lost \/ (\E u \in Users : At(u, "opened") /\ ~using[u].gone)
  \/ IF wanted = Absent THEN entry = Absent
     ELSE entry \notin Unreadable /\ entry.of = wanted

(* A local secret can be opened: no put seals with a key that is not the   *)
(* one that stays, deaths and unfinished key files included, unless two    *)
(* processes made the first key at the same time (masterKey).              *)
SecretOpens ==
  entry \notin Unreadable /\ entry.backend = "local" /\ keyFile \in VaultCalls
    => entry.key = keyFile \/ twoKeys

(* The fingerprint in an entry, which every use reports, is that of the    *)
(* secret in the password manager, unless puts overlapped, one died        *)
(* between its two writes, or the entry itself was undone. The code is     *)
(* putExternal, which writes the secret first.                             *)
FingerprintTrue ==
  entry \notin Unreadable /\ entry.backend = "pass" /\ ~lost /\ ~split
    => entry.of = password \/ \E u \in Users : Between(u)
=============================================================================
