--------------------------- MODULE VaultStore_proofs ---------------------------
(***************************************************************************)
(* Theorems of VaultStore.                                                 *)
(***************************************************************************)
EXTENDS VaultStore, TLAPS

Sealed(e) == (e.backend = "local") = (e.key # 0)

Writing == {"write", "opened"}
PutSteps == {"init", "new key", "key opened", "seal", "store"} \union Writing
UseSteps == {"open key", "touch"} \union Writing

(* What a call looks like at each of its steps. *)
Shape(r) ==
  /\ r.kind = "put" => r.step \in PutSteps /\ r.entry.of = r.call
  /\ r.kind = "use" => r.step \in UseSteps
  /\ r.kind = "delete" => r.step = "remove"
  /\ IF r.kind = "put" /\ r.step \notin Writing THEN r.entry.key = 0 ELSE Sealed(r.entry)
  /\ r.step = "seal" => r.entry.backend = "local"
  /\ r.step = "store" => r.entry.backend = "pass"
  /\ r.overtaken => r.step \in Writing
  /\ r.gone => r.step = "opened" /\ r.overtaken
  /\ r.crossed => r.kind = "put" /\ r.step \in Writing /\ r.entry.backend = "pass"

Shapes ==
  /\ VaultTypeOK
  /\ \A u \in Users : using[u] # AtRest => Shape(using[u])
  /\ \A u \in Users : At(u, "seal") => keyFile # Absent

(* The first key has one maker, and every entry is sealed with the key     *)
(* that is in the file, those about to be written included.                *)
OneKey ==
  twoKeys \/
  /\ \A u \in Users :
       /\ At(u, "new key") => keyFile = Absent
       /\ At(u, "key opened") => keyFile = Empty
       /\ \A v \in Users : At(u, "new key") /\ At(v, "new key") => u = v
       /\ \A v \in Users : At(u, "key opened") /\ At(v, "key opened") => u = v
       /\ using[u] # AtRest /\ using[u].entry.key # 0 => keyFile = using[u].entry.key
  /\ entry \in Entries /\ entry.key # 0 => keyFile = entry.key

(* A use about to write what it read, which nothing has overtaken.         *)
Touching(u) ==
  using[u] # AtRest /\ using[u].kind = "use" /\ using[u].step \in Writing /\ ~using[u].overtaken

(* The entry, and its copies that a touch is about to write.               *)
InForce == {e \in Entries : e = entry \/ \E u \in Users : Touching(u) /\ e = using[u].entry}

Opened(u) == At(u, "opened") /\ ~using[u].gone

(* What is in force is what was put last; the file is empty only while     *)
(* somebody writes it.                                                     *)
HeldInForce ==
  ~lost =>
  /\ \A e \in InForce : e.of = wanted
  /\ entry = Empty => \E u \in Users : Opened(u)
  /\ entry # Garbled
  /\ entry = Absent => wanted = Absent

(* A put between its two writes whose secret is still in the password      *)
(* manager: there is at most one.                                          *)
Latest(u) == Between(u) /\ ~using[u].crossed

PasswordInForce ==
  /\ \A u \in Users : Latest(u) => password = using[u].call
  /\ \A u, v \in Users : Latest(u) /\ Latest(v) => u = v
  /\ ~lost /\ ~split /\ (\A u \in Users : ~Latest(u)) =>
       \A e \in InForce : e.backend = "pass" => e.of = password
  /\ ~lost /\ ~split /\ (\E u \in Users : Latest(u) /\ using[u].gone) =>
       \A e \in InForce : e.backend # "pass"

VaultInv == Shapes /\ OneKey /\ HeldInForce /\ PasswordInForce
-----------------------------------------------------------------------------
LEMMA InitShapes == VaultInit => Shapes
<1> SUFFICES ASSUME VaultInit PROVE Shapes
  OBVIOUS
<1>1. entry \in Unreadable /\ entry \notin Entries
  BY VaultValues DEF VaultInit, Unreadable
<1>2. VaultTypeOK
  <2>1. {lost, split, twoKeys} \subseteq BOOLEAN
    BY DEF VaultInit
  <2>2. vaultCalls \in 0 .. MaxVaultCalls
    BY VaultAssumption DEF VaultInit
  <2>3. using \in [Users -> Requests \union {AtRest}]
    BY DEF VaultInit
  <2>4. QED
    BY <1>1, <2>1, <2>2, <2>3 DEF VaultInit, VaultTypeOK
<1>3. QED
  BY <1>2 DEF VaultInit, Shapes, At

Started(kind, step, e) ==
  [call |-> vaultCalls + 1, kind |-> kind, step |-> step, entry |-> e,
   overtaken |-> FALSE, gone |-> FALSE, crossed |-> FALSE]

LEMMA StartShapes ==
  ASSUME Shapes, NEW u \in Users, NEW kind \in {"put", "use", "delete"}, NEW step \in Steps,
         NEW e \in Entries, StartCall(u, kind, step, e), step # "seal",
         Shape(Started(kind, step, e))
  PROVE  Shapes'
<1> DEFINE r == Started(kind, step, e)
<1> USE DEF Started
<1>1. vaultCalls + 1 \in VaultCalls
  BY VaultAssumption DEF StartCall, Shapes, VaultTypeOK, VaultCalls
<1>2. r \in Requests /\ Shape(r)
  BY <1>1 DEF Requests
<1>3. r # AtRest /\ using' = [using EXCEPT ![u] = r]
  BY <1>2, VaultValues DEF StartCall
<1>4. VaultTypeOK'
  BY <1>1, <1>2, <1>3 DEF StartCall, Shapes, VaultTypeOK, VaultCalls
<1> HIDE DEF r
<1>5. ASSUME NEW v \in Users, using'[v] # AtRest PROVE Shape(using'[v])
  BY <1>2, <1>3, <1>5 DEF Shapes, VaultTypeOK
<1>6. ASSUME NEW v \in Users, At(v, "seal")' PROVE keyFile' # Absent
  <2>1. r.step = step
    BY DEF r
  <2>2. QED
    BY <1>3, <1>6, <2>1 DEF Shapes, VaultTypeOK, At, StartCall
<1>7. QED
  BY <1>4, <1>5, <1>6 DEF Shapes

(* A step that changes nothing but where a call is. *)
LEMMA GotoShapes ==
  ASSUME Shapes, NEW u \in Users, using[u] # AtRest, NEW r \in Requests,
         using' = [using EXCEPT ![u] = r], Shape(r), r.step = "seal" => keyFile' # Absent,
         entry' \in Entries => Sealed(entry'), entry' \in Entries \union Unreadable,
         keyFile' \in VaultCalls \union {Absent, Empty}, keyFile = Absent \/ keyFile' # Absent,
         password' \in {0} \union VaultCalls, vaultCalls' = vaultCalls,
         wanted' \in VaultCalls \union {Absent}, {lost', split', twoKeys'} \subseteq BOOLEAN
  PROVE  Shapes'
<1>1. r # AtRest
  BY VaultValues
<1>2. VaultTypeOK'
  BY DEF Shapes, VaultTypeOK, Sealed
<1>3. QED
  BY <1>1, <1>2 DEF Shapes, VaultTypeOK, At

LEMMA EndShapes ==
  ASSUME Shapes, NEW u \in Users, EndCall(u),
         entry' \in Entries => Sealed(entry'), entry' \in Entries \union Unreadable,
         keyFile' = keyFile, password' = password, vaultCalls' = vaultCalls,
         wanted' \in VaultCalls \union {Absent}, {lost', split', twoKeys'} \subseteq BOOLEAN
  PROVE  Shapes'
<1>1. VaultTypeOK'
  BY DEF Shapes, VaultTypeOK, Sealed, EndCall
<1>2. QED
  BY <1>1 DEF Shapes, VaultTypeOK, At, EndCall

LEMMA UpdateShapes ==
  ASSUME Shapes, NEW u \in Users, NEW unlinked \in BOOLEAN, EndUpdate(u, unlinked),
         entry' \in Entries => Sealed(entry'), entry' \in Entries \union Unreadable,
         keyFile' = keyFile, password' = password, vaultCalls' = vaultCalls,
         wanted' \in VaultCalls \union {Absent}, {lost', split', twoKeys'} \subseteq BOOLEAN
  PROVE  Shapes'
<1> DEFINE r(v) == [using[v] EXCEPT !.overtaken = @ \/ using[v].step \in {"write", "opened"},
                                    !.gone = @ \/ (unlinked /\ using[v].step = "opened")]
<1>1. ASSUME NEW v \in Users, v # u, using[v] # AtRest
      PROVE  r(v) \in Requests /\ Shape(r(v)) /\ using'[v] = r(v) /\ r(v).step = using[v].step
  <2>1. using[v] \in Requests /\ Shape(using[v])
    BY <1>1 DEF Shapes, VaultTypeOK
  <2>2. r(v) \in Requests
    BY <2>1 DEF Requests
  <2>3. Shape(r(v)) /\ r(v).step = using[v].step
    BY <2>1 DEF Shape, Writing, Requests
  <2>4. QED
    BY <1>1, <2>2, <2>3 DEF EndUpdate
<1>2. ASSUME NEW v \in Users, v = u \/ using[v] = AtRest PROVE using'[v] = AtRest
  BY <1>2 DEF EndUpdate
<1> HIDE DEF r
<1>3. using' \in [Users -> Requests \union {AtRest}]
  <2>1. \A v \in Users : using'[v] \in Requests \union {AtRest}
    BY <1>1, <1>2
  <2>2. QED
    BY <2>1 DEF EndUpdate
<1>4. VaultTypeOK'
  BY <1>3 DEF Shapes, VaultTypeOK, Sealed
<1>5. QED
  BY <1>1, <1>2, <1>4 DEF Shapes, At

(* Goto of a call to a step with the shape it has there. *)
LEMMA GotoStep ==
  ASSUME Shapes, NEW u \in Users, using[u] # AtRest, NEW step \in Steps, Goto(u, step),
         Shape([using[u] EXCEPT !.step = step]), step = "seal" => keyFile' # Absent,
         entry' = entry \/ entry' = Empty,
         keyFile' \in VaultCalls \union {Absent, Empty}, keyFile = Absent \/ keyFile' # Absent,
         UNCHANGED <<password, vaultCalls, wanted, lost, split>>, twoKeys' \in BOOLEAN
  PROVE  Shapes'
<1> DEFINE r == [using[u] EXCEPT !.step = step]
<1>1. r \in Requests /\ r.step = step
  BY DEF Shapes, VaultTypeOK, Requests
<1>2. using' = [using EXCEPT ![u] = r]
  BY DEF Goto
<1>3. /\ entry' \in Entries => Sealed(entry')
      /\ entry' \in Entries \union Unreadable
      /\ password' \in {0} \union VaultCalls
      /\ wanted' \in VaultCalls \union {Absent}
      /\ {lost', split', twoKeys'} \subseteq BOOLEAN
  BY VaultValues DEF Shapes, VaultTypeOK, Sealed, Unreadable
<1>4. QED
  BY <1>1, <1>2, <1>3, GotoShapes

LEMMA StepShapes == Shapes /\ [VaultNext]_vaultVars => Shapes'
<1> SUFFICES ASSUME Shapes, [VaultNext]_vaultVars PROVE Shapes'
  OBVIOUS
<1>0. VaultTypeOK
  BY DEF Shapes
<1>a. /\ entry \in Entries => Sealed(entry)
      /\ {lost, split, twoKeys} \subseteq BOOLEAN
      /\ \A u \in Users : using[u] # AtRest => using[u] \in Requests /\ Shape(using[u])
  BY DEF Shapes, VaultTypeOK, Sealed
<1>b. ASSUME NEW u \in Users, using[u] # AtRest
      PROVE  /\ using[u].call \in VaultCalls /\ using[u].entry \in Entries
             /\ using[u].entry.backend \in {"local", "pass", "link"}
  BY <1>a, <1>b, VaultAssumption DEF Requests, Entries
<1>1. ASSUME NEW u \in Users, BeginPut(u) PROVE Shapes'
  <2>1. PICK b \in Backends : StartCall(u, "put", "init", [of |-> vaultCalls + 1, backend |-> b, key |-> 0])
    BY <1>1 DEF BeginPut
  <2>2. vaultCalls + 1 \in VaultCalls
    BY <2>1, <1>0, VaultAssumption DEF StartCall, VaultTypeOK, VaultCalls
  <2>3. [of |-> vaultCalls + 1, backend |-> b, key |-> 0] \in Entries
    BY <2>2 DEF Entries
  <2> DEFINE e == [of |-> vaultCalls + 1, backend |-> b, key |-> 0]
  <2>4. Shape(Started("put", "init", e))
    BY DEF Started, Shape, PutSteps, Writing
  <2>5. e \in Entries /\ StartCall(u, "put", "init", e)
    BY <2>1, <2>3
  <2> HIDE DEF e
  <2>6. QED
    BY <2>4, <2>5, StartShapes DEF Steps
<1>2. ASSUME NEW u \in Users, BeginUse(u) PROVE Shapes'
  <2>1. entry \in Entries /\ Sealed(entry)
    BY <1>0, <1>2, <1>a DEF VaultTypeOK, BeginUse
  <2>2. PICK step \in {"open key", "touch"} : StartCall(u, "use", step, entry)
    BY <1>2 DEF BeginUse
  <2>3. Shape(Started("use", step, entry))
    BY <2>1 DEF Started, Shape, UseSteps, Writing
  <2>4. QED
    BY <2>1, <2>2, <2>3, StartShapes DEF Steps
<1>3. ASSUME NEW u \in Users, BeginDelete(u) PROVE Shapes'
  <2>1. entry \in Entries /\ Sealed(entry)
    BY <1>0, <1>3, <1>a DEF VaultTypeOK, BeginDelete
  <2>2. Shape(Started("delete", "remove", entry))
    BY <2>1 DEF Started, Shape, Writing
  <2>3. QED
    BY <1>3, <2>1, <2>2, StartShapes DEF Steps, BeginDelete
<1>4. ASSUME NEW u \in Users, FindKey(u) PROVE Shapes'
  <2>1. twoKeys' \in BOOLEAN
    BY <1>4, <1>a DEF FindKey
  <2>2. CASE EndCall(u)
    BY <2>1, <2>2, <1>0, <1>4, <1>a, EndShapes DEF FindKey, VaultTypeOK
  <2>3. CASE keyFile = Absent /\ Goto(u, "new key")
    <3>1. Shape([using[u] EXCEPT !.step = "new key"])
      BY <1>4, <1>a DEF FindKey, At, Shape, PutSteps, UseSteps, Writing, Requests
    <3>2. QED
      BY <2>1, <2>3, <3>1, <1>0, <1>4, GotoStep DEF FindKey, At, VaultTypeOK, Steps
  <2>4. CASE keyFile \in VaultCalls /\ Goto(u, AfterInit(using[u].entry.backend))
    <3>1. keyFile # Absent
      BY <2>4, VaultValues
    <3>2. /\ AfterInit(using[u].entry.backend) \in Steps
          /\ Shape([using[u] EXCEPT !.step = AfterInit(using[u].entry.backend)])
      BY <1>4, <1>a, <1>b, ZenonT(40)
      DEF FindKey, At, Shape, PutSteps, UseSteps, Writing, Requests, AfterInit, Steps, Sealed
    <3>3. QED
      BY <2>1, <2>4, <3>1, <3>2, <1>0, <1>4, GotoStep DEF FindKey, At, VaultTypeOK
  <2>5. QED
    BY <1>4, <2>2, <2>3, <2>4 DEF FindKey
<1>5. ASSUME NEW u \in Users, OpenKey(u) PROVE Shapes'
  <2>1. Shape([using[u] EXCEPT !.step = "key opened"])
    BY <1>5, <1>a DEF OpenKey, At, Shape, PutSteps, UseSteps, Writing, Requests
  <2>2. QED
    BY <2>1, <1>0, <1>5, <1>a, GotoStep, VaultValues DEF OpenKey, At, VaultTypeOK, Steps
<1>6. ASSUME NEW u \in Users, WriteKey(u) PROVE Shapes'
  <2>1. /\ AfterInit(using[u].entry.backend) \in Steps
        /\ Shape([using[u] EXCEPT !.step = AfterInit(using[u].entry.backend)])
    BY <1>6, <1>a, <1>b, ZenonT(40)
    DEF WriteKey, At, Shape, PutSteps, UseSteps, Writing, Requests, AfterInit, Steps, Sealed
  <2>2. keyFile' \in VaultCalls /\ keyFile' # Absent
    BY <1>6, <1>b, VaultValues DEF WriteKey, At
  <2>3. QED
    BY <2>1, <2>2, <1>0, <1>6, <1>a, GotoStep DEF WriteKey, At, VaultTypeOK
<1>7. ASSUME NEW u \in Users, Seal(u) PROVE Shapes'
  <2>1. CASE keyFile = Empty /\ EndCall(u)
    BY <2>1, <1>0, <1>7, <1>a, EndShapes DEF Seal, VaultTypeOK
  <2>2. CASE /\ keyFile # Empty
             /\ using' = [using EXCEPT ![u].entry.key = keyFile, ![u].step = "write"]
    <3> DEFINE r == [using[u] EXCEPT !.entry.key = keyFile, !.step = "write"]
    <3>1. keyFile \in VaultCalls /\ keyFile # 0
      BY <2>2, <1>0, <1>7 DEF Seal, Shapes, VaultTypeOK, VaultCalls
    <3>2. using[u] # AtRest /\ using[u] \in Requests /\ Shape(using[u]) /\ using[u].step = "seal"
      BY <1>7, <1>a DEF Seal, At
    <3>3. [using[u].entry EXCEPT !.key = keyFile] \in Entries
      BY <3>1, <3>2 DEF Requests, Entries
    <3>4. r \in Requests
      BY <3>2, <3>3 DEF Requests, Steps
    <3>5. Shape(r)
      BY <3>1, <3>2 DEF Shape, PutSteps, UseSteps, Writing, Requests, Entries, Sealed
    <3>6. using' = [using EXCEPT ![u] = r] /\ r.step = "write"
      BY <2>2, <3>2 DEF Requests
    <3>7. QED
      BY <3>2, <3>4, <3>5, <3>6, <1>0, <1>7, <1>a, GotoShapes DEF Seal, VaultTypeOK
  <2>3. QED
    BY <1>7, <2>1, <2>2 DEF Seal
<1>8. ASSUME NEW u \in Users, Unseal(u) PROVE Shapes'
  <2>1. CASE EndCall(u)
    BY <2>1, <1>0, <1>8, <1>a, EndShapes DEF Unseal, VaultTypeOK
  <2>2. CASE Goto(u, "touch")
    <3>1. Shape([using[u] EXCEPT !.step = "touch"])
      BY <1>8, <1>a DEF Unseal, At, Shape, PutSteps, UseSteps, Writing, Requests
    <3>2. QED
      BY <2>2, <3>1, <1>0, <1>8, <1>a, GotoStep DEF Unseal, At, VaultTypeOK, Steps
  <2>3. QED
    BY <1>8, <2>1, <2>2 DEF Unseal
<1>9. ASSUME NEW u \in Users, StorePassword(u) PROVE Shapes'
  <2> DEFINE r(v) == IF v = u THEN [using[u] EXCEPT !.step = "write"]
                     ELSE IF Between(v) THEN [using[v] EXCEPT !.crossed = TRUE]
                     ELSE using[v]
  <2>1. using[u] # AtRest /\ using[u] \in Requests /\ Shape(using[u]) /\ using[u].step = "store"
    BY <1>9, <1>a DEF StorePassword, At
  <2>2. ASSUME NEW v \in Users, using[v] # AtRest
        PROVE  r(v) \in Requests /\ Shape(r(v)) /\ (r(v).step = "seal" => At(v, "seal"))
    <3>1. using[v] \in Requests /\ Shape(using[v])
      BY <2>2, <1>a
    <3>2. CASE v = u
      BY <3>1, <3>2, <2>1 DEF Shape, PutSteps, UseSteps, Writing, Requests, Steps, Sealed
    <3>3. CASE v # u /\ Between(v)
      BY <3>1, <3>3 DEF Between, Shape, PutSteps, UseSteps, Writing, Requests
    <3>4. CASE v # u /\ ~Between(v)
      BY <3>1, <3>4, <2>2 DEF At
    <3>5. QED
      BY <3>2, <3>3, <3>4
  <2>3. \A v \in Users : using[v] = AtRest => r(v) = AtRest
    BY <2>1 DEF Between
  <2>4. using' = [v \in Users |-> r(v)]
    BY <1>9 DEF StorePassword
  <2> HIDE DEF r
  <2>5. using' \in [Users -> Requests \union {AtRest}]
    BY <2>2, <2>3, <2>4
  <2>6. password' \in {0} \union VaultCalls
    BY <2>1, <1>9, <1>b DEF StorePassword
  <2>7. VaultTypeOK'
    BY <2>5, <2>6, <1>0, <1>9 DEF VaultTypeOK, StorePassword
  <2>8. QED
    BY <2>2, <2>3, <2>4, <2>7, <1>9 DEF Shapes, At, StorePassword
<1>10. ASSUME NEW u \in Users, Touch(u) PROVE Shapes'
  <2>1. CASE EndCall(u)
    BY <2>1, <1>0, <1>10, <1>a, EndShapes DEF Touch, VaultTypeOK
  <2>2. CASE /\ entry \notin Unreadable
             /\ using' = [using EXCEPT ![u].entry = entry, ![u].step = "write"]
    <3> DEFINE r == [using[u] EXCEPT !.entry = entry, !.step = "write"]
    <3>1. entry \in Entries /\ Sealed(entry)
      BY <2>2, <1>0, <1>a DEF VaultTypeOK
    <3>2. using[u] # AtRest /\ using[u] \in Requests /\ Shape(using[u]) /\ using[u].step = "touch"
      BY <1>10, <1>a DEF Touch, At
    <3>3. r \in Requests
      BY <3>1, <3>2 DEF Requests, Steps
    <3>4. Shape(r)
      <4>1. using[u].kind = "use"
        BY <3>2 DEF Shape, PutSteps, Writing, Requests
      <4>2. QED
        BY <3>1, <3>2, <4>1 DEF Shape, UseSteps, Writing, Requests
    <3>5. using' = [using EXCEPT ![u] = r] /\ r.step = "write"
      BY <2>2, <3>2 DEF Requests
    <3>6. QED
      BY <3>2, <3>3, <3>4, <3>5, <1>0, <1>10, <1>a, GotoShapes DEF Touch, VaultTypeOK
  <2>3. QED
    BY <1>10, <2>1, <2>2 DEF Touch
<1>11. ASSUME NEW u \in Users, OpenEntry(u) PROVE Shapes'
  <2>1. Shape([using[u] EXCEPT !.step = "opened"])
    BY <1>11, <1>a DEF OpenEntry, At, Shape, PutSteps, UseSteps, Writing, Requests
  <2>2. QED
    BY <2>1, <1>0, <1>11, <1>a, GotoStep DEF OpenEntry, At, VaultTypeOK, Steps
<1>12. ASSUME NEW u \in Users, WriteEntry(u) PROVE Shapes'
  <2>1. using[u] # AtRest /\ using[u] \in Requests /\ Shape(using[u]) /\ using[u].step = "opened"
    BY <1>12, <1>a DEF WriteEntry, At
  <2>2. using[u].entry \in Entries /\ Sealed(using[u].entry) /\ Garbled \notin Entries
    BY <2>1, VaultValues DEF Shape, Writing, Requests, Unreadable
  <2>3. entry' \in Entries \union Unreadable /\ (entry' \in Entries => Sealed(entry'))
    BY <2>2, <1>12 DEF WriteEntry, Unreadable
  <2>4. CASE using[u].kind = "put"
    <3>1. EndUpdate(u, FALSE) /\ wanted' \in VaultCalls
      BY <1>12, <2>1, <2>4, <1>b DEF WriteEntry
    <3>2. lost' \in BOOLEAN
      BY <1>12, <2>4 DEF WriteEntry
    <3>3. split' \in BOOLEAN
      BY <1>12, <2>1, <2>4, <1>a DEF WriteEntry, Requests
    <3>4. {lost', split', twoKeys'} \subseteq BOOLEAN
      BY <3>2, <3>3, <1>12, <1>a DEF WriteEntry
    <3>5. QED
      BY <3>1, <3>4, <2>3, <1>12, UpdateShapes DEF WriteEntry
  <2>5. CASE using[u].kind # "put"
    <3>1. EndCall(u) /\ wanted' = wanted /\ split' = split
      BY <1>12, <2>5 DEF WriteEntry
    <3>2. lost' \in BOOLEAN
      BY <1>12, <2>5 DEF WriteEntry
    <3>3. {lost', split', twoKeys'} \subseteq BOOLEAN
      BY <3>1, <3>2, <1>12, <1>a DEF WriteEntry
    <3>4. QED
      BY <3>1, <3>3, <2>3, <1>0, <1>12, EndShapes DEF WriteEntry, VaultTypeOK
  <2>6. QED
    BY <2>4, <2>5
<1>13. ASSUME NEW u \in Users, WriteNowhere(u) PROVE Shapes'
  BY <1>0, <1>13, <1>a, EndShapes DEF WriteNowhere, VaultTypeOK
<1>14. ASSUME NEW u \in Users, Remove(u) PROVE Shapes'
  <2>1. CASE entry = Absent
    BY <2>1, <1>0, <1>14, <1>a, EndShapes DEF Remove, VaultTypeOK
  <2>2. CASE entry # Absent
    <3>1. /\ entry' = Absent /\ wanted' = Absent /\ EndUpdate(u, TRUE)
          /\ {lost', split', twoKeys'} \subseteq BOOLEAN
      BY <2>2, <1>14, <1>a DEF Remove
    <3>2. Absent \in Unreadable /\ Absent \notin Entries
      BY VaultValues DEF Unreadable
    <3>3. QED
      BY <3>1, <3>2, <1>14, UpdateShapes DEF Remove
  <2>3. QED
    BY <2>1, <2>2
<1>15. ASSUME NEW u \in Users, Quit(u) PROVE Shapes'
  <2>1. lost' \in BOOLEAN
    BY <1>15 DEF Quit
  <2>2. split' \in BOOLEAN
    BY <1>15 DEF Quit
  <2>3. {lost', split', twoKeys'} \subseteq BOOLEAN
    BY <2>1, <2>2, <1>15, <1>a DEF Quit
  <2>4. QED
    BY <2>3, <1>0, <1>15, <1>a, EndShapes DEF Quit, VaultTypeOK
<1>16. CASE UNCHANGED vaultVars
  BY <1>16 DEF vaultVars, Shapes, VaultTypeOK, At
<1>17. QED
  BY <1>1, <1>2, <1>3, <1>4, <1>5, <1>6, <1>7, <1>8, <1>9, <1>10, <1>11, <1>12, <1>13, <1>14,
     <1>15, <1>16 DEF VaultNext
-----------------------------------------------------------------------------
Act(u) ==
  \/ BeginPut(u) \/ BeginUse(u) \/ BeginDelete(u)
  \/ FindKey(u) \/ OpenKey(u) \/ WriteKey(u) \/ Seal(u) \/ Unseal(u)
  \/ StorePassword(u) \/ Touch(u) \/ OpenEntry(u) \/ WriteEntry(u) \/ WriteNowhere(u)
  \/ Remove(u) \/ Quit(u)

Kept(v) ==
  /\ using'[v] = AtRest <=> using[v] = AtRest
  /\ using[v] # AtRest => /\ using'[v].kind = using[v].kind
                          /\ using'[v].call = using[v].call
                          /\ using'[v].step = using[v].step
                          /\ using'[v].entry = using[v].entry

(* What becomes of another's call is not forgotten, and only a delete and  *)
(* a new password do it.                                                   *)
Marked(u, v) ==
  using[v] # AtRest =>
    /\ using[v].overtaken => using'[v].overtaken
    /\ using'[v].gone <=> using[v].gone \/ (using'[v].gone /\ Remove(u) /\ entry # Absent)
    /\ using'[v].crossed <=> using[v].crossed \/ (using'[v].crossed /\ StorePassword(u))

(* Nobody moves another's call on. *)
LEMMA OthersKept ==
  ASSUME Shapes, Shapes', NEW u \in Users, Act(u), NEW v \in Users, v # u
  PROVE  Kept(v) /\ Marked(u, v)
<1>1. using \in [Users -> Requests \union {AtRest}] /\ using' \in [Users -> Requests \union {AtRest}]
  BY DEF Shapes, VaultTypeOK
<1>2. CASE using'[v] = using[v]
  BY <1>2 DEF Kept, Marked
<1>3. CASE StorePassword(u)
  <2>1. using'[v] = IF Between(v) THEN [using[v] EXCEPT !.crossed = TRUE] ELSE using[v]
    BY <1>3 DEF StorePassword
  <2>2. CASE Between(v)
    <3>1. using[v] # AtRest /\ using[v] \in Requests /\ [using[v] EXCEPT !.crossed = TRUE] \in Requests
      BY <1>1, <2>2 DEF Between, Requests
    <3>2. QED
      BY <1>3, <2>1, <2>2, <3>1, VaultValues DEF Kept, Marked, Requests
  <2>3. QED
    BY <2>1, <2>2, <1>2
<1>4. ASSUME NEW unlinked \in BOOLEAN, EndUpdate(u, unlinked), unlinked => Remove(u) /\ entry # Absent
      PROVE  Kept(v) /\ Marked(u, v)
  <2> DEFINE r == [using[v] EXCEPT !.overtaken = @ \/ using[v].step \in {"write", "opened"},
                                   !.gone = @ \/ (unlinked /\ using[v].step = "opened")]
  <2>1. using'[v] = IF using[v] = AtRest THEN AtRest ELSE r
    BY <1>4 DEF EndUpdate
  <2>2. CASE using[v] # AtRest
    <3>1. using[v] \in Requests
      BY <1>1, <2>2
    <3>2. r \in Requests
      BY <3>1, <1>4 DEF Requests
    <3>3. /\ r # AtRest /\ r.kind = using[v].kind /\ r.call = using[v].call
          /\ r.step = using[v].step /\ r.entry = using[v].entry /\ r.crossed = using[v].crossed
          /\ using[v].overtaken => r.overtaken
      BY <3>1, <3>2, VaultValues, ZenonT(40) DEF Requests
    <3>4. r.gone = (using[v].gone \/ (unlinked /\ using[v].step = "opened"))
      BY <3>1 DEF Requests
    <3>5. QED
      BY <1>4, <2>1, <2>2, <3>3, <3>4 DEF Kept, Marked
  <2>3. QED
    BY <2>1, <2>2, <1>2
<1>5. CASE WriteEntry(u)
  BY <1>1, <1>2, <1>4, <1>5 DEF WriteEntry, EndCall
<1>6. CASE Remove(u)
  BY <1>1, <1>2, <1>4, <1>6 DEF Remove, EndCall
<1>7. CASE BeginPut(u) \/ BeginUse(u) \/ BeginDelete(u)
  BY <1>1, <1>2, <1>7 DEF BeginPut, BeginUse, BeginDelete, StartCall
<1>8. CASE FindKey(u) \/ OpenKey(u) \/ WriteKey(u) \/ Seal(u) \/ Unseal(u)
  BY <1>1, <1>2, <1>8 DEF FindKey, OpenKey, WriteKey, Seal, Unseal, Goto, EndCall
<1>9. CASE Touch(u) \/ OpenEntry(u) \/ WriteNowhere(u) \/ Quit(u)
  BY <1>1, <1>2, <1>9 DEF Touch, OpenEntry, WriteNowhere, Quit, Goto, EndCall
<1>10. QED
  BY <1>3, <1>5, <1>6, <1>7, <1>8, <1>9 DEF Act

(* How a call begins. *)
LEMMA Begun ==
  ASSUME Shapes, NEW u \in Users, BeginPut(u) \/ BeginUse(u) \/ BeginDelete(u)
  PROVE  /\ using[u] = AtRest
         /\ \/ using'[u].step = "init" /\ using'[u].entry.key = 0
            \/ using'[u].step \in {"open key", "touch", "remove"} /\ using'[u].entry = entry
                /\ entry \in Entries
         /\ UNCHANGED <<entry, keyFile, password, wanted, lost, split, twoKeys>>
<1>0. using \in [Users -> Requests \union {AtRest}]
  BY DEF Shapes, VaultTypeOK
<1>1. CASE BeginPut(u)
  <2>1. PICK b \in Backends : StartCall(u, "put", "init", [of |-> vaultCalls + 1, backend |-> b, key |-> 0])
    BY <1>1 DEF BeginPut
  <2>2. QED
    BY <1>0, <2>1 DEF StartCall
<1>2. CASE BeginUse(u)
  <2>1. PICK step \in {"open key", "touch"} : StartCall(u, "use", step, entry)
    BY <1>2 DEF BeginUse
  <2>2. entry \in Entries
    BY <1>2 DEF BeginUse, Shapes, VaultTypeOK
  <2>3. QED
    BY <1>0, <2>1, <2>2 DEF StartCall
<1>3. CASE BeginDelete(u)
  <2>1. StartCall(u, "delete", "remove", entry) /\ entry \notin Unreadable
    BY <1>3 DEF BeginDelete
  <2>2. entry \in Entries
    BY <2>1 DEF Shapes, VaultTypeOK
  <2>3. QED
    BY <1>0, <2>1, <2>2 DEF StartCall
<1>4. QED
  BY <1>1, <1>2, <1>3

(* A step that makes no key and seals nothing, unless with the key there is. *)
LEMMA CalmKey ==
  ASSUME Shapes, Shapes', OneKey, ~twoKeys, NEW u \in Users,
         \A v \in Users : v # u => Kept(v), keyFile' = keyFile,
         using'[u] # AtRest => /\ using'[u].step \notin {"new key", "key opened"}
                               /\ using'[u].entry.key # 0 => keyFile = using'[u].entry.key,
         entry' \in Entries /\ entry'.key # 0 => keyFile = entry'.key
  PROVE  OneKey'
<1>1. ASSUME NEW v \in Users
      PROVE  /\ ~(v = u /\ At(v, "new key")') /\ ~(v = u /\ At(v, "key opened")')
             /\ At(v, "new key")' => At(v, "new key")
             /\ At(v, "key opened")' => At(v, "key opened")
             /\ using'[v] # AtRest /\ using'[v].entry.key # 0 => keyFile = using'[v].entry.key
  BY DEF OneKey, Kept, At
<1>2. QED
  BY <1>1 DEF OneKey

LEMMA StepKey == Shapes /\ Shapes' /\ OneKey /\ [VaultNext]_vaultVars => OneKey'
<1> SUFFICES ASSUME Shapes, Shapes', OneKey, ~twoKeys', [VaultNext]_vaultVars PROVE OneKey'
  BY DEF OneKey
<1>0. using \in [Users -> Requests \union {AtRest}] /\ using' \in [Users -> Requests \union {AtRest}]
  BY DEF Shapes, VaultTypeOK
<1>1. CASE UNCHANGED vaultVars
  BY <1>1 DEF vaultVars, OneKey, At
<1>2. ASSUME NEW u \in Users, Act(u) PROVE OneKey'
  <2>0. ~twoKeys
    BY <1>2 DEF Act, BeginPut, BeginUse, BeginDelete, StartCall, FindKey, OpenKey, WriteKey, Seal,
      Unseal, StorePassword, Touch, OpenEntry, WriteEntry, WriteNowhere, Remove, Quit
  <2>a. \A v \in Users : v # u => Kept(v)
    BY <1>2, OthersKept
  <2>b. \A v \in Users : using[v] # AtRest => /\ using[v] \in Requests /\ Shape(using[v])
                                              /\ using[v].entry.key # 0 => keyFile = using[v].entry.key
    BY <1>0, <2>0 DEF Shapes, OneKey
  <2>1. CASE BeginPut(u) \/ BeginUse(u) \/ BeginDelete(u)
    <3>1. /\ using'[u].step \notin {"new key", "key opened"}
          /\ using'[u].entry.key # 0 => entry \in Entries /\ using'[u].entry = entry
          /\ keyFile' = keyFile /\ entry' = entry
      BY <2>1, Begun
    <3>2. QED
      BY <2>0, <2>a, <3>1, CalmKey DEF OneKey
  <2>2. CASE FindKey(u)
    <3>1. CASE EndCall(u)
      BY <2>0, <2>2, <2>a, <3>1, <1>0, CalmKey DEF FindKey, EndCall, OneKey
    <3>2. CASE keyFile = Absent /\ Goto(u, "new key")
      <4>1. \A v \in Users \ {u} : ~At(v, "new key")
        BY <2>2, <3>2 DEF FindKey
      <4>2. \A v \in Users : ~At(v, "key opened")
        BY <2>0, <3>2, VaultValues DEF OneKey
      <4>a. using[u] # AtRest /\ using[u] \in Requests
        BY <1>0, <2>2 DEF FindKey, At
      <4>3. using'[u] = [using[u] EXCEPT !.step = "new key"] /\ using'[u] \in Requests
        BY <1>0, <3>2, <4>a DEF Goto, Requests, Steps
      <4>4. using'[u] # AtRest /\ using'[u].step = "new key" /\ using'[u].entry = using[u].entry
        BY <4>a, <4>3, VaultValues DEF Requests
      <4>5. ASSUME NEW v \in Users
            PROVE  /\ At(v, "new key")' => v = u
                   /\ ~At(v, "key opened")'
                   /\ using'[v] # AtRest /\ using'[v].entry.key # 0 => keyFile = using'[v].entry.key
        BY <2>a, <2>b, <2>2, <4>1, <4>2, <4>4, ZenonT(40) DEF Kept, At, FindKey
      <4>6. keyFile' = keyFile /\ entry' = entry
        BY <2>2 DEF FindKey
      <4>7. QED
        BY <2>0, <3>2, <4>5, <4>6 DEF OneKey
    <3>3. CASE keyFile \in VaultCalls /\ Goto(u, AfterInit(using[u].entry.backend))
      <4>1. AfterInit(using[u].entry.backend) \in {"seal", "store", "write"}
        BY <1>0, <2>2, VaultAssumption DEF FindKey, At, AfterInit, Requests, Entries
      <4>2. using'[u].step = AfterInit(using[u].entry.backend) /\ using'[u].entry = using[u].entry
        BY <1>0, <2>2, <3>3 DEF Goto, FindKey, At, Requests
      <4>3. QED
        BY <2>0, <2>2, <2>a, <2>b, <4>1, <4>2, CalmKey DEF FindKey, At, OneKey
    <3>4. QED
      BY <2>2, <3>1, <3>2, <3>3 DEF FindKey
  <2>3. CASE OpenKey(u)
    <3>1. /\ keyFile = Absent /\ keyFile' = Empty /\ entry' = entry
          /\ \A v \in Users : At(v, "new key") => v = u
      BY <2>0, <2>3 DEF OpenKey, OneKey
    <3>2. \A v \in Users : ~At(v, "key opened")
      BY <2>0, <3>1, VaultValues DEF OneKey
    <3>3. \A v \in Users : using[v] # AtRest => using[v].entry.key = 0
      BY <2>b, <3>1, VaultValues, ZenonT(40) DEF Requests, Entries
    <3>4. entry \in Entries => entry.key = 0
      BY <2>0, <3>1, VaultValues DEF OneKey, Entries
    <3>5. using'[u] # AtRest /\ using'[u].step = "key opened" /\ using'[u].entry = using[u].entry
      <4>1. using[u] # AtRest /\ using[u] \in Requests
        BY <1>0, <2>3 DEF OpenKey, At
      <4>2. using'[u] = [using[u] EXCEPT !.step = "key opened"] /\ using'[u] \in Requests
        BY <1>0, <2>3, <4>1 DEF OpenKey, Goto, Requests, Steps
      <4>3. QED
        BY <4>1, <4>2, VaultValues DEF Requests
    <3>6. QED
      BY <2>3, <2>a, <3>1, <3>2, <3>3, <3>4, <3>5, ZenonT(40) DEF OneKey, Kept, At, OpenKey
  <2>4. CASE WriteKey(u)
    <3>1. /\ keyFile = Empty /\ keyFile' = using[u].call /\ entry' = entry
          /\ \A v \in Users : At(v, "key opened") => v = u
      BY <2>0, <2>4 DEF WriteKey, OneKey
    <3>2. \A v \in Users : ~At(v, "new key")
      BY <2>0, <3>1, VaultValues DEF OneKey
    <3>3. \A v \in Users : using[v] # AtRest => using[v].entry.key = 0
      BY <2>b, <3>1, VaultValues, ZenonT(40) DEF Requests, Entries
    <3>4. entry \in Entries => entry.key = 0
      BY <2>0, <3>1, VaultValues DEF OneKey, Entries
    <3>5. AfterInit(using[u].entry.backend) \in {"seal", "store", "write"}
      BY <1>0, <2>4, VaultAssumption DEF WriteKey, At, AfterInit, Requests, Entries
    <3>6. using'[u].step = AfterInit(using[u].entry.backend) /\ using'[u].entry = using[u].entry
      BY <1>0, <2>4 DEF Goto, WriteKey, At, Requests
    <3>7. QED
      BY <2>4, <2>a, <3>1, <3>2, <3>3, <3>4, <3>5, <3>6, ZenonT(40) DEF OneKey, Kept, At, WriteKey
  <2>5. CASE Seal(u)
    <3>1. CASE EndCall(u)
      BY <2>0, <2>5, <2>a, <3>1, <1>0, CalmKey DEF Seal, EndCall, OneKey
    <3>2. CASE using' = [using EXCEPT ![u].entry.key = keyFile, ![u].step = "write"]
      <4>1. using'[u].entry.key = keyFile /\ using'[u].step = "write"
        BY <1>0, <2>5, <3>2 DEF Seal, At, Requests, Entries
      <4>2. QED
        BY <2>0, <2>5, <2>a, <4>1, CalmKey DEF Seal, OneKey
    <3>3. QED
      BY <2>5, <3>1, <3>2 DEF Seal
  <2>6. CASE Unseal(u)
    <3>1. using'[u] = AtRest \/ (using'[u].step = "touch" /\ using'[u].entry = using[u].entry)
      BY <1>0, <2>6 DEF Unseal, At, Goto, EndCall, Requests
    <3>2. QED
      BY <2>0, <2>6, <2>a, <2>b, <3>1, CalmKey DEF Unseal, At, OneKey
  <2>7. CASE StorePassword(u)
    <3>1. using'[u].step = "write" /\ using'[u].entry = using[u].entry
      BY <1>0, <2>7 DEF StorePassword, At, Requests
    <3>2. QED
      BY <2>0, <2>7, <2>a, <2>b, <3>1, CalmKey DEF StorePassword, At, OneKey
  <2>8. CASE Touch(u)
    <3>1. CASE EndCall(u)
      BY <2>0, <2>8, <2>a, <3>1, <1>0, CalmKey DEF Touch, EndCall, OneKey
    <3>2. CASE entry \notin Unreadable
               /\ using' = [using EXCEPT ![u].entry = entry, ![u].step = "write"]
      <4>1. using'[u].entry = entry /\ using'[u].step = "write"
        BY <1>0, <2>8, <3>2 DEF Touch, At, Requests
      <4>2. entry \in Entries
        BY <3>2 DEF Shapes, VaultTypeOK
      <4>3. QED
        BY <2>0, <2>8, <2>a, <4>1, <4>2, CalmKey DEF Touch, OneKey
    <3>3. QED
      BY <2>8, <3>1, <3>2 DEF Touch
  <2>9. CASE OpenEntry(u)
    <3>1. using'[u].step = "opened" /\ using'[u].entry = using[u].entry
      BY <1>0, <2>9 DEF OpenEntry, At, Goto, Requests
    <3>2. entry' \notin Entries
      BY <2>9, VaultValues DEF OpenEntry, Unreadable
    <3>3. QED
      BY <2>0, <2>9, <2>a, <2>b, <3>1, <3>2, CalmKey DEF OpenEntry, At
  <2>10. CASE WriteEntry(u)
    <3>1. using'[u] = AtRest
      BY <1>0, <2>10 DEF WriteEntry, EndCall, EndUpdate
    <3>2. entry' = using[u].entry \/ entry' \notin Entries
      BY <2>10, VaultValues DEF WriteEntry, Unreadable
    <3>3. QED
      BY <2>0, <2>10, <2>a, <2>b, <3>1, <3>2, CalmKey DEF WriteEntry, At
  <2>11. CASE Remove(u)
    <3>1. using'[u] = AtRest /\ (entry' = entry \/ entry' \notin Entries)
      BY <1>0, <2>11, VaultValues DEF Remove, EndCall, EndUpdate, Unreadable
    <3>2. QED
      BY <2>0, <2>11, <2>a, <3>1, CalmKey DEF Remove, OneKey
  <2>12. CASE WriteNowhere(u) \/ Quit(u)
    <3>1. using'[u] = AtRest /\ entry' = entry /\ keyFile' = keyFile
      BY <1>0, <2>12 DEF WriteNowhere, Quit, EndCall
    <3>2. QED
      BY <2>0, <2>a, <3>1, CalmKey DEF OneKey
  <2>13. QED
    BY <1>2, <2>1, <2>2, <2>3, <2>4, <2>5, <2>6, <2>7, <2>8, <2>9, <2>10, <2>11, <2>12 DEF Act
<1>3. QED
  BY <1>1, <1>2 DEF VaultNext, Act
-----------------------------------------------------------------------------
(* The update of a put or a delete: the entry is theirs. *)
Updates(u) == \/ WriteEntry(u) /\ using[u].kind = "put"
              \/ Remove(u) /\ entry # Absent

(* Any other step puts nothing into the file that was not in force, and    *)
(* leaves nobody with anything else to write.                              *)
CalmEntry(u) ==
  /\ wanted' = wanted
  /\ lost' \/
     /\ ~lost
     /\ entry' \in Entries => entry' \in InForce
     /\ Touching(u)' => using'[u].entry \in InForce
     /\ entry' = Empty => \/ entry = Empty /\ (Opened(u) => Opened(u)')
                          \/ Opened(u)'
     /\ entry' = Garbled => entry = Garbled
     /\ entry' = Absent => entry = Absent

LEMMA StepCalm ==
  ASSUME Shapes, Shapes', NEW u \in Users, Act(u), ~Updates(u)
  PROVE  CalmEntry(u)
<1>0. /\ using \in [Users -> Requests \union {AtRest}]
      /\ using' \in [Users -> Requests \union {AtRest}]
      /\ entry \in Entries \union Unreadable
      /\ \A v \in Users : using[v] # AtRest => using[v] \in Requests /\ Shape(using[v])
  BY DEF Shapes, VaultTypeOK
<1>a. entry \in Entries => entry \in InForce
  BY DEF InForce
<1>b. Touching(u) => using[u].entry \in InForce
  BY <1>0 DEF InForce, Touching, Requests
<1>c. Absent \notin Entries /\ Empty \notin Entries /\ Garbled \notin Entries
      /\ Absent # Empty /\ Absent # Garbled /\ Empty # Garbled
  BY VaultValues DEF Unreadable
<1>1. ASSUME UNCHANGED <<entry, wanted, lost>>, Touching(u)' => using'[u].entry \in InForce,
             Opened(u) => Opened(u)'
      PROVE  CalmEntry(u)
  BY <1>1, <1>a DEF CalmEntry
<1>2. CASE BeginPut(u) \/ BeginUse(u) \/ BeginDelete(u)
  <2>1. ~Touching(u)' /\ ~Opened(u)
    <3>1. using[u] = AtRest /\ using'[u].step \notin Writing
      BY <1>2, Begun DEF Writing
    <3>2. QED
      BY <3>1 DEF Touching, Opened, At
  <2>2. QED
    BY <1>1, <1>2, <2>1, Begun
<1>3. CASE FindKey(u) \/ OpenKey(u) \/ WriteKey(u) \/ Seal(u) \/ StorePassword(u)
  <2>1. using[u] \in Requests /\ using[u].kind = "put" /\ using[u].step \notin Writing
    <3>1. using[u] \in Requests /\ Shape(using[u])
          /\ using[u].step \in {"init", "new key", "key opened", "seal", "store"}
      BY <1>0, <1>3 DEF FindKey, OpenKey, WriteKey, Seal, StorePassword, At
    <3>2. QED
      BY <3>1 DEF Requests, Shape, UseSteps, Writing
  <2>2. using'[u] = AtRest \/ using'[u].kind = "put"
    <3>1. CASE FindKey(u) \/ OpenKey(u) \/ WriteKey(u)
      BY <1>0, <2>1, <3>1, ZenonT(40) DEF FindKey, OpenKey, WriteKey, Goto, EndCall, Requests
    <3>2. CASE Seal(u) \/ StorePassword(u)
      BY <1>0, <2>1, <3>2 DEF Seal, StorePassword, EndCall, Requests
    <3>3. QED
      BY <1>3, <3>1, <3>2
  <2>3. QED
    BY <1>1, <1>3, <2>1, <2>2
    DEF FindKey, OpenKey, WriteKey, Seal, StorePassword, Touching, Opened, At, Writing
<1>4. CASE Unseal(u)
  <2>1. using[u] \in Requests /\ using[u].step = "open key"
    BY <1>0, <1>4 DEF Unseal, At
  <2>2. using'[u] = AtRest \/ using'[u].step = "touch"
    BY <1>0, <1>4, <2>1 DEF Unseal, Goto, EndCall, Requests
  <2>3. QED
    BY <1>1, <1>4, <2>1, <2>2 DEF Unseal, Touching, Opened, At, Writing
<1>5. CASE Touch(u)
  <2>1. using[u] \in Requests /\ using[u].step = "touch"
    BY <1>0, <1>5 DEF Touch, At
  <2>2. using'[u] = AtRest \/ (using'[u].entry = entry /\ entry \in Entries)
    <3>1. CASE entry \in Unreadable
      BY <1>0, <1>5, <3>1 DEF Touch, EndCall
    <3>2. CASE entry \notin Unreadable
      BY <1>0, <1>5, <2>1, <3>2 DEF Touch, Requests
    <3>3. QED
      BY <3>1, <3>2
  <2>3. QED
    BY <1>1, <1>5, <1>a, <2>1, <2>2 DEF Touch, Touching, Opened, At
<1>6. CASE OpenEntry(u)
  <2>1. using[u] \in Requests /\ Shape(using[u]) /\ using[u].step = "write" /\ using[u] # AtRest
    BY <1>0, <1>6 DEF OpenEntry, At
  <2>2. using'[u] = [using[u] EXCEPT !.step = "opened"]
    BY <1>0, <1>6 DEF OpenEntry, Goto
  <2>3. using'[u] \in Requests
    BY <2>1, <2>2 DEF Requests, Steps
  <2>4. /\ using'[u] # AtRest /\ using'[u].step = "opened" /\ using'[u].entry = using[u].entry
        /\ using'[u].kind = using[u].kind /\ using'[u].overtaken = using[u].overtaken
        /\ using'[u].gone = using[u].gone
    BY <2>1, <2>2, <2>3, VaultValues DEF Requests
  <2>5. ~using[u].gone
    BY <2>1 DEF Shape
  <2>6. Opened(u)' /\ (Touching(u)' => Touching(u))
    BY <2>1, <2>4, <2>5 DEF Opened, At, Touching, Writing
  <2>7. QED
    BY <1>6, <1>b, <1>c, <2>4, <2>6 DEF CalmEntry, OpenEntry
<1>7. CASE WriteEntry(u)
  <2>1. /\ using[u] # AtRest /\ using[u] \in Requests /\ Shape(using[u])
        /\ using[u].step = "opened" /\ using[u].kind # "put"
    BY <1>0, <1>7 DEF WriteEntry, At, Updates
  <2>2. using[u].kind = "use"
    BY <2>1 DEF Shape, Requests
  <2>3. using'[u] = AtRest
    BY <1>0, <1>7, <2>1 DEF WriteEntry, EndCall
  <2>4. /\ wanted' = wanted /\ lost' = (lost \/ using[u].overtaken \/ entry' = Garbled)
        /\ entry' = using[u].entry \/ entry' = Garbled
    BY <1>7, <2>1 DEF WriteEntry
  <2>5. using[u].entry \in Entries
    BY <2>1 DEF Requests
  <2>6. ~using[u].overtaken => Touching(u)
    BY <2>1, <2>2 DEF Touching, Writing
  <2>7. CASE lost'
    BY <2>4, <2>7 DEF CalmEntry
  <2>8. CASE ~lost'
    <3>1. ~lost /\ entry' = using[u].entry /\ using[u].entry \in InForce
      BY <1>b, <2>4, <2>6, <2>8
    <3>2. QED
      BY <1>c, <2>3, <2>4, <2>5, <3>1 DEF CalmEntry, Touching
  <2>9. QED
    BY <2>7, <2>8
<1>8. CASE WriteNowhere(u)
  <2>1. using'[u] = AtRest /\ ~Opened(u)
    BY <1>0, <1>8 DEF WriteNowhere, EndCall, Opened
  <2>2. QED
    BY <1>1, <1>8, <2>1 DEF WriteNowhere, Touching
<1>9. CASE Remove(u)
  <2>1. using'[u] = AtRest /\ ~Opened(u) /\ UNCHANGED <<entry, wanted, lost>>
    BY <1>0, <1>9 DEF Remove, EndCall, Updates, Opened, At
  <2>2. QED
    BY <1>1, <2>1 DEF Touching
<1>10. CASE Quit(u)
  <2>1. using'[u] = AtRest /\ UNCHANGED <<entry, wanted>> /\ lost' = (lost \/ Opened(u))
    BY <1>0, <1>10 DEF Quit, EndCall, Opened
  <2>2. CASE lost'
    BY <2>1, <2>2 DEF CalmEntry
  <2>3. CASE ~lost'
    BY <1>a, <2>1, <2>3 DEF CalmEntry, Touching
  <2>4. QED
    BY <2>2, <2>3
<1>11. QED
  BY <1>2, <1>3, <1>4, <1>5, <1>6, <1>7, <1>8, <1>9, <1>10 DEF Act

LEMMA CalmForce ==
  ASSUME Shapes, Shapes', NEW u \in Users, Act(u), CalmEntry(u), ~lost'
  PROVE  InForce' \subseteq InForce
<1>1. ASSUME NEW v \in Users, Touching(v)' PROVE using'[v].entry \in InForce
  <2>1. CASE v = u
    BY <1>1, <2>1 DEF CalmEntry
  <2>2. CASE v # u
    <3>1. Kept(v) /\ Marked(u, v)
      BY <2>2, OthersKept
    <3>2. Touching(v) /\ using'[v].entry = using[v].entry
      BY <1>1, <3>1 DEF Kept, Marked, Touching
    <3>3. using[v].entry \in Entries
      BY <3>2 DEF Touching, Shapes, VaultTypeOK, Requests
    <3>4. QED
      BY <3>2, <3>3 DEF InForce
  <2>3. QED
    BY <2>1, <2>2
<1>2. QED
  BY <1>1 DEF CalmEntry, InForce

(* What an update leaves: the entry of the put, or none, and no touch that *)
(* would still count.                                                      *)
LEMMA UpdateForce ==
  ASSUME Shapes, Shapes', NEW u \in Users, Updates(u), ~lost'
  PROVE  /\ \A v \in Users : ~Touching(v)'
         /\ \/ WriteEntry(u) /\ using[u].kind = "put" /\ using[u] \in Requests
               /\ Shape(using[u]) /\ entry' = using[u].entry /\ wanted' = using[u].call
            \/ Remove(u) /\ entry # Absent /\ entry' = Absent /\ wanted' = Absent
         /\ using'[u] = AtRest
<1>1. PICK unlinked \in BOOLEAN : EndUpdate(u, unlinked)
  BY DEF Updates, WriteEntry, Remove
<1>2. using'[u] = AtRest
  BY <1>1 DEF EndUpdate
<1>3. ASSUME NEW v \in Users PROVE ~Touching(v)'
  <2> DEFINE r == [using[v] EXCEPT !.overtaken = @ \/ using[v].step \in {"write", "opened"},
                                   !.gone = @ \/ (unlinked /\ using[v].step = "opened")]
  <2>1. CASE v = u \/ using[v] = AtRest
    BY <1>1, <2>1 DEF EndUpdate, Touching
  <2>2. CASE v # u /\ using[v] # AtRest
    <3>1. using[v] \in Requests /\ using'[v] = r
      BY <1>1, <2>2 DEF EndUpdate, Shapes, VaultTypeOK
    <3>2. r.step = using[v].step /\ (using[v].step \in Writing => r.overtaken)
      BY <3>1 DEF Requests, Writing
    <3>3. QED
      BY <3>1, <3>2 DEF Touching
  <2>3. QED
    BY <2>1, <2>2
<1>4. CASE WriteEntry(u) /\ using[u].kind = "put"
  <2>1. using[u] # AtRest /\ using[u] \in Requests /\ Shape(using[u])
    BY <1>4 DEF WriteEntry, At, Shapes, VaultTypeOK
  <2>2. entry' = using[u].entry /\ wanted' = using[u].call
    BY <1>4 DEF WriteEntry
  <2>3. QED
    BY <1>2, <1>3, <1>4, <2>1, <2>2
<1>5. CASE Remove(u) /\ entry # Absent
  BY <1>2, <1>3, <1>5 DEF Remove
<1>6. QED
  BY <1>4, <1>5 DEF Updates

LEMMA StepHeld == Shapes /\ Shapes' /\ HeldInForce /\ [VaultNext]_vaultVars => HeldInForce'
<1> SUFFICES ASSUME Shapes, Shapes', HeldInForce, [VaultNext]_vaultVars, ~lost' PROVE HeldInForce'
  BY DEF HeldInForce
<1>1. CASE UNCHANGED vaultVars
  BY <1>1 DEF vaultVars, HeldInForce, InForce, Touching, Opened, At
<1>2. ASSUME NEW u \in Users, Act(u), Updates(u) PROVE HeldInForce'
  <2>1. \A v \in Users : ~Touching(v)'
    BY <1>2, UpdateForce
  <2>2. \A e \in InForce' : e = entry'
    BY <2>1 DEF InForce
  <2>3. CASE /\ using[u].kind = "put" /\ using[u] \in Requests /\ Shape(using[u])
             /\ entry' = using[u].entry /\ wanted' = using[u].call
    <3>1. entry' \in Entries /\ entry'.of = wanted'
      BY <2>3 DEF Requests, Shape
    <3>2. QED
      BY <2>2, <3>1, VaultValues DEF HeldInForce, Unreadable
  <2>4. CASE entry' = Absent /\ wanted' = Absent
    <3>1. InForce' = {}
      BY <2>2, <2>4, VaultValues DEF InForce, Unreadable
    <3>2. QED
      BY <2>4, <3>1, VaultValues DEF HeldInForce
  <2>5. QED
    BY <1>2, <2>3, <2>4, UpdateForce
<1>3. ASSUME NEW u \in Users, Act(u), ~Updates(u) PROVE HeldInForce'
  <2>1. CalmEntry(u) /\ ~lost
    BY <1>3, StepCalm DEF CalmEntry
  <2>2. InForce' \subseteq InForce
    BY <1>3, <2>1, CalmForce
  <2>3. \A e \in InForce' : e.of = wanted'
    BY <2>1, <2>2 DEF HeldInForce, CalmEntry
  <2>4. entry' = Empty => \E v \in Users : Opened(v)'
    <3>1. SUFFICES ASSUME entry = Empty, Opened(u) => Opened(u)' PROVE \E v \in Users : Opened(v)'
      BY <2>1 DEF CalmEntry
    <3>2. PICK v \in Users : Opened(v)
      BY <2>1, <3>1 DEF HeldInForce
    <3>3. CASE v = u
      BY <3>1, <3>2, <3>3
    <3>4. CASE v # u
      <4>1. Kept(v) /\ Marked(u, v)
        BY <1>3, <3>4, OthersKept
      <4>2. ~(Remove(u) /\ entry # Absent)
        BY <1>3 DEF Updates
      <4>3. Opened(v)'
        BY <3>2, <4>1, <4>2 DEF Kept, Marked, Opened, At
      <4>4. QED
        BY <4>3
    <3>5. QED
      BY <3>3, <3>4
  <2>5. QED
    BY <2>1, <2>3, <2>4 DEF HeldInForce, CalmEntry
<1>4. QED
  BY <1>1, <1>2, <1>3 DEF VaultNext, Act
-----------------------------------------------------------------------------
LEMMA StepPassword ==
  Shapes /\ Shapes' /\ PasswordInForce /\ [VaultNext]_vaultVars => PasswordInForce'
<1> SUFFICES ASSUME Shapes, Shapes', PasswordInForce, [VaultNext]_vaultVars PROVE PasswordInForce'
  OBVIOUS
<1>0. /\ using \in [Users -> Requests \union {AtRest}]
      /\ using' \in [Users -> Requests \union {AtRest}]
      /\ \A v \in Users : using[v] # AtRest => using[v] \in Requests /\ Shape(using[v])
  BY DEF Shapes, VaultTypeOK
<1>1. CASE UNCHANGED vaultVars
  BY <1>1 DEF vaultVars, PasswordInForce, InForce, Touching, Latest, Between
<1>2. ASSUME NEW u \in Users, Act(u) PROVE PasswordInForce'
  <2>1. ASSUME NEW v \in Users, v # u
        PROVE  /\ Latest(v)' => Latest(v) /\ using'[v].call = using[v].call
               /\ Latest(v) /\ ~StorePassword(u) => Latest(v)'
               /\ Latest(v)' /\ using'[v].gone => using[v].gone \/ (Remove(u) /\ entry # Absent)
    <3>1. Kept(v) /\ Marked(u, v)
      BY <1>2, <2>1, OthersKept
    <3>2. QED
      BY <3>1 DEF Kept, Marked, Latest, Between
  <2>2. CASE StorePassword(u)
    <3>1. using[u] \in Requests /\ using[u].step = "store" /\ Shape(using[u]) /\ using[u] # AtRest
      BY <1>0, <2>2 DEF StorePassword, At
    <3>2. using'[u] = [using[u] EXCEPT !.step = "write"]
      BY <1>0, <2>2 DEF StorePassword
    <3>3. /\ using'[u].step = "write" /\ using'[u].kind = "put" /\ using'[u].call = using[u].call
          /\ using'[u].entry.backend = "pass" /\ ~using'[u].crossed /\ ~using'[u].gone
      BY <3>1, <3>2 DEF Requests, Shape, UseSteps, Writing
    <3>4. Latest(u)'
      <4>1. using'[u] \in Requests
        BY <3>1, <3>2 DEF Requests, Steps
      <4>2. QED
        BY <3>3, <4>1, VaultValues DEF Latest, Between
    <3>5. ASSUME NEW v \in Users, v # u PROVE ~Latest(v)'
      <4>1. using'[v] = IF Between(v) THEN [using[v] EXCEPT !.crossed = TRUE] ELSE using[v]
        BY <2>2, <3>5 DEF StorePassword
      <4>2. CASE Between(v)
        <5>1. using[v] \in Requests
          BY <1>0, <4>2 DEF Between
        <5>2. QED
          BY <4>1, <4>2, <5>1 DEF Requests, Latest
      <4>3. CASE ~Between(v)
        BY <4>1, <4>3 DEF Latest, Between
      <4>4. QED
        BY <4>2, <4>3
    <3>6. password' = using'[u].call
      BY <2>2, <3>3 DEF StorePassword
    <3>7. QED
      BY <3>3, <3>4, <3>5, <3>6 DEF PasswordInForce
  <2>3. CASE Updates(u)
    <3>1. using'[u] = AtRest /\ password' = password
      BY <1>0, <2>3 DEF Updates, WriteEntry, Remove, EndUpdate
    <3>2. ASSUME NEW v \in Users, Latest(v)' PROVE v # u /\ Latest(v) /\ using'[v].call = using[v].call
      BY <2>1, <3>1, <3>2 DEF Latest, Between
    <3>3. ASSUME ~lost', ~split', NEW e \in InForce', e.backend = "pass"
          PROVE  Latest(u) /\ e.of = using[u].call
      <4>1. e = entry' /\ e \in Entries
        BY <2>3, <3>3, UpdateForce DEF InForce
      <4>2. entry' # Absent
        BY <4>1, VaultValues DEF Unreadable
      <4>3. /\ WriteEntry(u) /\ using[u].kind = "put" /\ using[u] \in Requests
            /\ Shape(using[u]) /\ entry' = using[u].entry
        BY <2>3, <3>3, <4>2, UpdateForce
      <4>4. Between(u)
        BY <3>3, <4>1, <4>3 DEF WriteEntry, Between, At
      <4>5. ~using[u].crossed
        BY <3>3, <4>3, <4>4 DEF WriteEntry
      <4>6. QED
        BY <4>1, <4>3, <4>4, <4>5 DEF Latest, Shape
    <3>4. QED
      BY <3>1, <3>2, <3>3 DEF PasswordInForce
  <2>4. CASE ~StorePassword(u) /\ ~Updates(u)
    <3>1. CalmEntry(u) /\ password' = password /\ (split' = split \/ split')
      <4>1. ~(WriteEntry(u) /\ using[u].kind = "put") /\ ~(Remove(u) /\ entry # Absent)
        BY <2>4 DEF Updates
      <4>2. password' = password /\ (split' = split \/ split')
        <5>1. CASE BeginPut(u) \/ BeginUse(u) \/ BeginDelete(u)
          BY <5>1, Begun
        <5>2. CASE FindKey(u) \/ OpenKey(u) \/ WriteKey(u) \/ Seal(u) \/ Unseal(u) \/ Touch(u)
          BY <5>2 DEF FindKey, OpenKey, WriteKey, Seal, Unseal, Touch
        <5>3. CASE OpenEntry(u) \/ WriteEntry(u) \/ WriteNowhere(u)
          BY <4>1, <5>3 DEF OpenEntry, WriteEntry, WriteNowhere
        <5>4. CASE Remove(u)
          BY <5>4 DEF Remove
        <5>5. CASE Quit(u)
          BY <5>5 DEF Quit, Shapes, VaultTypeOK
        <5>6. QED
          BY <1>2, <2>4, <5>1, <5>2, <5>3, <5>4, <5>5 DEF Act
      <4>3. QED
        BY <1>2, <2>4, <4>2, StepCalm
    <3>2. /\ Latest(u)' => Latest(u) /\ using'[u].call = using[u].call /\ (using'[u].gone => using[u].gone)
          /\ Latest(u) => Latest(u)' \/ split' \/ using[u].gone
      <4>1. CASE BeginPut(u) \/ BeginUse(u) \/ BeginDelete(u)
        <5>1. using[u] = AtRest /\ using'[u].step \notin Writing
          BY <4>1, Begun DEF Writing
        <5>2. QED
          BY <5>1 DEF Latest, Between, Writing
      <4>2. CASE FindKey(u) \/ OpenKey(u) \/ WriteKey(u)
        <5>1. using[u] \in Requests /\ using[u].step \in {"init", "new key", "key opened"}
          BY <1>0, <4>2 DEF FindKey, OpenKey, WriteKey, At
        <5>2. \/ using'[u] = AtRest
              \/ using'[u].step \in {"new key", "key opened"}
              \/ using'[u].step = AfterInit(using[u].entry.backend) /\ using'[u].entry = using[u].entry
          <6>1. CASE FindKey(u)
            <7>1. CASE EndCall(u)
              BY <1>0, <7>1 DEF EndCall
            <7>2. CASE Goto(u, "new key")
              BY <1>0, <5>1, <7>2 DEF Goto, Requests
            <7>3. CASE Goto(u, AfterInit(using[u].entry.backend))
              BY <1>0, <5>1, <7>3 DEF Goto, Requests
            <7>4. QED
              BY <6>1, <7>1, <7>2, <7>3 DEF FindKey
          <6>2. CASE OpenKey(u)
            BY <1>0, <5>1, <6>2 DEF OpenKey, Goto, Requests
          <6>3. CASE WriteKey(u)
            BY <1>0, <5>1, <6>3 DEF WriteKey, Goto, Requests
          <6>4. QED
            BY <4>2, <6>1, <6>2, <6>3
        <5>3. AfterInit("pass") = "store"
          BY DEF AfterInit
        <5>4. QED
          BY <5>1, <5>2, <5>3 DEF Latest, Between
      <4>3. CASE Seal(u)
        <5>1. using[u] \in Requests /\ using[u].step = "seal" /\ using[u].entry.backend = "local"
          BY <1>0, <4>3 DEF Seal, At, Shape
        <5>2. using'[u] = AtRest \/ using'[u].entry.backend = "local"
          BY <1>0, <4>3, <5>1 DEF Seal, EndCall, Requests, Entries
        <5>3. QED
          BY <5>1, <5>2 DEF Latest, Between
      <4>4. CASE Unseal(u) \/ Touch(u)
        <5>1. /\ using[u] \in Requests /\ Shape(using[u])
              /\ using[u].step \in {"open key", "touch"}
          BY <1>0, <4>4 DEF Unseal, Touch, At
        <5>2. using[u].kind = "use"
          BY <5>1 DEF Shape, PutSteps, Writing, Requests
        <5>3. using'[u] = AtRest \/ using'[u].kind = "use"
          <6>1. CASE Unseal(u)
            <7>1. CASE EndCall(u)
              BY <1>0, <7>1 DEF EndCall
            <7>2. CASE Goto(u, "touch")
              BY <1>0, <5>1, <5>2, <7>2 DEF Goto, Requests
            <7>3. QED
              BY <6>1, <7>1, <7>2 DEF Unseal
          <6>2. CASE Touch(u)
            <7>1. CASE EndCall(u)
              BY <1>0, <7>1 DEF EndCall
            <7>2. CASE using' = [using EXCEPT ![u].entry = entry, ![u].step = "write"]
              BY <1>0, <5>1, <5>2, <7>2 DEF Requests
            <7>3. QED
              BY <6>2, <7>1, <7>2 DEF Touch
          <6>3. QED
            BY <4>4, <6>1, <6>2
        <5>4. QED
          BY <5>1, <5>2, <5>3 DEF Latest, Between
      <4>5. CASE OpenEntry(u)
        <5>1. using[u] # AtRest /\ using[u] \in Requests /\ using[u].step = "write"
          BY <1>0, <4>5 DEF OpenEntry, At
        <5>2. using'[u] = [using[u] EXCEPT !.step = "opened"] /\ using'[u] \in Requests
          BY <1>0, <4>5, <5>1 DEF OpenEntry, Goto, Requests, Steps
        <5>3. /\ using'[u] # AtRest /\ using'[u].step = "opened" /\ using'[u].kind = using[u].kind
              /\ using'[u].entry = using[u].entry /\ using'[u].call = using[u].call
              /\ using'[u].gone = using[u].gone /\ using'[u].crossed = using[u].crossed
          BY <5>1, <5>2, VaultValues DEF Requests
        <5>4. QED
          BY <5>1, <5>3 DEF Latest, Between
      <4>6. CASE WriteEntry(u) \/ WriteNowhere(u) \/ Remove(u)
        <5>1. using'[u] = AtRest
          BY <1>0, <2>4, <4>6 DEF WriteEntry, WriteNowhere, Remove, Updates, EndCall
        <5>2. using[u].kind # "put" \/ using[u].gone
          BY <1>0, <2>4, <4>6 DEF WriteEntry, WriteNowhere, Remove, Updates, At, Shape, PutSteps, Writing
        <5>3. QED
          BY <5>1, <5>2 DEF Latest, Between
      <4>7. CASE Quit(u)
        <5>1. using'[u] = AtRest /\ (Latest(u) => split')
          BY <1>0, <4>7 DEF Quit, EndCall, Latest
        <5>2. QED
          BY <5>1 DEF Latest, Between
      <4>8. QED
        BY <1>2, <2>4, <4>1, <4>2, <4>3, <4>4, <4>5, <4>6, <4>7 DEF Act
    <3>3. ASSUME ~lost' PROVE ~lost /\ InForce' \subseteq InForce
      BY <1>2, <3>1, <3>3, CalmForce DEF CalmEntry
    <3>4. ~(Remove(u) /\ entry # Absent)
      BY <2>4 DEF Updates
    <3>5. \A v \in Users : Latest(v)' => Latest(v) /\ using'[v].call = using[v].call
                                         /\ (using'[v].gone => using[v].gone)
      BY <2>1, <3>2, <3>4
    <3>6. \A v \in Users : Latest(v) => Latest(v)' \/ split' \/ using[v].gone
      BY <2>1, <2>4, <3>2
    <3>7. QED
      BY <3>1, <3>3, <3>5, <3>6 DEF PasswordInForce
  <2>5. QED
    BY <2>2, <2>3, <2>4
<1>3. QED
  BY <1>1, <1>2 DEF VaultNext, Act
-----------------------------------------------------------------------------
LEMMA VaultInvariant == VaultSpec => []VaultInv
<1>1. VaultInit => VaultInv
  <2> SUFFICES ASSUME VaultInit PROVE VaultInv
    OBVIOUS
  <2>1. Shapes
    BY InitShapes
  <2>2. entry = Absent /\ wanted = Absent /\ entry \notin Entries /\ entry # Empty /\ entry # Garbled
    BY VaultValues DEF VaultInit, Unreadable
  <2>3. \A u \in Users : using[u] = AtRest
    BY DEF VaultInit
  <2>4. InForce = {}
    BY <2>2, <2>3 DEF InForce, Touching
  <2>5. QED
    BY <2>1, <2>2, <2>3, <2>4
    DEF VaultInv, OneKey, HeldInForce, PasswordInForce, At, Latest, Between
<1>2. VaultInv /\ [VaultNext]_vaultVars => VaultInv'
  BY StepShapes, StepKey, StepHeld, StepPassword DEF VaultInv
<1>3. QED
  BY <1>1, <1>2, PTL DEF VaultSpec

(* The variables of the vault keep their types: no entry of the local      *)
(* backend is unsealed, and no call writes half a key (Put, masterKey).    *)
THEOREM VaultTypeCorrect == VaultSpec => []VaultTypeOK
<1>1. VaultInv => VaultTypeOK
  BY DEF VaultInv, Shapes
<1>2. QED
  BY <1>1, VaultInvariant, PTL

(* For any number of processes, what the last put or delete left is what   *)
(* the vault has, unless a touch that had read before it, two writers at   *)
(* once or a death while writing undid it (Put, Delete, touchLastUsed).    *)
THEOREM VaultKeepsPuts == VaultSpec => []PutsHold
<1>1. VaultInv => PutsHold
  <2> SUFFICES ASSUME VaultInv, ~lost, ~\E u \in Users : Opened(u)
               PROVE  IF wanted = Absent THEN entry = Absent
                      ELSE entry \notin Unreadable /\ entry.of = wanted
    BY DEF PutsHold, Opened
  <2>1. entry # Empty /\ entry # Garbled /\ (entry = Absent => wanted = Absent)
    BY DEF VaultInv, HeldInForce
  <2>2. entry \in Entries \/ entry = Absent
    BY <2>1 DEF VaultInv, Shapes, VaultTypeOK, Unreadable
  <2>3. CASE entry \in Entries
    <3>1. entry.of = wanted /\ entry.of \in VaultCalls
      BY <2>3 DEF VaultInv, HeldInForce, InForce, Entries
    <3>2. QED
      BY <2>3, <3>1, VaultValues
  <2>4. CASE entry = Absent
    BY <2>1, <2>4
  <2>5. QED
    BY <2>2, <2>3, <2>4
<1>2. QED
  BY <1>1, VaultInvariant, PTL

(* A secret sealed by the local backend can be opened with the key that is *)
(* in the file, whoever died where, unless two processes made the first    *)
(* key at the same time (masterKey).                                       *)
THEOREM VaultSecretsOpen == VaultSpec => []SecretOpens
<1>1. VaultInv => SecretOpens
  <2> SUFFICES ASSUME VaultInv, entry \notin Unreadable, entry.backend = "local", ~twoKeys
               PROVE  entry.key = keyFile
    BY DEF SecretOpens
  <2>1. entry \in Entries /\ entry.key # 0
    BY DEF VaultInv, Shapes, VaultTypeOK
  <2>2. QED
    BY <2>1 DEF VaultInv, OneKey
<1>2. QED
  BY <1>1, VaultInvariant, PTL

(* The fingerprint in an entry is that of the secret in the password       *)
(* manager, unless puts overlapped, one died between its two writes or the *)
(* entry was undone (putExternal).                                         *)
THEOREM VaultFingerprintTrue == VaultSpec => []FingerprintTrue
<1>1. VaultInv => FingerprintTrue
  <2> SUFFICES ASSUME VaultInv, entry \notin Unreadable, entry.backend = "pass", ~lost, ~split,
                      ~\E u \in Users : Between(u)
               PROVE  entry.of = password
    BY DEF FingerprintTrue
  <2>1. entry \in InForce
    BY DEF VaultInv, Shapes, VaultTypeOK, InForce
  <2>2. QED
    BY <2>1 DEF VaultInv, PasswordInForce, Latest
<1>2. QED
  BY <1>1, VaultInvariant, PTL
=============================================================================
