-------------------------- MODULE PendingMail_proofs ---------------------------
(***************************************************************************)
(* Theorems of PendingMail.                                                *)
(***************************************************************************)
EXTENDS PendingMail, TLAPS

(* Every text was made for a message that has been handled, or is being.   *)
InWork == IF pc \in {"remember", "reply"} THEN 1 ELSE 0
MailTypes ==
  /\ TypeOK
  /\ hand \in Pending \union {None}
  /\ texts + Len(queue) + Len(batch) <= written + InWork

Waiting(t) == {mem[t], store[t]} \ {None}
Revising(t) == pc \in {"remember", "reply"} /\ t = Target

(* Every send that waits has a draft, and no two chats the same one.       *)
Owned ==
  /\ \A t \in Targets : \A p \in Waiting(t) : drafts[p.id] # None
  /\ \A t, u \in Targets : t # u => \A p \in Waiting(t), q \in Waiting(u) : p.id # q.id

(* What waits for a chat, in memory or in the file, is what it was last    *)
(* shown, and has not been sent.                                           *)
Current ==
  \A t \in Targets : ~Revising(t) => \A p \in Waiting(t) :
    shown[t] = p /\ drafts[p.id] = p.text /\ sent[p.text] = 0

(* This process still has what it showed and is in time.                   *)
Remembered == \A t \in here : ~Revising(t) /\ InTime(t) => mem[t] = shown[t]

(* What it works on is the draft of no chat but the one it works for.      *)
InHand ==
  /\ pc # "next" =>
       /\ drafts[hand.id] = hand.text /\ sent[hand.text] = 0
       /\ \A t \in Targets : t # Target => \A p \in Waiting(t) : p.id # hand.id
  /\ pc = "reply" => mem[Target] = hand /\ store[Target] = hand
  /\ pc = "send" => Waiting(Target) = {}

(* No two drafts have one text, and none was sent twice or before it was   *)
(* written.                                                                *)
Apart ==
  /\ \A i, j \in Times : drafts[i] = drafts[j] /\ drafts[i] # None => i = j
  /\ \A i \in Times : drafts[i] # None => drafts[i] <= texts
  /\ \A x \in Texts : sent[x] <= 1 /\ (x > texts => sent[x] = 0)

Whole == Owned /\ Current /\ Remembered /\ InHand /\ Apart

MailInv == MailTypes /\ (~damaged => Whole)
-----------------------------------------------------------------------------
(* Types *)

LEMMA NotNone == /\ None \notin Pending /\ None \notin Texts /\ None \notin 0 .. MaxTime + TTL
                 /\ TTL \in Nat /\ MaxTime \in Nat /\ MaxWritten \in Nat /\ MaxFaults \in Nat
  BY MailAssumption

LEMMA PrunedType ==
  ASSUME NEW f \in Sends
  PROVE  /\ Pruned(f) \in Sends
         /\ \A t \in Targets : Pruned(f)[t] = IF f[t] # None /\ now > f[t].expires THEN None ELSE f[t]
  BY DEF Pruned, Sends

LEMMA LoadedType ==
  ASSUME MailTypes
  PROVE  /\ Loaded \in Sends
         /\ \A t \in Targets : Loaded[t] # None =>
              Loaded[t] \in Waiting(t) /\ Loaded[t] \in Pending /\ now <= Loaded[t].expires
<1>1. store \in Sends /\ mem \in Sends /\ now \in Int
  BY NotNone DEF MailTypes, TypeOK, Times
<1>2. \A t \in Targets : /\ Pruned(store)[t] = IF store[t] # None /\ now > store[t].expires THEN None ELSE store[t]
                         /\ Pruned(mem)[t] = IF mem[t] # None /\ now > mem[t].expires THEN None ELSE mem[t]
  BY <1>1, PrunedType
<1>3. \A t \in Targets : Loaded[t] = IF Pruned(store)[t] # None THEN store[t] ELSE Pruned(mem)[t]
  BY DEF Loaded
<1>4. \A t \in Targets : Loaded[t] \in {mem[t], store[t], None} /\ (Loaded[t] # None => ~(now > Loaded[t].expires))
  BY <1>2, <1>3
<1>5. \A t \in Targets : mem[t] \in Pending \union {None} /\ store[t] \in Pending \union {None}
  BY <1>1 DEF Sends
<1>6. Loaded \in Sends
  BY <1>4, <1>5 DEF Sends, Loaded
<1>7. \A p \in Pending : p.expires \in Int
  BY NotNone DEF Pending
<1>8. QED
  BY <1>1, <1>4, <1>5, <1>6, <1>7 DEF Waiting

(* Peek, Take and what Remember does to the other chats: what waits in the *)
(* end waited before.                                                      *)
LEMMA PeekStep ==
  ASSUME MailTypes, NEW t \in Targets, NEW ok \in BOOLEAN, Peek(t, ok)
  PROVE  mem' \in Sends /\ store' \in Sends /\ \A u \in Targets : Waiting(u)' \subseteq Waiting(u)
<1>1. mem' = Loaded /\ (store' = Loaded \/ store' = store)
  BY DEF Peek, Persist
<1>2. QED
  BY <1>1, LoadedType DEF Waiting, MailTypes, TypeOK

LEMMA TakeStep ==
  ASSUME MailTypes, NEW t \in Targets, NEW ok \in BOOLEAN, Take(t, ok)
  PROVE  /\ mem' \in Sends /\ store' \in Sends
         /\ \A u \in Targets : Waiting(u)' \subseteq Waiting(u)
         /\ \A u \in Targets : u # t => mem'[u] = Loaded[u]
         /\ ok => mem'[t] = None /\ store'[t] = None
<1>1. mem' = [Loaded EXCEPT ![t] = None] /\ (store' = mem' \/ store' = store) /\ (ok => store' = mem')
  BY DEF Take, Persist
<1>2. Loaded \in Sends /\ store \in Sends
  BY LoadedType DEF MailTypes, TypeOK
<1>3. mem' \in Sends /\ \A u \in Targets : mem'[u] = IF u = t THEN None ELSE Loaded[u]
  BY <1>1, <1>2 DEF Sends
<1>4. QED
  BY <1>1, <1>2, <1>3, LoadedType DEF Waiting

LEMMA BatchFacts ==
  ASSUME MailTypes, batch # <<>>
  PROVE  /\ Message \in Messages /\ Target \in Targets
         /\ Tail(batch) \in Seq(Messages) /\ Len(Tail(batch)) = Len(batch) - 1
         /\ Len(batch) \in Nat /\ Len(batch) >= 1 /\ Len(queue) \in Nat
         /\ Tail(batch) # batch
<1>1. batch \in Seq(Messages) /\ queue \in Seq(Messages)
  BY DEF MailTypes, TypeOK
<1>2. Head(batch) \in Messages /\ Tail(batch) \in Seq(Messages) /\ Len(Tail(batch)) = Len(batch) - 1
      /\ Len(batch) \in Nat /\ Len(batch) >= 1 /\ Len(queue) \in Nat
  BY <1>1
<1>3. \A n \in Nat : n - 1 # n
  OBVIOUS
<1>4. Tail(batch) # batch
  BY <1>2, <1>3, Zenon
<1>5. QED
  BY <1>2, <1>4 DEF Message, Target, Messages

(* What the clock, the chats, the server and a new process change.         *)
LEMMA OutsideTypes ==
  ASSUME MailTypes,
         \/ Tick \/ Receive \/ Restart \/ Crash
         \/ \E t \in Targets, k \in Kinds : Write(t, k)
  PROVE  MailTypes'
<1> USE NotNone
<1>0. /\ queue \in Seq(Messages) /\ batch \in Seq(Messages)
      /\ Len(queue) \in Nat /\ Len(batch) \in Nat
      /\ now \in Nat /\ written \in Nat /\ texts \in Nat /\ faults \in Nat
      /\ pc \in {"next", "remember", "reply", "send"}
  BY DEF MailTypes, TypeOK, Times
<1>1. Nothing \in Sends /\ Nothing \in [Targets -> 0 .. MaxTime + TTL \union {None}]
  BY DEF Nothing, Sends
<1>2. CASE Tick
  BY <1>0, <1>2 DEF Tick, MailTypes, TypeOK, InWork, Times, listener
<1>3. CASE Receive
  <2>1. pc = "next"
    BY <1>3 DEF Receive, MailTypes, TypeOK
  <2>2. Len(batch') = Len(queue) /\ Len(queue') = 0 /\ Len(batch) = 0
    BY <1>0, <1>3 DEF Receive
  <2>3. QED
    BY <1>0, <1>3, <2>1, <2>2 DEF Receive, MailTypes, TypeOK, InWork
<1>4. CASE Restart
  <2>1. pc = "next"
    BY <1>4 DEF Restart, MailTypes, TypeOK
  <2>2. QED
    BY <1>0, <1>1, <1>4, <2>1 DEF Restart, MailTypes, TypeOK, InWork
<1>5. CASE Crash
  <2>1. Len(batch) >= 1 /\ Len(batch') = 0 /\ batch' \in Seq(Messages)
    BY <1>0, <1>5 DEF Crash
  <2>2. faults' \in 0 .. MaxFaults /\ damaged' \in BOOLEAN
    BY <1>5 DEF Crash, Fault, MailTypes, TypeOK
  <2>3. texts' + Len(queue') + Len(batch') <= written' + InWork'
    BY <1>0, <1>5, <2>1 DEF Crash, MailTypes, InWork
  <2>4. QED
    BY <1>1, <1>5, <2>1, <2>2, <2>3 DEF Crash, MailTypes, TypeOK
<1>6. ASSUME NEW t \in Targets, NEW k \in Kinds, Write(t, k) PROVE MailTypes'
  <2>1. [target |-> t, kind |-> k, at |-> now] \in Messages
    BY DEF Messages, MailTypes, TypeOK
  <2>2. queue' \in Seq(Messages) /\ Len(queue') = Len(queue) + 1
    BY <1>0, <1>6, <2>1 DEF Write
  <2>3. texts' + Len(queue') + Len(batch') <= written' + InWork'
    BY <1>0, <1>6, <2>2 DEF Write, MailTypes, InWork, listener
  <2>4. written' \in 0 .. MaxWritten /\ texts' \in 0 .. written'
    BY <1>0, <1>6 DEF Write, MailTypes, TypeOK
  <2>5. QED
    BY <1>6, <2>2, <2>3, <2>4 DEF Write, MailTypes, TypeOK, listener
<1>7. QED
  BY <1>2, <1>3, <1>4, <1>5, <1>6

(* What a message leads to. *)
LEMMA HandledTypes ==
  ASSUME MailTypes, batch # <<>>, batch' \in {batch, Tail(batch)},
         UNCHANGED <<now, queue, written>>,
         drafts' \in [Times -> Texts \union {None}],
         store' \in Sends, mem' \in Sends, shown' \in Sends,
         mac' \in [Targets -> 0 .. MaxTime + TTL \union {None}],
         pc' \in {"next", "remember", "reply", "send"},
         pc' # "next" => batch' = batch /\ hand' \in Pending,
         batch' = batch => pc' # "next",
         hand' \in Pending \union {None},
         texts' = texts \/ (texts' = texts + 1 /\ pc = "next" /\ pc' = "remember"),
         pc \in {"remember", "reply"} /\ batch' = batch => pc' = "reply",
         faults' \in 0 .. MaxFaults, here' \subseteq Targets,
         sent' \in [Texts -> 0 .. 2], damaged' \in BOOLEAN
  PROVE  MailTypes'
<1> USE NotNone
<1>1. /\ Len(queue) \in Nat /\ Len(batch) \in Nat /\ Len(batch) >= 1
      /\ Tail(batch) \in Seq(Messages) /\ Len(Tail(batch)) = Len(batch) - 1
      /\ written \in Nat /\ texts \in Nat /\ batch \in Seq(Messages)
  BY BatchFacts DEF MailTypes, TypeOK
<1>2. texts' + Len(queue') + Len(batch') <= written' + InWork'
  <2>1. texts + Len(queue) + Len(batch) <= written + InWork /\ pc \in {"next", "remember", "reply", "send"}
    BY DEF MailTypes, TypeOK
  <2>2. CASE texts' = texts + 1
    BY <1>1, <2>1, <2>2 DEF InWork
  <2>3. CASE texts' = texts /\ batch' = batch
    BY <1>1, <2>1, <2>3 DEF InWork
  <2>4. CASE texts' = texts /\ batch' = Tail(batch)
    <3>1. Len(batch') = Len(batch) - 1 /\ texts' = texts /\ written' = written /\ Len(queue') = Len(queue)
      BY <1>1, <2>4
    <3>2. (InWork = 0 \/ InWork = 1) /\ (InWork' = 0 \/ InWork' = 1)
      BY DEF InWork
    <3>3. \A x, q, b, w \in Nat : \A i, j \in {0, 1} :
            x + q + b <= w + i => x + q + (b - 1) <= w + j
      OBVIOUS
    <3>4. QED
      BY <1>1, <2>1, <3>1, <3>2, <3>3
  <2>5. QED
    BY <2>2, <2>3, <2>4
<1>3. texts' \in 0 .. written'
  <2>1. texts' \in Nat /\ Len(batch') >= 0 /\ Len(batch') \in Nat
    BY <1>1
  <2>2. pc' = "remember" => Len(batch') >= 1
    BY <1>1
  <2>3. CASE texts' = texts
    BY <2>3 DEF MailTypes, TypeOK
  <2>4. CASE texts' = texts + 1
    BY <1>1, <2>4 DEF MailTypes, InWork
  <2>5. QED
    BY <2>3, <2>4
<1>4. batch' \in Seq(Messages)
  BY <1>1
<1>5. QED
  BY <1>2, <1>3, <1>4 DEF MailTypes, TypeOK
-----------------------------------------------------------------------------
(* Safety *)

(* Steps by which no send comes to wait and no draft is touched. *)
LEMMA CalmStep ==
  ASSUME MailTypes, Whole,
         UNCHANGED <<drafts, shown, sent, texts>>, now' \in Nat, now' >= now,
         \/ UNCHANGED <<mem, store, pc, hand, batch, here>>
         \/ /\ pc \in {"next", "send"} /\ pc' = "next"
            /\ here' \subseteq here
            /\ \A t \in Targets : Waiting(t)' \subseteq Waiting(t)
            /\ \A t \in here' : InTime(t) => mem'[t] = mem[t]
  PROVE  Whole'
<1>1. here \subseteq Targets /\ shown \in Sends /\ now \in Nat
  BY NotNone DEF MailTypes, TypeOK, Times
<1>2. \A t \in Targets : InTime(t)' => InTime(t)
  <2>1. \A t \in Targets : shown[t] # None => shown[t].expires \in Nat
    BY <1>1, NotNone DEF Sends, Pending
  <2>2. QED
    BY <1>1, <2>1 DEF InTime
<1>3. /\ \A t \in Targets : Waiting(t)' \subseteq Waiting(t)
      /\ \A t \in Targets : ~Revising(t)' => ~Revising(t)
      /\ here' \subseteq here
      /\ \A t \in here' : InTime(t) => mem'[t] = mem[t]
  BY DEF Waiting, Revising, Target, Message
<1>4. Owned'
  BY <1>3 DEF Whole, Owned
<1>5. Current'
  BY <1>3 DEF Whole, Current
<1>6. Remembered'
  BY <1>1, <1>2, <1>3 DEF Whole, Remembered
<1>7. InHand'
  BY <1>3 DEF Whole, InHand, Waiting, Target, Message
<1>8. Apart'
  BY DEF Whole, Apart
<1>9. QED
  BY <1>4, <1>5, <1>6, <1>7, <1>8 DEF Whole

LEMMA PeekKeeps ==
  ASSUME MailTypes, Whole, pc = "next", NEW t \in here, InTime(t)
  PROVE  Loaded[t] = mem[t] /\ Loaded[t] # None
<1>1. t \in Targets /\ mem[t] = shown[t] /\ mem[t] # None /\ (store[t] = None \/ store[t] = shown[t])
  BY DEF MailTypes, TypeOK, Whole, Remembered, Current, Revising, Waiting, InTime
<1>2. now \in Nat /\ mem[t].expires \in Nat /\ now <= mem[t].expires
  BY <1>1, NotNone DEF MailTypes, TypeOK, Times, Sends, Pending, InTime
<1>3. ~(now > mem[t].expires)
  BY <1>2
<1>4. Pruned(mem)[t] = mem[t] /\ (Pruned(store)[t] # None => store[t] = mem[t])
  BY <1>1, <1>3, PrunedType DEF MailTypes, TypeOK
<1>5. Loaded[t] = mem[t]
  BY <1>1, <1>4 DEF Loaded
<1>6. QED
  BY <1>1, <1>5

LEMMA OutsideStep ==
  ASSUME MailInv,
         \/ Tick \/ Receive \/ Restart \/ Crash
         \/ \E t \in Targets, k \in Kinds : Write(t, k)
  PROVE  MailInv'
<1>1. MailTypes'
  BY OutsideTypes DEF MailInv
<1>2. ASSUME ~damaged' PROVE Whole'
  <2>1. MailTypes /\ now \in Nat
    BY DEF MailInv, MailTypes, TypeOK, Times
  <2>2. CASE Tick \/ \E t \in Targets, k \in Kinds : Write(t, k)
    <3>1. /\ UNCHANGED <<drafts, shown, sent, texts, mem, store, pc, hand, batch, here, damaged>>
          /\ now' = now + 1 \/ now' = now
      BY <2>2 DEF Tick, Write, listener
    <3>2. Whole
      BY <1>2, <3>1 DEF MailInv
    <3>3. QED
      BY <2>1, <3>1, <3>2, CalmStep
  <2>3. CASE Receive \/ Restart \/ Crash
    <3>1. /\ UNCHANGED <<drafts, shown, sent, texts, store, now>>
          /\ pc' = "next" /\ pc \in {"next", "send"}
          /\ (mem' = mem /\ here' = here) \/ (mem' = Nothing /\ here' = {})
          /\ damaged = FALSE
      BY <1>2, <2>1, <2>3 DEF Receive, Restart, Crash, MailTypes, TypeOK
    <3>2. \A t \in Targets : Waiting(t)' \subseteq Waiting(t)
      BY <3>1 DEF Waiting, Nothing
    <3>3. Whole
      BY <3>1 DEF MailInv
    <3>4. now' \in Nat /\ now' >= now
      BY <2>1, <3>1
    <3>5. here' \subseteq here /\ \A t \in here' : InTime(t) => mem'[t] = mem[t]
      BY <3>1
    <3>6. QED
      BY <2>1, <3>1, <3>2, <3>3, <3>4, <3>5, CalmStep
  <2>4. QED
    BY <2>2, <2>3
<1>3. QED
  BY <1>1, <1>2 DEF MailInv

(* Messages for which no send is taken and no draft made. *)
LEMMA IdleStep ==
  ASSUME MailInv,
         \/ Skip \/ OfferMac \/ RunMac
         \/ \E ok \in BOOLEAN : AnswerNeither(ok) \/ AnswerMac(ok)
  PROVE  MailInv'
<1> USE NotNone
<1>0. MailTypes /\ batch # <<>> /\ pc = "next"
  BY DEF MailInv, Skip, OfferMac, RunMac, AnswerNeither, AnswerMac, Handles
<1>1. now \in Times /\ now \in Nat /\ Target \in Targets
  BY <1>0, BatchFacts DEF MailTypes, TypeOK, Times
<1>2. /\ UNCHANGED <<now, queue, written, drafts, shown, sent, texts, here, hand, damaged>>
      /\ pc' = "next" /\ batch' = Tail(batch)
      /\ \/ UNCHANGED <<mem, store>>
         \/ \E ok \in BOOLEAN : Peek(Target, ok)
  BY DEF Skip, OfferMac, RunMac, AnswerNeither, AnswerMac, Done, TakeMac
<1>3. mem' \in Sends /\ store' \in Sends /\ \A t \in Targets : Waiting(t)' \subseteq Waiting(t)
  <2>1. CASE UNCHANGED <<mem, store>>
    BY <1>0, <2>1 DEF MailTypes, TypeOK, Waiting
  <2>2. QED
    BY <1>0, <1>1, <1>2, <2>1, PeekStep
<1>4. mac' \in [Targets -> 0 .. MaxTime + TTL \union {None}]
  <2>1. mac \in [Targets -> 0 .. MaxTime + TTL \union {None}]
    BY <1>0 DEF MailTypes, TypeOK
  <2>2. now + TTL \in 0 .. MaxTime + TTL
    BY <1>1 DEF Times
  <2>3. mac' = mac \/ mac' = [mac EXCEPT ![Target] = now + TTL] \/ mac' = [mac EXCEPT ![Target] = None]
    BY DEF Skip, OfferMac, RunMac, AnswerNeither, AnswerMac, TakeMac
  <2>4. QED
    BY <2>1, <2>2, <2>3
<1>5. faults' \in 0 .. MaxFaults
  BY <1>0 DEF MailTypes, TypeOK, Skip, OfferMac, RunMac, AnswerNeither, AnswerMac, Fault
<1>6. MailTypes'
  <2>1. /\ drafts' \in [Times -> Texts \union {None}] /\ shown' \in Sends
        /\ hand' \in Pending \union {None} /\ here' \subseteq Targets
        /\ sent' \in [Texts -> 0 .. 2] /\ damaged' \in BOOLEAN
    BY <1>0, <1>2 DEF MailTypes, TypeOK
  <2>2. batch' # batch
    BY <1>0, <1>2, BatchFacts
  <2>3. QED
    BY <1>0, <1>2, <1>3, <1>4, <1>5, <2>1, <2>2, HandledTypes
<1>7. ASSUME ~damaged' PROVE Whole'
  <2>1. Whole
    BY <1>2, <1>7 DEF MailInv
  <2>2. \A t \in here' : InTime(t) => mem'[t] = mem[t]
    BY <1>0, <1>2, <2>1, PeekKeeps DEF Peek
  <2>3. QED
    BY <1>0, <1>1, <1>2, <1>3, <2>1, <2>2, CalmStep
<1>8. QED
  BY <1>6, <1>7 DEF MailInv

(* A draft is named by its second or keeps its name; only a chat's own.    *)
LEMMA DraftStep ==
  ASSUME MailInv, batch # <<>>, pc = "next", NEW id \in Times,
         SaveDraft(id, texts + 1), pc' = "remember",
         UNCHANGED <<now, queue, batch, mac, written, shown, here, sent>>,
         mem' \in Sends, store' \in Sends,
         \A t \in Targets : Waiting(t)' \subseteq Waiting(t),
         faults' \in 0 .. MaxFaults, damaged' \in BOOLEAN, damaged => damaged',
         ~damaged' => \A t \in Targets : t # Target => \A p \in Waiting(t) : p.id # id,
         ~damaged' => \A t \in here : t # Target /\ InTime(t) => mem'[t] = mem[t]
  PROVE  MailInv'
<1> USE NotNone
<1>0. MailTypes /\ now \in Times /\ Target \in Targets
  BY BatchFacts DEF MailInv, MailTypes, TypeOK
<1>1. /\ texts + 1 \in Texts /\ texts \in Nat
      /\ texts' = texts + 1
      /\ drafts' = [drafts EXCEPT ![id] = texts + 1]
      /\ hand' = [id |-> id, text |-> texts + 1, expires |-> now + TTL]
  <2>1. texts + Len(queue) + Len(batch) <= written /\ written \in 0 .. MaxWritten /\ texts \in 0 .. written
    BY <1>0 DEF MailTypes, TypeOK, InWork
  <2>2. Len(queue) \in Nat /\ Len(batch) \in Nat /\ Len(batch) >= 1
    BY <1>0, BatchFacts
  <2>3. texts + 1 \in Texts /\ texts \in Nat
    BY <2>1, <2>2 DEF Texts
  <2>4. QED
    BY <2>3 DEF SaveDraft
<1>2. hand' \in Pending
  <2>1. now + TTL \in 0 .. MaxTime + TTL
    BY <1>0 DEF Times
  <2>2. QED
    BY <1>1, <2>1 DEF Pending
<1>3. drafts' \in [Times -> Texts \union {None}]
  BY <1>0, <1>1 DEF MailTypes, TypeOK
<1>4. MailTypes'
  <2>1. /\ shown' \in Sends /\ here' \subseteq Targets /\ sent' \in [Texts -> 0 .. 2]
        /\ mac' \in [Targets -> 0 .. MaxTime + TTL \union {None}]
    BY <1>0 DEF MailTypes, TypeOK
  <2>2. QED
    BY <1>0, <1>1, <1>2, <1>3, <2>1, HandledTypes
<1>5. ASSUME ~damaged' PROVE Whole'
  <2>0. Whole /\ drafts \in [Times -> Texts \union {None}] /\ sent \in [Texts -> 0 .. 2]
    BY <1>0, <1>5 DEF MailInv, MailTypes, TypeOK
  <2>1. Target' = Target
    BY DEF Target, Message
  <2>2. \A i \in Times : drafts'[i] = IF i = id THEN texts + 1 ELSE drafts[i]
    BY <1>1, <2>0
  <2>3. \A t \in Targets : \A p \in Waiting(t)' : p \in Waiting(t) /\ p.id \in Times
    BY <1>0, ZenonT(40) DEF Waiting, MailTypes, TypeOK, Sends, Pending
  <2>4. Owned'
    BY <1>1, <2>0, <2>2, <2>3 DEF Whole, Owned
  <2>5. \A t \in Targets : ~Revising(t)' => t # Target /\ ~Revising(t)
    BY <2>1 DEF Revising
  <2>6. Current'
    BY <1>5, <2>0, <2>2, <2>3, <2>5 DEF Whole, Current
  <2>7. Remembered'
    <3>1. here \subseteq Targets
      BY <1>0 DEF MailTypes, TypeOK
    <3>2. QED
      BY <1>5, <2>0, <2>5, <3>1 DEF Whole, Remembered, InTime
  <2>8. InHand'
    <3>1. drafts'[hand'.id] = hand'.text /\ hand'.id = id /\ hand'.text = texts + 1
      BY <1>1, <2>2
    <3>2. sent[texts + 1] = 0
      BY <1>1, <2>0 DEF Whole, Apart
    <3>3. QED
      BY <1>5, <2>1, <2>3, <3>1, <3>2 DEF InHand
  <2>9. Apart'
    <3>1. \A i \in Times : drafts[i] # None => drafts[i] <= texts /\ drafts[i] \in Nat
      BY <2>0 DEF Whole, Apart, Texts
    <3>2. \A i, j \in Times : drafts'[i] = drafts'[j] /\ drafts'[i] # None => i = j
      <4>1. \A i \in Times : drafts[i] # texts + 1
        BY <1>1, <3>1
      <4>2. QED
        BY <2>0, <2>2, <4>1 DEF Whole, Apart
    <3>3. \A i \in Times : drafts'[i] # None => drafts'[i] <= texts'
      BY <1>1, <2>2, <3>1
    <3>4. \A x \in Texts : sent'[x] <= 1 /\ (x > texts' => sent'[x] = 0)
      BY <1>1, <2>0 DEF Whole, Apart, Texts
    <3>5. QED
      BY <3>2, <3>3, <3>4 DEF Apart
  <2>10. QED
    BY <2>4, <2>6, <2>7, <2>8, <2>9 DEF Whole
<1>6. QED
  BY <1>4, <1>5 DEF MailInv

LEMMA ComposeStep == ASSUME MailInv, NEW ok \in BOOLEAN, Compose(ok) PROVE MailInv'
<1> USE NotNone
<1>0. MailTypes /\ batch # <<>> /\ pc = "next" /\ now \in Times /\ now \in Nat /\ faults' \in 0 .. MaxFaults
  BY DEF MailInv, MailTypes, TypeOK, Compose, Handles, Fault, Times
<1>1. mem' \in Sends /\ store' \in Sends /\ mem' = mem /\ \A t \in Targets : Waiting(t)' = Waiting(t)
  BY <1>0 DEF Compose, MailTypes, TypeOK, Waiting
<1>2. CASE ok
  <2>1. /\ SaveDraft(now, texts + 1) /\ pc' = "remember" /\ damaged' = (damaged \/ drafts[now] # None)
        /\ UNCHANGED <<now, queue, batch, mac, written, shown, here, sent>>
    BY <1>2 DEF Compose, Goto
  <2>2. damaged' \in BOOLEAN /\ (damaged => damaged')
    BY <1>0, <2>1 DEF MailTypes, TypeOK
  <2>3. ASSUME ~damaged', NEW t \in Targets, NEW p \in Waiting(t) PROVE p.id # now
    BY <2>1, <2>3 DEF MailInv, Whole, Owned
  <2>4. QED
    BY <1>0, <1>1, <2>1, <2>2, <2>3, DraftStep
<1>3. CASE ~ok
  <2>1. /\ UNCHANGED <<now, queue, written, drafts, shown, sent, texts, here, hand, damaged, mac>>
        /\ pc' = "next" /\ batch' = Tail(batch)
    BY <1>3 DEF Compose, Done
  <2>2. MailTypes'
    <3>1. /\ drafts' \in [Times -> Texts \union {None}] /\ shown' \in Sends
          /\ hand' \in Pending \union {None} /\ here' \subseteq Targets
          /\ sent' \in [Texts -> 0 .. 2] /\ damaged' \in BOOLEAN
          /\ mac' \in [Targets -> 0 .. MaxTime + TTL \union {None}]
      BY <1>0, <2>1 DEF MailTypes, TypeOK
    <3>2. QED
      BY <1>0, <1>1, <2>1, <3>1, BatchFacts, HandledTypes
  <2>3. ~damaged' => Whole'
    BY <1>0, <1>1, <2>1, CalmStep DEF MailInv
  <2>4. QED
    BY <2>2, <2>3 DEF MailInv
<1>4. QED
  BY <1>2, <1>3

LEMMA ReviseStep == ASSUME MailInv, NEW ok \in BOOLEAN, Revise(ok) PROVE MailInv'
<1> USE NotNone
<1>0. /\ MailTypes /\ batch # <<>> /\ pc = "next" /\ now \in Nat /\ faults' \in 0 .. MaxFaults
      /\ UNCHANGED <<now, queue, mac, written, shown, here, sent, damaged>>
  BY DEF MailInv, MailTypes, TypeOK, Revise, Handles, Fault, Times
<1>1. Target \in Targets /\ Peek(Target, ok) /\ mem' = Loaded
  BY <1>0, BatchFacts DEF Revise, Peek
<1>2. mem' \in Sends /\ store' \in Sends /\ \A t \in Targets : Waiting(t)' \subseteq Waiting(t)
  BY <1>0, <1>1, PeekStep
<1>3. ~damaged' => \A t \in here : InTime(t) => mem'[t] = mem[t]
  BY <1>0, <1>1, PeekKeeps DEF MailInv
<1>4. damaged' \in BOOLEAN /\ (damaged => damaged')
  BY <1>0 DEF MailTypes, TypeOK
<1>5. CASE ok /\ Loaded[Target] # None
  <2> DEFINE p == Loaded[Target]
  <2>1. SaveDraft(p.id, texts + 1) /\ pc' = "remember" /\ batch' = batch
    BY <1>5 DEF Revise, Goto
  <2>2. p \in Waiting(Target) /\ p.id \in Times
    BY <1>0, <1>1, <1>5, LoadedType DEF Pending
  <2>3. ~damaged' => \A t \in Targets : t # Target => \A q \in Waiting(t) : q.id # p.id
    BY <1>0, <1>1, <2>2 DEF MailInv, Whole, Owned
  <2> HIDE DEF p
  <2>4. QED
    BY <1>0, <1>2, <1>3, <1>4, <2>1, <2>2, <2>3, DraftStep
<1>6. CASE ~(ok /\ Loaded[Target] # None)
  <2>1. UNCHANGED <<drafts, hand, texts>> /\ pc' = "next" /\ batch' = Tail(batch)
    BY <1>6 DEF Revise, Done
  <2>2. MailTypes'
    <3>1. /\ drafts' \in [Times -> Texts \union {None}] /\ shown' \in Sends
          /\ hand' \in Pending \union {None} /\ here' \subseteq Targets
          /\ sent' \in [Texts -> 0 .. 2] /\ damaged' \in BOOLEAN
          /\ mac' \in [Targets -> 0 .. MaxTime + TTL \union {None}]
      BY <1>0, <2>1 DEF MailTypes, TypeOK
    <3>2. QED
      BY <1>0, <1>2, <2>1, <3>1, BatchFacts, HandledTypes
  <2>3. ~damaged' => Whole'
    BY <1>0, <1>2, <1>3, <2>1, CalmStep DEF MailInv
  <2>4. QED
    BY <2>2, <2>3 DEF MailInv
<1>7. QED
  BY <1>5, <1>6

LEMMA RememberStep == ASSUME MailInv, NEW ok \in BOOLEAN, Remember(ok) PROVE MailInv'
<1> USE NotNone
<1>0. /\ MailTypes /\ batch # <<>> /\ pc = "remember" /\ hand \in Pending
      /\ faults' \in 0 .. MaxFaults
      /\ UNCHANGED <<now, queue, drafts, mac, hand, written, texts, shown, here, sent, batch>>
      /\ pc' = "reply" /\ damaged' = (damaged \/ ~ok)
      /\ mem' = [Pruned(mem) EXCEPT ![Target] = hand] /\ store' = IF ok THEN mem' ELSE store
  BY DEF MailInv, MailTypes, TypeOK, Remember, Fault, Goto, Persist
<1>1. Target \in Targets /\ mem \in Sends /\ store \in Sends
  BY <1>0, BatchFacts DEF MailTypes, TypeOK
<1>2. /\ mem' \in Sends
      /\ \A t \in Targets : mem'[t] = IF t = Target THEN hand
                                      ELSE IF mem[t] # None /\ now > mem[t].expires THEN None ELSE mem[t]
  BY <1>0, <1>1, PrunedType DEF Sends
<1>3. MailTypes'
  <2>1. /\ drafts' \in [Times -> Texts \union {None}] /\ shown' \in Sends
        /\ hand' \in Pending \union {None} /\ here' \subseteq Targets
        /\ sent' \in [Texts -> 0 .. 2] /\ damaged' \in BOOLEAN
        /\ mac' \in [Targets -> 0 .. MaxTime + TTL \union {None}]
        /\ store' \in Sends
    BY <1>0, <1>1, <1>2 DEF MailTypes, TypeOK
  <2>2. QED
    BY <1>0, <1>2, <2>1, HandledTypes
<1>4. ASSUME ~damaged' PROVE Whole'
  <2>0. Whole /\ store' = mem' /\ Target' = Target
    BY <1>0, <1>4 DEF MailInv, Target, Message
  <2>1. /\ Waiting(Target)' = {hand}
        /\ \A t \in Targets : t # Target => Waiting(t)' \subseteq Waiting(t)
    BY <1>0, <1>1, <1>2, <2>0 DEF Waiting
  <2>2. drafts[hand.id] = hand.text /\ hand.text \in Texts
        /\ \A t \in Targets : t # Target => \A p \in Waiting(t) : p.id # hand.id
    BY <1>0, <2>0 DEF Whole, InHand, Pending
  <2>3. Owned'
    BY <1>0, <2>0, <2>1, <2>2 DEF Whole, Owned
  <2>4. Current'
    BY <1>0, <2>0, <2>1 DEF Whole, Current, Revising
  <2>5. Remembered'
    <3>1. here \subseteq Targets /\ now \in Nat
      BY <1>0 DEF MailTypes, TypeOK, Times
    <3>2. \A t \in Targets : mem[t] # None => mem[t].expires \in Nat
      BY <1>1 DEF Sends, Pending
    <3>3. ASSUME NEW t \in here, t # Target, InTime(t) PROVE mem'[t] = shown[t]
      <4>1. mem[t] = shown[t] /\ mem[t] # None /\ now <= mem[t].expires
        BY <2>0, <3>3 DEF Whole, Remembered, Revising, InTime
      <4>2. ~(now > mem[t].expires)
        BY <3>1, <3>2, <4>1
      <4>3. QED
        BY <1>2, <3>1, <3>3, <4>1, <4>2
    <3>4. QED
      BY <1>0, <2>0, <3>3 DEF Remembered, Revising, InTime
  <2>6. InHand'
    <3>1. mem'[Target] = hand /\ store'[Target] = hand
      BY <1>1, <1>2, <2>0
    <3>2. sent[hand.text] = 0
      BY <1>0, <2>0 DEF Whole, InHand
    <3>3. QED
      BY <1>0, <2>0, <2>1, <2>2, <3>1, <3>2 DEF InHand
  <2>7. Apart'
    BY <1>0, <2>0 DEF Whole, Apart
  <2>8. QED
    BY <2>3, <2>4, <2>5, <2>6, <2>7 DEF Whole
<1>5. QED
  BY <1>3, <1>4 DEF MailInv

LEMMA ReplyStep == ASSUME MailInv, NEW ok \in BOOLEAN, Reply(ok) PROVE MailInv'
<1> USE NotNone
<1>0. /\ MailTypes /\ batch # <<>> /\ pc = "reply" /\ hand \in Pending
      /\ faults' \in 0 .. MaxFaults
      /\ UNCHANGED <<now, queue, drafts, store, mem, mac, written, texts, sent>>
      /\ pc' = "next" /\ batch' = Tail(batch) /\ hand' = None
      /\ damaged' = (damaged \/ ~ok)
      /\ shown' = IF ok THEN [shown EXCEPT ![Target] = hand] ELSE shown
      /\ here' = IF ok THEN here \union {Target} ELSE here
  BY DEF MailInv, MailTypes, TypeOK, Reply, Fault, Done
<1>1. Target \in Targets /\ shown \in Sends
  BY <1>0, BatchFacts DEF MailTypes, TypeOK
<1>2. MailTypes'
  <2>1. /\ drafts' \in [Times -> Texts \union {None}] /\ shown' \in Sends
        /\ hand' \in Pending \union {None} /\ here' \subseteq Targets
        /\ sent' \in [Texts -> 0 .. 2] /\ damaged' \in BOOLEAN
        /\ mac' \in [Targets -> 0 .. MaxTime + TTL \union {None}]
        /\ store' \in Sends /\ mem' \in Sends
    BY <1>0, <1>1 DEF MailTypes, TypeOK, Sends
  <2>2. QED
    BY <1>0, <2>1, BatchFacts, HandledTypes
<1>3. ASSUME ~damaged' PROVE Whole'
  <2>0. Whole /\ ok
    BY <1>0, <1>3 DEF MailInv
  <2>1. \A t \in Targets : shown'[t] = IF t = Target THEN hand ELSE shown[t]
    BY <1>0, <1>1, <2>0 DEF Sends
  <2>2. mem[Target] = hand /\ store[Target] = hand /\ drafts[hand.id] = hand.text /\ sent[hand.text] = 0
    BY <1>0, <2>0 DEF Whole, InHand
  <2>3. \A t \in Targets : Waiting(t)' = Waiting(t) /\ (t # Target => ~Revising(t))
    BY <1>0 DEF Waiting, Revising
  <2>4. Waiting(Target) = {hand}
    BY <1>0, <2>2 DEF Waiting
  <2>5. Owned'
    BY <1>0, <2>0, <2>3 DEF Whole, Owned
  <2>6. Current'
    BY <1>0, <1>1, <2>0, <2>1, <2>2, <2>3, <2>4 DEF Whole, Current
  <2>7. Remembered'
    <3>1. here \subseteq Targets
      BY <1>0 DEF MailTypes, TypeOK
    <3>2. \A t \in here' : t # Target => t \in here /\ (InTime(t)' => InTime(t))
      BY <1>0, <2>0, <2>1, <3>1 DEF InTime
    <3>3. QED
      BY <1>0, <1>1, <2>0, <2>1, <2>2, <2>3, <3>1, <3>2 DEF Whole, Remembered
  <2>8. InHand'
    BY <1>0 DEF InHand
  <2>9. Apart'
    BY <1>0, <2>0 DEF Whole, Apart
  <2>10. QED
    BY <2>5, <2>6, <2>7, <2>8, <2>9 DEF Whole
<1>4. QED
  BY <1>2, <1>3 DEF MailInv

LEMMA TakeMailStep ==
  ASSUME MailInv, NEW ok \in BOOLEAN, batch # <<>>, pc = "next", TakeMail(ok)
  PROVE  MailInv'
<1> USE NotNone
<1>0. /\ MailTypes /\ Target \in Targets /\ now \in Nat
      /\ faults' \in 0 .. MaxFaults /\ damaged' = (damaged \/ ~ok)
      /\ UNCHANGED <<now, queue, drafts, mac, written, texts, here, sent>>
      /\ Take(Target, ok)
  BY BatchFacts DEF MailInv, MailTypes, TypeOK, TakeMail, Fault, Times
<1>1. /\ mem' \in Sends /\ store' \in Sends
      /\ \A t \in Targets : Waiting(t)' \subseteq Waiting(t)
      /\ \A t \in Targets : t # Target => mem'[t] = Loaded[t]
      /\ ok => mem'[Target] = None /\ store'[Target] = None
  BY <1>0, TakeStep
<1>2. /\ drafts' \in [Times -> Texts \union {None}] /\ here' \subseteq Targets
      /\ sent' \in [Texts -> 0 .. 2] /\ damaged' \in BOOLEAN /\ shown \in Sends
      /\ mac' \in [Targets -> 0 .. MaxTime + TTL \union {None}]
  BY <1>0 DEF MailTypes, TypeOK
<1>3. CASE Loaded[Target] = None
  <2>1. UNCHANGED <<hand, shown>> /\ pc' = "next" /\ batch' = Tail(batch)
    BY <1>3 DEF TakeMail, Done
  <2>2. MailTypes'
    <3>1. shown' \in Sends /\ hand' \in Pending \union {None}
      BY <1>0, <1>2, <2>1 DEF MailTypes
    <3>2. QED
      BY <1>0, <1>1, <1>2, <2>1, <3>1, BatchFacts, HandledTypes
  <2>3. ASSUME ~damaged' PROVE Whole'
    <3>1. Whole
      BY <1>0, <2>3 DEF MailInv
    <3>2. here \subseteq Targets
      BY <1>0 DEF MailTypes, TypeOK
    <3>3. \A t \in here' : InTime(t) => mem'[t] = mem[t]
      BY <1>0, <1>1, <1>3, <3>1, <3>2, PeekKeeps
    <3>4. QED
      BY <1>0, <1>1, <2>1, <3>1, <3>3, CalmStep
  <2>4. QED
    BY <2>2, <2>3 DEF MailInv
<1>4. CASE Loaded[Target] # None
  <2>1. /\ hand' = Loaded[Target] /\ shown' = [shown EXCEPT ![Target] = None]
        /\ pc' = "send" /\ batch' = batch
    BY <1>4 DEF TakeMail, Goto
  <2>2. Loaded[Target] \in Waiting(Target) /\ Loaded[Target] \in Pending
    BY <1>0, <1>4, LoadedType
  <2>3. \A t \in Targets : shown'[t] = IF t = Target THEN None ELSE shown[t]
    BY <1>2, <2>1 DEF Sends
  <2>4. MailTypes'
    <3>1. shown' \in Sends
      BY <1>2, <2>1 DEF Sends
    <3>2. QED
      BY <1>0, <1>1, <1>2, <2>1, <2>2, <3>1, HandledTypes
  <2>5. ASSUME ~damaged' PROVE Whole'
    <3>0. Whole /\ ok /\ Target' = Target /\ Waiting(Target)' = {}
      <4>1. Whole /\ ok
        BY <1>0, <2>5 DEF MailInv
      <4>2. Target' = Target
        BY <2>1 DEF Target, Message
      <4>3. mem'[Target'] = None /\ store'[Target'] = None
        BY <1>1, <4>1, <4>2
      <4>4. QED
        BY <4>1, <4>2, <4>3 DEF Waiting
    <3>1. \A t \in Targets : ~Revising(t) /\ ~Revising(t)'
      BY <2>1 DEF Revising
    <3>2. Owned'
      BY <1>0, <1>1, <3>0 DEF Whole, Owned
    <3>3. Current'
      BY <1>0, <1>1, <2>3, <3>0, <3>1 DEF Whole, Current
    <3>4. Remembered'
      <4>1. here \subseteq Targets
        BY <1>0 DEF MailTypes, TypeOK
      <4>2. \A t \in here : t # Target /\ InTime(t) => mem'[t] = shown[t]
        BY <1>1, <3>0, <3>1, <4>1, <1>0, PeekKeeps DEF Whole, Remembered
      <4>3. QED
        BY <1>0, <2>3, <4>1, <4>2 DEF Remembered, InTime
    <3>5. InHand'
      <4>1. drafts[hand'.id] = hand'.text /\ sent[hand'.text] = 0
        BY <1>0, <2>1, <2>2, <3>0, <3>1 DEF Whole, Current
      <4>2. \A t \in Targets : t # Target => \A p \in Waiting(t) : p.id # hand'.id
        BY <1>0, <2>1, <2>2, <3>0 DEF Whole, Owned
      <4>3. QED
        BY <1>0, <1>1, <2>1, <3>0, <4>1, <4>2 DEF InHand
    <3>6. Apart'
      BY <1>0, <3>0 DEF Whole, Apart
    <3>7. QED
      BY <3>2, <3>3, <3>4, <3>5, <3>6 DEF Whole
  <2>6. QED
    BY <2>4, <2>5 DEF MailInv
<1>5. QED
  BY <1>3, <1>4

LEMMA SendDraftStep == ASSUME MailInv, NEW ok \in BOOLEAN, SendDraft(ok) PROVE MailInv'
<1> USE NotNone
<1> DEFINE x == drafts[hand.id]
<1>0. /\ MailTypes /\ batch # <<>> /\ pc = "send" /\ hand \in Pending /\ now \in Nat
      /\ faults' \in 0 .. MaxFaults
      /\ UNCHANGED <<now, queue, drafts, store, mem, mac, written, texts, shown, here, damaged>>
      /\ pc' = "next" /\ batch' = Tail(batch) /\ hand' = None
      /\ sent' = sent \/ (sent[x] < 2 /\ sent' = [sent EXCEPT ![x] = @ + 1])
  <2>1. MailTypes /\ now \in Nat
    BY DEF MailInv, MailTypes, TypeOK, Times
  <2>2. batch # <<>> /\ pc = "send" /\ hand \in Pending
    BY DEF MailInv, MailTypes, TypeOK, SendDraft
  <2>3. faults' \in 0 .. MaxFaults
    BY DEF MailInv, MailTypes, TypeOK, SendDraft, Fault
  <2>4. /\ UNCHANGED <<now, queue, drafts, store, mem, mac, written, texts, shown, here, damaged>>
        /\ pc' = "next" /\ batch' = Tail(batch) /\ hand' = None
    BY DEF SendDraft, Done
  <2>5. sent' = sent \/ (sent[x] < 2 /\ sent' = [sent EXCEPT ![x] = @ + 1])
    BY DEF SendDraft
  <2>6. QED
    BY <2>1, <2>2, <2>3, <2>4, <2>5
<1>1. sent' \in [Texts -> 0 .. 2]
  <2>1. sent \in [Texts -> 0 .. 2]
    BY <1>0 DEF MailTypes, TypeOK
  <2>2. x \in Texts /\ sent[x] < 2 => sent[x] + 1 \in 0 .. 2
    BY <2>1
  <2> HIDE DEF x
  <2>3. QED
    BY <1>0, <2>1, <2>2
<1>2. MailTypes'
  <2>1. /\ drafts' \in [Times -> Texts \union {None}] /\ shown' \in Sends
        /\ hand' \in Pending \union {None} /\ here' \subseteq Targets
        /\ damaged' \in BOOLEAN /\ store' \in Sends /\ mem' \in Sends
        /\ mac' \in [Targets -> 0 .. MaxTime + TTL \union {None}]
    BY <1>0 DEF MailTypes, TypeOK
  <2>2. QED
    BY <1>0, <1>1, <2>1, BatchFacts, HandledTypes
<1>3. ASSUME ~damaged' PROVE Whole'
  <2>0. Whole /\ Waiting(Target) = {}
    BY <1>0, <1>3 DEF MailInv, Whole, InHand
  <2>1. CASE sent' = sent
    BY <1>0, <2>0, <2>1, CalmStep DEF Waiting
  <2>2. CASE sent[x] < 2 /\ sent' = [sent EXCEPT ![x] = @ + 1]
    <3>1. x = hand.text /\ x \in Texts /\ sent[x] = 0 /\ hand.id \in Times /\ sent \in [Texts -> 0 .. 2]
      BY <1>0, <2>0 DEF Whole, InHand, Pending, MailTypes, TypeOK
    <3>2. \A y \in Texts : sent'[y] = IF y = x THEN 1 ELSE sent[y]
      BY <2>2, <3>1
    <3>3. \A t \in Targets : /\ Waiting(t)' = Waiting(t) /\ ~Revising(t) /\ ~Revising(t)'
                             /\ \A p \in Waiting(t) : p \in Pending
      BY <1>0 DEF Waiting, Revising, MailTypes, TypeOK, Sends
    <3>4. \A t \in Targets : \A p \in Waiting(t) : p.id \in Times /\ p.id # hand.id /\ drafts[p.id] # None
      BY <1>0, <2>0, <3>3 DEF Whole, InHand, Owned, Pending
    <3>5. \A t \in Targets : \A p \in Waiting(t) : drafts[p.id] # x
      BY <2>0, <3>1, <3>4 DEF Whole, Apart
    <3> HIDE DEF x
    <3>6. Owned'
      BY <1>0, <2>0, <3>3 DEF Whole, Owned
    <3>7. Current'
      <4>1. ASSUME NEW t \in Targets, NEW p \in Waiting(t)
            PROVE  shown[t] = p /\ drafts[p.id] = p.text /\ sent'[p.text] = 0
        <5>1. shown[t] = p /\ drafts[p.id] = p.text /\ sent[p.text] = 0
          BY <2>0, <3>3 DEF Whole, Current
        <5>2. p.text \in Texts
          BY <3>3 DEF Pending
        <5>3. QED
          BY <3>2, <3>5, <5>1, <5>2
      <4>2. QED
        BY <1>0, <3>3, <4>1 DEF Current
    <3>8. Remembered'
      <4>1. here \subseteq Targets
        BY <1>0 DEF MailTypes, TypeOK
      <4>2. QED
        BY <1>0, <2>0, <3>3, <4>1 DEF Whole, Remembered, InTime
    <3>9. InHand'
      BY <1>0 DEF InHand
    <3>10. Apart'
      <4>1. x <= texts
        BY <2>0, <3>1 DEF Whole, Apart, x
      <4>2. x \in Nat /\ texts \in Nat
        BY <1>0, <3>1 DEF Texts, MailTypes, TypeOK
      <4>3. \A y \in Texts : sent'[y] <= 1 /\ (y > texts => sent'[y] = 0)
        BY <2>0, <3>2, <4>1, <4>2 DEF Whole, Apart
      <4>4. QED
        BY <1>0, <2>0, <4>3 DEF Whole, Apart
    <3>11. QED
      BY <3>6, <3>7, <3>8, <3>9, <3>10 DEF Whole
  <2>3. QED
    BY <1>0, <2>1, <2>2
<1>4. QED
  BY <1>2, <1>3 DEF MailInv

LEMMA MailInvariant == Spec => []MailInv
<1> USE NotNone
<1>1. Init => MailInv
  <2> SUFFICES ASSUME Init PROVE MailInv
    OBVIOUS
  <2>1. /\ 0 \in Times /\ 0 \in 0 .. MaxWritten /\ 0 \in 0 .. MaxFaults /\ 0 \in 0 .. 2 /\ 0 \in 0 .. 0
        /\ Nothing \in Sends /\ Nothing \in [Targets -> 0 .. MaxTime + TTL \union {None}]
        /\ <<>> \in Seq(Messages) /\ Len(queue) = 0 /\ Len(batch) = 0
    BY DEF Times, Nothing, Sends, Init
  <2>2. /\ drafts \in [Times -> Texts \union {None}] /\ sent \in [Texts -> 0 .. 2]
    BY <2>1 DEF Init
  <2>3. MailTypes
    BY <2>1, <2>2 DEF Init, MailTypes, TypeOK, InWork
  <2>4. \A t \in Targets : Waiting(t) = {} /\ ~InTime(t)
    BY DEF Init, Waiting, InTime, Nothing
  <2>5. Apart
    BY DEF Init, Apart
  <2>6. Whole
    BY <2>4, <2>5 DEF Init, Whole, Owned, Current, Remembered, InHand
  <2>7. QED
    BY <2>3, <2>6 DEF MailInv
<1>2. MailInv /\ [Next]_vars => MailInv'
  <2> SUFFICES ASSUME MailInv, [Next]_vars PROVE MailInv'
    OBVIOUS
  <2>1. CASE \/ Tick \/ Receive \/ Restart \/ Crash
             \/ \E t \in Targets, k \in Kinds : Write(t, k)
    BY <2>1, OutsideStep
  <2>2. CASE \/ Skip \/ OfferMac \/ RunMac
             \/ \E ok \in BOOLEAN : AnswerNeither(ok) \/ AnswerMac(ok)
    BY <2>2, IdleStep
  <2>3. ASSUME NEW ok \in BOOLEAN, Compose(ok) \/ Revise(ok) \/ Remember(ok) \/ Reply(ok) \/ SendDraft(ok)
        PROVE  MailInv'
    BY <2>3, ComposeStep, ReviseStep, RememberStep, ReplyStep, SendDraftStep
  <2>4. ASSUME NEW ok \in BOOLEAN, ApproveMail(ok) \/ AnswerMail(ok) PROVE MailInv'
    BY <2>4, TakeMailStep DEF ApproveMail, AnswerMail, Handles
  <2>5. CASE UNCHANGED vars
    <3>1. /\ MailTypes' <=> MailTypes
          /\ Whole' <=> Whole
      BY <2>5 DEF vars, listener, MailTypes, TypeOK, InWork, Whole, Owned, Current, Remembered, InHand,
                  Apart, Waiting, Revising, InTime, Target, Message
    <3>2. QED
      BY <2>5, <3>1 DEF MailInv, vars
  <2>6. QED
    BY <2>1, <2>2, <2>3, <2>4, <2>5 DEF Next, Handle
<1>3. QED
  BY <1>1, <1>2, PTL DEF Spec

(* The maps, the file, the drafts and the listener have their types, and   *)
(* a listener that works on a send has the message and the send for it.    *)
THEOREM MailTypeCorrect == Spec => []TypeOK
  BY MailInvariant, PTL DEF MailInv, MailTypes

(* However often a draft is approved, revised, and approved again, and     *)
(* wherever the listener dies: no text is mailed twice.                    *)
THEOREM MailSentOnce == Spec => []SentOnce
<1>1. MailInv => SentOnce
  BY DEF MailInv, Whole, Apart, SentOnce
<1>2. QED
  BY <1>1, MailInvariant, PTL

(* What an approval takes is the draft that the chat was last shown, with  *)
(* the text it then had.                                                   *)
THEOREM MailApprovedAsShown == Spec => ApprovedAsShown
<1>1. MailInv =>
        \A ok \in BOOLEAN : (ApproveMail(ok) \/ AnswerMail(ok)) /\ pc' = "send" /\ ~damaged =>
          shown[Target] # None /\ drafts[hand'.id] = shown[Target].text
  <2> SUFFICES ASSUME MailInv, NEW ok \in BOOLEAN, ApproveMail(ok) \/ AnswerMail(ok),
                      pc' = "send", ~damaged
      PROVE  shown[Target] # None /\ drafts[hand'.id] = shown[Target].text
    OBVIOUS
  <2>1. MailTypes /\ Whole /\ pc = "next" /\ batch # <<>> /\ TakeMail(ok)
    BY DEF MailInv, ApproveMail, AnswerMail, Handles
  <2>2. Target \in Targets
    BY <2>1, BatchFacts
  <2>3. Loaded[Target] # None /\ hand' = Loaded[Target]
    BY <2>1 DEF TakeMail, Done
  <2>4. Loaded[Target] \in Waiting(Target)
    BY <2>1, <2>2, <2>3, LoadedType
  <2>5. shown[Target] = Loaded[Target] /\ drafts[Loaded[Target].id] = Loaded[Target].text
    BY <2>1, <2>2, <2>4 DEF Whole, Current, Revising
  <2>6. QED
    BY <2>3, <2>5
<1>2. QED
  BY <1>1, MailInvariant, PTL DEF ApprovedAsShown

(* A short yes executes neither of a mail and a Mac action that both wait. *)
THEOREM MailNoGuess == Spec => NoGuess
<1>1. MailInv =>
        \A ok \in BOOLEAN : (AnswerMac(ok) \/ (AnswerMail(ok) /\ pc' = "send")) /\ ~damaged =>
          ~(MacPending /\ Target \in here /\ InTime(Target))
  <2> SUFFICES ASSUME MailInv, NEW ok \in BOOLEAN, AnswerMac(ok), ~damaged,
                      Target \in here, InTime(Target)
      PROVE  FALSE
    BY DEF AnswerMail
  <2>1. MailTypes /\ Whole /\ pc = "next" /\ Loaded[Target] = None
    BY DEF MailInv, AnswerMac, Handles
  <2>2. QED
    BY <2>1, PeekKeeps
<1>2. QED
  BY <1>1, MailInvariant, PTL DEF NoGuess
=============================================================================
