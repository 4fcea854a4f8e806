----------------------------- MODULE PendingMail ------------------------------
(***************************************************************************)
(* Mail approved over Signal (internal/messenger/listen.go with the drafts *)
(* of internal/mailadapter): a chat asks for a mail, is shown a draft, may *)
(* have it revised, and approves it; the draft waits for the approval in a *)
(* map of the listening process and in pending-mail-sends.json. Beside it  *)
(* may wait a Mac action, in memory only, for the same short words.        *)
(*                                                                         *)
(* The listener takes what the Signal server holds (which then has it no   *)
(* more) and handles one message after another. Between batches it may end *)
(* and be started again with an empty memory: the dispatcher script starts *)
(* a process for every batch, the daemon keeps one.                        *)
(*                                                                         *)
(* One listener at a time; chats in assistant mode. What a message means   *)
(* to the listener is given; the choice of an account and drafts asked for *)
(* by their id are left out. A time unit is the second in a draft's name.  *)
(***************************************************************************)
EXTENDS Integers, Sequences

CONSTANTS
  Targets,      (* chats                                                   *)
  Kinds,        (* what they write, a subset of AllKinds                   *)
  TTL,          (* mailSignalApprovalTTL, and that of Mac actions          *)
  MaxAge,       (* ListenOptions.MaxAgeSeconds                             *)
  MaxTime,      (* bound: the last time                                    *)
  MaxWritten,   (* bound: messages written                                 *)
  MaxFaults,    (* bound: crashes and failed calls                         *)
  None

AllKinds == {"compose", "revise", "approve", "ok", "mac", "run"}
Times == 0 .. MaxTime
Texts == 1 .. MaxWritten

(* A pending send: the draft's id and its text as it was then.             *)
Pending == [id : Times, text : Texts, expires : 0 .. MaxTime + TTL]
Messages == [target : Targets, kind : Kinds, at : Times]

ASSUME MailAssumption ==
  /\ Kinds \subseteq AllKinds
  /\ TTL \in Nat /\ MaxAge \in Nat /\ MaxTime \in Nat
  /\ MaxWritten \in Nat /\ MaxFaults \in Nat
  /\ None \notin Pending \union Texts \union (0 .. MaxTime + TTL)

VARIABLES
  now,
  queue,     \* what the Signal server holds, in order
  drafts,    \* [Times -> the text in the draft file of that second, or None]
  store,     \* pending-mail-sends.json: [Targets -> Pending or None]
  (* the listener *)
  pc,
  batch,     \* received and not yet handled, the current message first
  mem,       \* mailSendPending
  mac,       \* argosActionPending: [Targets -> its expiry or None]
  hand,      \* the pending send it is working on
  (* history *)
  written, texts, faults,   \* how many of each there were
  shown,     \* [Targets -> the send the chat was last shown and has not yet
             \* used up by an approval, or None]
  here,      \* the chats that this process showed one
  sent,      \* [Texts -> how often it was mailed, up to 2]
  damaged    \* two drafts had one name, a write of the store failed, or a
             \* text was never shown to its chat

listener == <<pc, batch, mem, mac, hand>>
vars == <<now, queue, drafts, store, listener, written, texts, faults, shown, here, sent, damaged>>

Nothing == [t \in Targets |-> None]
Sends == [Targets -> Pending \union {None}]

TypeOK ==
  /\ now \in Times
  /\ queue \in Seq(Messages) /\ batch \in Seq(Messages)
  /\ drafts \in [Times -> Texts \union {None}]
  /\ store \in Sends /\ mem \in Sends /\ shown \in Sends
  /\ mac \in [Targets -> 0 .. MaxTime + TTL \union {None}]
  /\ pc \in {"next", "remember", "reply", "send"}
  /\ pc # "next" => batch # <<>> /\ hand \in Pending
  /\ written \in 0 .. MaxWritten /\ texts \in 0 .. written /\ faults \in 0 .. MaxFaults
  /\ here \subseteq Targets
  /\ sent \in [Texts -> 0 .. 2]
  /\ damaged \in BOOLEAN

Init ==
  /\ now = 0
  /\ queue = <<>> /\ batch = <<>>
  /\ drafts = [i \in Times |-> None]
  /\ store = Nothing /\ mem = Nothing /\ mac = Nothing /\ shown = Nothing
  /\ pc = "next" /\ hand = None /\ here = {}
  /\ written = 0 /\ texts = 0 /\ faults = 0
  /\ sent = [x \in Texts |-> 0]
  /\ damaged = FALSE
-----------------------------------------------------------------------------
(* The store of pending sends *)

Pruned(f) == [t \in Targets |-> IF f[t] # None /\ now > f[t].expires THEN None ELSE f[t]]

(* What the file has comes over what the process has, which otherwise      *)
(* stays.                                                                  *)
Loaded == [t \in Targets |-> IF Pruned(store)[t] # None THEN store[t] ELSE Pruned(mem)[t]]

(* The process's map is written over the file, by a rename; that it failed *)
(* is ignored.                                                             *)
Persist(f, ok) == store' = IF ok THEN f ELSE store

Expired(f) == {t \in Targets : f[t] # None /\ now > f[t].expires}

(* peekPendingMailSend: the file is written when nothing was found or      *)
(* something had expired.                                                  *)
Peek(t, ok) ==
  /\ mem' = Loaded
  /\ IF Loaded[t] = None \/ \E x \in Expired(mem) : Loaded[x] = None
     THEN Persist(Loaded, ok)
     ELSE store' = store

(* Mutant of Take: what was taken stays in the file.                       *)
LeavingTake(t, ok) ==
  /\ mem' = [Loaded EXCEPT ![t] = None]
  /\ store' = store

(* takePendingMailSend.                                                    *)
Take(t, ok) ==
  /\ mem' = [Loaded EXCEPT ![t] = None]
  /\ Persist(mem', ok)

(* Calls that may fail, at most MaxFaults times.                           *)
Fault(ok) == /\ ok \/ faults < MaxFaults
             /\ faults' = IF ok THEN faults ELSE faults + 1
-----------------------------------------------------------------------------
(* The chats, the clock and the server *)

Tick ==
  /\ now < MaxTime
  /\ now' = now + 1
  /\ UNCHANGED <<queue, drafts, store, listener, written, texts, faults, shown, here, sent, damaged>>

Write(t, k) ==
  /\ written < MaxWritten
  /\ written' = written + 1
  /\ queue' = Append(queue, [target |-> t, kind |-> k, at |-> now])
  /\ UNCHANGED <<now, drafts, store, listener, texts, faults, shown, here, sent, damaged>>

(* signal-cli receive.                                                     *)
Receive ==
  /\ batch = <<>> /\ queue # <<>>
  /\ batch' = queue
  /\ queue' = <<>>
  /\ UNCHANGED <<now, drafts, store, pc, mem, mac, hand, written, texts, faults, shown, here, sent, damaged>>

(* The process ends after a batch; the next one starts.                    *)
Restart ==
  /\ batch = <<>>
  /\ mem' = Nothing /\ mac' = Nothing /\ here' = {}
  /\ UNCHANGED <<now, queue, drafts, store, pc, batch, hand,
                 written, texts, faults, shown, sent, damaged>>

(* Mutant of Crash: the next process goes on where the dead one was.       *)
LingeringCrash ==
  /\ batch # <<>>
  /\ Fault(FALSE)
  /\ batch' = <<>> /\ mem' = Nothing /\ mac' = Nothing /\ here' = {}
  /\ damaged' = (damaged \/ pc \in {"remember", "reply"})
  /\ UNCHANGED <<now, queue, drafts, store, pc, hand, written, texts, shown, sent>>

(* It dies in the middle of one. A text it was about to show is not shown. *)
Crash ==
  /\ batch # <<>>
  /\ Fault(FALSE)
  /\ batch' = <<>> /\ mem' = Nothing /\ mac' = Nothing /\ here' = {}
  /\ pc' = "next" /\ hand' = None
  /\ damaged' = (damaged \/ pc \in {"remember", "reply"})
  /\ UNCHANGED <<now, queue, drafts, store, written, texts, shown, sent>>
-----------------------------------------------------------------------------
(* Handling a message *)

Message == Head(batch)
Target == Message.target
Stale == now - Message.at > MaxAge                       \* isStaleIncoming
Handles(kinds) == pc = "next" /\ batch # <<>> /\ ~Stale /\ Message.kind \in kinds
MacPending == mac[Target] # None /\ now <= mac[Target]   \* peekPendingArgosAction

Goto(label) == pc' = label /\ UNCHANGED batch
Done == pc' = "next" /\ batch' = Tail(batch)

Skip ==
  /\ pc = "next" /\ batch # <<>> /\ Stale
  /\ Done
  /\ UNCHANGED <<now, queue, drafts, store, mem, mac, hand,
                 written, texts, faults, shown, here, sent, damaged>>

(* SaveDraft: the draft goes to the file of its id, over what is there.    *)
SaveDraft(id, text) ==
  /\ texts' = text
  /\ drafts' = [drafts EXCEPT ![id] = text]
  /\ hand' = [id |-> id, text |-> text, expires |-> now + TTL]

(* prepareSignalMailSend and DraftReply: a new draft, named by the second. *)
Compose(ok) ==
  /\ Handles({"compose"})
  /\ Fault(ok)
  /\ IF ok THEN /\ SaveDraft(now, texts + 1)
                /\ damaged' = (damaged \/ drafts[now] # None)
                /\ Goto("remember")
           ELSE /\ Done
                /\ UNCHANGED <<drafts, hand, texts, damaged>>
  /\ UNCHANGED <<now, queue, store, mem, mac, written, shown, here, sent>>

(* mailDraftRevisionReply: the draft keeps its id.                         *)
Revise(ok) ==
  /\ Handles({"revise"})
  /\ Peek(Target, ok)
  /\ Fault(ok)
  /\ IF ok /\ Loaded[Target] # None
     THEN SaveDraft(Loaded[Target].id, texts + 1) /\ Goto("remember")
     ELSE Done /\ UNCHANGED <<drafts, hand, texts>>
  /\ UNCHANGED <<now, queue, mac, written, shown, here, sent, damaged>>

(* Mutant of Remember: a revised draft keeps waiting as it was.            *)
StickyRemember(ok) ==
  /\ pc = "remember"
  /\ Fault(ok)
  /\ mem' = [Pruned(mem) EXCEPT ![Target] = IF mem[Target] # None THEN mem[Target] ELSE hand]
  /\ Persist(mem', ok)
  /\ damaged' = (damaged \/ ~ok)
  /\ Goto("reply")
  /\ UNCHANGED <<now, queue, drafts, mac, hand, written, texts, shown, here, sent>>

(* rememberPendingMailSend: what the file has is not loaded first.         *)
Remember(ok) ==
  /\ pc = "remember"
  /\ Fault(ok)
  /\ mem' = [Pruned(mem) EXCEPT ![Target] = hand]
  /\ Persist(mem', ok)
  /\ damaged' = (damaged \/ ~ok)
  /\ Goto("reply")
  /\ UNCHANGED <<now, queue, drafts, mac, hand, written, texts, shown, here, sent>>

(* sendSignalReply shows the draft; a failure is not repeated.             *)
Reply(ok) ==
  /\ pc = "reply"
  /\ Fault(ok)
  /\ shown' = IF ok THEN [shown EXCEPT ![Target] = hand] ELSE shown
  /\ here' = IF ok THEN here \union {Target} ELSE here
  /\ damaged' = (damaged \/ ~ok)
  /\ Done
  /\ hand' = None
  /\ UNCHANGED <<now, queue, drafts, store, mem, mac, written, texts, sent>>

(* approvePendingMailSend, up to the mail server.                          *)
TakeMail(ok) ==
  /\ Take(Target, ok)
  /\ Fault(ok)
  /\ damaged' = (damaged \/ ~ok)
  /\ IF Loaded[Target] = None
     THEN Done /\ UNCHANGED <<hand, shown>>
     ELSE /\ hand' = Loaded[Target]
          /\ shown' = [shown EXCEPT ![Target] = None]
          /\ Goto("send")
  /\ UNCHANGED <<now, queue, drafts, mac, written, texts, here, sent>>

ApproveMail(ok) == Handles({"approve"}) /\ TakeMail(ok)

(* SendDraft mails what the file of the draft's id has now.                *)
SendDraft(ok) ==
  /\ pc = "send"
  /\ Fault(ok)
  /\ LET x == drafts[hand.id] IN
       sent' = IF ok /\ sent[x] < 2 THEN [sent EXCEPT ![x] = @ + 1] ELSE sent
  /\ Done
  /\ hand' = None
  /\ UNCHANGED <<now, queue, drafts, store, mem, mac, written, texts, shown, here, damaged>>

OfferMac ==
  /\ Handles({"mac"})
  /\ mac' = [mac EXCEPT ![Target] = now + TTL]
  /\ Done
  /\ UNCHANGED <<now, queue, drafts, store, mem, hand, written, texts, faults, shown, here, sent, damaged>>

(* approvePendingArgosAction.                                              *)
TakeMac == mac' = [mac EXCEPT ![Target] = None] /\ Done

RunMac ==
  /\ Handles({"run"})
  /\ TakeMac
  /\ UNCHANGED <<now, queue, drafts, store, mem, hand, written, texts, faults, shown, here, sent, damaged>>

(* A short yes. With a mail and a Mac action waiting it does nothing       *)
(* (assistantAmbiguousApprovalReply); otherwise it is for what waits.      *)
AnswerNeither(ok) ==
  /\ Handles({"ok"})
  /\ Loaded[Target] # None /\ MacPending
  /\ Peek(Target, ok) /\ Fault(ok)
  /\ Done
  /\ UNCHANGED <<now, queue, drafts, mac, hand, written, texts, shown, here, sent, damaged>>

(* Mutant of AnswerMac: the waiting mail is not looked for.                *)
HastyAnswerMac(ok) ==
  /\ Handles({"ok"})
  /\ MacPending
  /\ Peek(Target, ok) /\ Fault(ok)
  /\ TakeMac
  /\ UNCHANGED <<now, queue, drafts, hand, written, texts, shown, here, sent, damaged>>

AnswerMac(ok) ==
  /\ Handles({"ok"})
  /\ Loaded[Target] = None /\ MacPending
  /\ Peek(Target, ok) /\ Fault(ok)
  /\ TakeMac
  /\ UNCHANGED <<now, queue, drafts, hand, written, texts, shown, here, sent, damaged>>

AnswerMail(ok) == Handles({"ok"}) /\ ~MacPending /\ TakeMail(ok)

Handle ==
  \/ Skip \/ OfferMac \/ RunMac
  \/ \E ok \in BOOLEAN :
       \/ Compose(ok) \/ Revise(ok) \/ Remember(ok) \/ Reply(ok)
       \/ ApproveMail(ok) \/ SendDraft(ok)
       \/ AnswerNeither(ok) \/ AnswerMac(ok) \/ AnswerMail(ok)

Next ==
  \/ Tick \/ Receive \/ Restart \/ Crash \/ Handle
  \/ \E t \in Targets, k \in Kinds : Write(t, k)

Spec == Init /\ [][Next]_vars
-----------------------------------------------------------------------------
(* Properties *)

(* No text is mailed twice, whatever is approved again and whenever the    *)
(* listener dies or is started anew: what was taken is in no map and no    *)
(* file, nor comes back into one. Exempt are drafts of one name and failed *)
(* writes, which do repeat mails.                                          *)
SentOnce == damaged \/ \A x \in Texts : sent[x] <= 1

(* An approval is for what the chat saw: the draft it takes names a file   *)
(* whose text is the one the chat was last shown, across revisions,        *)
(* restarts and expiry.                                                    *)
ApprovedAsShown ==
  [][\A ok \in BOOLEAN : (ApproveMail(ok) \/ AnswerMail(ok)) /\ pc' = "send" /\ ~damaged =>
       shown[Target] # None /\ drafts[hand'.id] = shown[Target].text]_vars

(* A short yes of a chat that was shown a draft and then a Mac action, or  *)
(* the other way round, by a process that lives on, executes neither while *)
(* both are in time, whatever the maps and the file have become meanwhile. *)
(* Exempt is as above what follows a failed write: an older send that is   *)
(* still in the file comes back over the one that was shown and, as it     *)
(* expires before it, leaves the Mac action alone.                         *)
InTime(t) == shown[t] # None /\ now <= shown[t].expires
NoGuess ==
  [][\A ok \in BOOLEAN : (AnswerMac(ok) \/ (AnswerMail(ok) /\ pc' = "send")) /\ ~damaged =>
       ~(MacPending /\ Target \in here /\ InTime(Target))]_vars

(* "approve" sends the pending SMTP draft if it is still inside the        *)
(* approval TTL (docs/MAIL.md:148).                                        *)
ApprovedInTimeIsSent ==
  [][\A ok \in BOOLEAN : ApproveMail(ok) /\ InTime(Target) =>
       pc' = "send"]_vars
=============================================================================
