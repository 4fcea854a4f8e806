------------------------------ MODULE MailWatch -------------------------------
(***************************************************************************)
(* The mail-watch job (runMailWatch, mailadapter.WatchOnce and Search) as  *)
(* the scheduler runs it: it lists recent mail, leaves out what its state  *)
(* file says it has seen, saves what it has seen and then sends a notice   *)
(* of the rest.                                                            *)
(*                                                                         *)
(* One account. Messages are numbered as they arrive (IMAP UIDs) and never *)
(* deleted. The trimming of the seen list to 200 ids, far more than are    *)
(* listed at once, is left out, and so are accounts that fail: their       *)
(* errors are announced like messages.                                     *)
(***************************************************************************)
EXTENDS ScheduleRunner, FiniteSets

CONSTANTS
  MailJob,    (* the id of the mail-watch job                            *)
  Messages,   (* bound: the messages that may arrive, 1..n               *)
  Window,     (* WatchOptions.Since                                      *)
  Limit       (* WatchOptions.Limit                                      *)

ASSUME MailAssumption ==
  /\ MailJob \in Jobs
  /\ Window \in Nat
  /\ Limit \in Nat
  /\ \A S \in SUBSET Messages : Torn # S

VARIABLES
  arrived,    \* [Messages -> the date on which it arrived]
  seen,       \* mail-watch-state.json: a set of messages or Torn
  mailpc, seenMem, fresh,  \* one run of the job
  (* history *)
  announced,  \* [Messages -> how many notices named it, up to two]
  forgot      \* some run found a torn state file

mailRunVars == <<mailpc, seenMem, fresh>>
mailVars == <<arrived, seen, mailRunVars, announced, forgot>>
allVars == <<vars, mailVars>>

Mailbox == {m \in Messages : arrived[m] # Never}

MailTypeOK ==
  /\ TypeOK
  /\ arrived \in [Messages -> Times \union {Never}]
  /\ seen = Torn \/ seen \subseteq Messages
  /\ mailpc \in [Runners -> {"read", "truncate", "write", "done"}]
  /\ \A p \in Runners : fresh[p] \subseteq seenMem[p] /\ seenMem[p] \subseteq Messages
  /\ \A p \in Runners : mailpc[p] # "read" =>
       pc[p] \in {"working", "sending"} /\ Job(p) = MailJob
  /\ announced \in [Messages -> 0..2]
  /\ forgot \in BOOLEAN

MailInit ==
  /\ Init
  /\ arrived = [m \in Messages |-> Never]
  /\ seen = {}
  /\ mailpc = [p \in Runners |-> "read"]
  /\ seenMem = [p \in Runners |-> {}]
  /\ fresh = [p \in Runners |-> {}]
  /\ announced = [m \in Messages |-> 0]
  /\ forgot = FALSE
-----------------------------------------------------------------------------
Arrive(m) ==
  /\ m \in Messages \ Mailbox
  /\ \A x \in Messages : x < m => x \in Mailbox
  /\ arrived' = [arrived EXCEPT ![m] = now \div Day]
  /\ UNCHANGED <<vars, seen, mailRunVars, announced, forgot>>

(* The last Limit messages of IMAP's SINCE, which compares dates only.     *)
Recent == {m \in Mailbox : arrived[m] >= (now - Window) \div Day}
Listed == {m \in Recent : Cardinality({x \in Recent : x > m}) < Limit}

InMailJob(p, label) == pc[p] = "working" /\ Job(p) = MailJob /\ mailpc[p] = label
MailGoto(p, label) == mailpc' = [mailpc EXCEPT ![p] = label]

(* Mutant of ReadMail: new messages are not added to the seen ids.         *)
ForgetfulReadMail(p) ==
  /\ InMailJob(p, "read")
  /\ MailGoto(p, "truncate")
  /\ LET known == IF seen = Torn THEN {} ELSE seen IN
       /\ fresh' = [fresh EXCEPT ![p] = Listed \ known]
       /\ seenMem' = [seenMem EXCEPT ![p] = known]
  /\ forgot' = (forgot \/ seen = Torn)
  /\ UNCHANGED <<vars, arrived, seen, announced>>

(* Loading the seen ids and listing the mail. A torn file reads as empty.  *)
ReadMail(p) ==
  /\ InMailJob(p, "read")
  /\ MailGoto(p, "truncate")
  /\ LET known == IF seen = Torn THEN {} ELSE seen IN
       /\ fresh' = [fresh EXCEPT ![p] = Listed \ known]
       /\ seenMem' = [seenMem EXCEPT ![p] = known \union Listed]
  /\ forgot' = (forgot \/ seen = Torn)
  /\ UNCHANGED <<vars, arrived, seen, announced>>

(* SaveMailWatchState, by os.WriteFile.                                    *)
TruncateSeen(p) ==
  /\ InMailJob(p, "truncate")
  /\ MailGoto(p, "write")
  /\ seen' = Torn
  /\ UNCHANGED <<vars, arrived, seenMem, fresh, announced, forgot>>

WriteSeen(p) ==
  /\ InMailJob(p, "write")
  /\ MailGoto(p, "done")
  /\ seen' = seenMem[p]
  /\ UNCHANGED <<vars, arrived, seenMem, fresh, announced, forgot>>

(* Nothing is left of a mail run that is over or dead but its state file.  *)
ForgetMail(p) ==
  /\ MailGoto(p, "read")
  /\ seenMem' = [seenMem EXCEPT ![p] = {}]
  /\ fresh' = [fresh EXCEPT ![p] = {}]

(* RunOnce sends a notice when there are new messages. It may not arrive,  *)
(* and nothing is done about that.                                         *)
SendMail(p, sent) ==
  /\ EndJob(p)
  /\ Job(p) = MailJob
  /\ announced' = [m \in Messages |->
       IF sent /\ m \in fresh[p] /\ announced[m] < 2 THEN announced[m] + 1 ELSE announced[m]]
  /\ ForgetMail(p)
  /\ UNCHANGED <<arrived, seen, forgot>>

FinishMail(p) ==
  /\ InMailJob(p, "done")
  /\ FinishJob(p)
  /\ UNCHANGED mailVars

(* Mutant of CrashMail: the next run goes on where the dead one was.       *)
LingeringCrashMail(p) ==
  /\ Crash(p)
  /\ UNCHANGED <<arrived, seen, announced, forgot, mailRunVars>>

CrashMail(p) ==
  /\ Crash(p)
  /\ ForgetMail(p)
  /\ UNCHANGED <<arrived, seen, announced, forgot>>

(* The steps of the scheduler, and of its other jobs.                      *)
OtherStep(p) ==
  /\ \/ BeginJob(p) \/ SkipJob(p) \/ TruncateState(p) \/ WriteState(p) \/ StartByHand(p)
     \/ (FinishJob(p) \/ EndJob(p)) /\ Job(p) # MailJob
  /\ UNCHANGED mailVars

ClockStep == (Fire \/ MissFire \/ Advance) /\ UNCHANGED mailVars

MailNext ==
  \/ ClockStep
  \/ \E m \in Messages : Arrive(m)
  \/ \E p \in Runners : \/ OtherStep(p)
                        \/ ReadMail(p) \/ TruncateSeen(p) \/ WriteSeen(p)
                        \/ FinishMail(p) \/ CrashMail(p)
                        \/ \E sent \in BOOLEAN : SendMail(p, sent)

MailSpec == MailInit /\ [][MailNext]_allVars
-----------------------------------------------------------------------------
(* Properties *)

(* The job "deduplicates seen message IDs" (docs/MAIL.md:178).             *)
(* No message is announced twice, also when runs die and are repeated,     *)
(* unless a state file was found torn or runs overlapped.                  *)
AnnouncedOnce == forgot \/ overlap \/ \A m \in Messages : announced[m] <= 1

(* The job "checks all configured accounts for recent messages"            *)
(* (docs/MAIL.md:171), run every 15 minutes (177) with a window of 15      *)
(* minutes: no message in the mailbox goes unseen by a check.              *)
NoMailMissed ==
  [][\A p \in Runners : ReadMail(p) => Mailbox \subseteq seenMem'[p]]_allVars
=============================================================================
