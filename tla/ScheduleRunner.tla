---------------------------- MODULE ScheduleRunner ----------------------------
(***************************************************************************)
(* The job scheduler (internal/scheduler) and the launchd agent that runs  *)
(* `meshclaw schedule run-due --execute` (cmd/meshclaw): which jobs of the *)
(* plan are due, and the state file that remembers when each last ran.     *)
(*                                                                         *)
(* Time is a natural number; Hour and Day say how the clock is divided,    *)
(* and a date is time \div Day. Jobs take time, everything else happens    *)
(* between two ticks of the clock, but not in one step. What a job does is *)
(* left to modules that extend this one. A failed job counts as run, so    *)
(* the outcome of a job is not modelled. No sleep and no change of the     *)
(* clock or of daylight saving.                                            *)
(***************************************************************************)
EXTENDS Integers, Sequences

CONSTANTS
  Runners,    (* processes that may execute `schedule run-due`           *)
  Launchd,    (* the one launchd starts; the others are started by hand  *)
  Order,      (* the enabled jobs of DefaultPlan, in its order           *)
  When,       (* [jobs -> Schedules]                                     *)
  Hour, Day,  (* lengths of an hour and of a day                         *)
  Period,     (* StartInterval of the launchd agent                      *)
  MaxRun,     (* bound: how long a job takes                             *)
  MaxTime,    (* bound: the end of time                                  *)
  MaxCrashes, (* bound: runs that die                                    *)
  Torn        (* a state file cut off in the middle of a write           *)

Jobs == {Order[i] : i \in DOMAIN Order}
Schedules == [kind : {"interval", "daily", "hourly"}, at : Nat]
Times == 0..MaxTime
Never == -1
LastRuns == [Jobs -> Times \union {Never}]

ASSUME ScheduleAssumption ==
  /\ Launchd \in Runners
  /\ Order \in Seq(STRING)
  /\ When \in [Jobs -> Schedules]
  /\ {Hour, Day, Period} \subseteq Nat \ {0}
  /\ {MaxRun, MaxTime, MaxCrashes} \subseteq Nat
  /\ Torn \notin LastRuns

VARIABLES
  now,
  nextFire,   \* when launchd's timer goes off next
  stored,     \* schedule-state.json: a LastRuns or Torn
  pc, mem,    \* where a run is, and the State it has in memory
  position,   \* the index in Order it is at
  began,      \* when its job began
  (* history *)
  lastFinish, \* when each job last finished
  lost,       \* jobs whose last finish died with the run, unrecorded
  crashes, lastCrash,  \* how many runs died, and when the last one did
  overlap     \* some run started while another was going on

clockVars == <<now, nextFire>>
runVars == <<pc, mem, position, began>>
historyVars == <<lastFinish, lost, crashes, lastCrash, overlap>>
vars == <<clockVars, stored, runVars, historyVars>>

NoRuns == [j \in Jobs |-> Never]

TypeOK ==
  /\ now \in Times
  /\ nextFire \in 0..(MaxTime + Period)
  /\ stored \in LastRuns \union {Torn}
  /\ pc \in [Runners -> {"idle", "jobs", "working", "sending", "write"}]
  /\ mem \in [Runners -> LastRuns]
  /\ position \in [Runners -> 1..(Len(Order) + 1)]
  /\ began \in [Runners -> Times]
  /\ lastFinish \in LastRuns
  /\ lost \subseteq Jobs
  /\ crashes \in 0..MaxCrashes
  /\ lastCrash \in Times
  /\ overlap \in BOOLEAN
  /\ now <= nextFire
  /\ \A p \in Runners : pc[p] \in {"working", "sending"} => position[p] \in DOMAIN Order

Init ==
  /\ now = 0
  /\ nextFire = 0   \* RunAtLoad
  /\ stored = NoRuns
  /\ pc = [p \in Runners |-> "idle"]
  /\ mem = [p \in Runners |-> NoRuns]
  /\ position = [p \in Runners |-> 1]
  /\ began = [p \in Runners |-> 0]
  /\ lastFinish = NoRuns
  /\ lost = {}
  /\ crashes = 0
  /\ lastCrash = 0
  /\ overlap = FALSE
-----------------------------------------------------------------------------
(* Due and NextDue *)

SameDate(a, b) == a \div Day = b \div Day
DailyAt(s, t) == (t \div Day) * Day + s.at      \* dailyAtOnLocalDate
HourlyAt(s, t) == (t \div Hour) * Hour + s.at   \* hourlyAtOnLocalHour

Due(s, last, t) ==
  CASE s.kind = "interval" -> last = Never \/ t - last >= s.at
    [] s.kind = "daily" -> t >= DailyAt(s, t) /\ (last = Never \/ ~SameDate(last, t))
    [] s.kind = "hourly" -> t >= HourlyAt(s, t) /\ (last = Never \/ last < HourlyAt(s, t))

(* Mutant of NextDue: a daily job that ran today is called due at once.     *)
DateBlindNextDue(s, last, t) ==
  CASE s.kind = "interval" ->
         IF last = Never \/ last + s.at < t THEN t ELSE last + s.at
    [] s.kind = "daily" -> IF t < DailyAt(s, t) THEN DailyAt(s, t) ELSE t
    [] s.kind = "hourly" ->
         IF last # Never /\ last >= HourlyAt(s, t) THEN HourlyAt(s, t) + Hour
         ELSE IF t < HourlyAt(s, t) THEN HourlyAt(s, t) ELSE t

NextDue(s, last, t) ==
  CASE s.kind = "interval" ->
         IF last = Never \/ last + s.at < t THEN t ELSE last + s.at
    [] s.kind = "daily" ->
         IF last # Never /\ SameDate(last, t) THEN DailyAt(s, t) + Day
         ELSE IF t < DailyAt(s, t) THEN DailyAt(s, t) ELSE t
    [] s.kind = "hourly" ->
         IF last # Never /\ last >= HourlyAt(s, t) THEN HourlyAt(s, t) + Hour
         ELSE IF t < HourlyAt(s, t) THEN HourlyAt(s, t) ELSE t
-----------------------------------------------------------------------------
(* RunDue *)

Goto(p, label) == pc' = [pc EXCEPT ![p] = label]
Job(p) == Order[position[p]]

(* LoadState: an error leaves a State with no last runs, and is ignored.   *)
Start(p) ==
  /\ pc[p] = "idle"
  /\ Goto(p, "jobs")
  /\ mem' = [mem EXCEPT ![p] = IF stored = Torn THEN NoRuns ELSE stored]
  /\ position' = [position EXCEPT ![p] = 1]
  /\ overlap' = (overlap \/ \E q \in Runners : pc[q] # "idle")
  /\ UNCHANGED <<now, stored, began, lastFinish, lost, crashes, lastCrash>>

(* launchd starts its job when the timer goes off, or misses the firing if *)
(* the last one is still running.                                          *)
Fire ==
  /\ now = nextFire
  /\ nextFire' = nextFire + Period
  /\ Start(Launchd)

MissFire ==
  /\ now = nextFire
  /\ pc[Launchd] # "idle"
  /\ nextFire' = nextFire + Period
  /\ UNCHANGED <<now, stored, runVars, historyVars>>

StartByHand(p) == p # Launchd /\ Start(p) /\ UNCHANGED nextFire

(* Each job is looked at with the clock of that moment and the state that  *)
(* was loaded at the start.                                                *)
BeginJob(p) ==
  /\ pc[p] = "jobs"
  /\ position[p] \in DOMAIN Order
  /\ Due(When[Job(p)], mem[p][Job(p)], now)
  /\ Goto(p, "working")
  /\ began' = [began EXCEPT ![p] = now]
  /\ UNCHANGED <<clockVars, stored, mem, position, historyVars>>

(* Mutant of SkipJob: a job that is not due ends the run, not its turn.    *)
LeavingSkipJob(p) ==
  /\ pc[p] = "jobs"
  /\ position[p] \in DOMAIN Order
  /\ ~Due(When[Job(p)], mem[p][Job(p)], now)
  /\ position' = [position EXCEPT ![p] = Len(Order) + 1]
  /\ UNCHANGED <<clockVars, stored, pc, mem, began, historyVars>>

SkipJob(p) ==
  /\ pc[p] = "jobs"
  /\ position[p] \in DOMAIN Order
  /\ ~Due(When[Job(p)], mem[p][Job(p)], now)
  /\ position' = [position EXCEPT ![p] = @ + 1]
  /\ UNCHANGED <<clockVars, stored, pc, mem, began, historyVars>>

(* Mutant of FinishJob: a job that is done is not noted in the state.      *)
UnnotedFinishJob(p) ==
  /\ pc[p] = "working"
  /\ Goto(p, "sending")
  /\ lastFinish' = [lastFinish EXCEPT ![Job(p)] = now]
  /\ lost' = lost \ {Job(p)}
  /\ UNCHANGED <<clockVars, stored, mem, position, began, crashes, lastCrash, overlap>>

(* RunOnce takes FinishedAt when the job is over and before it sends.      *)
FinishJob(p) ==
  /\ pc[p] = "working"
  /\ Goto(p, "sending")
  /\ mem' = [mem EXCEPT ![p][Job(p)] = now]
  /\ lastFinish' = [lastFinish EXCEPT ![Job(p)] = now]
  /\ lost' = lost \ {Job(p)}
  /\ UNCHANGED <<clockVars, stored, position, began, crashes, lastCrash, overlap>>

(* A failed delivery is noted in the result and changes nothing else.      *)
EndJob(p) ==
  /\ pc[p] = "sending"
  /\ Goto(p, "jobs")
  /\ position' = [position EXCEPT ![p] = @ + 1]
  /\ UNCHANGED <<clockVars, stored, mem, began, historyVars>>

(* SaveState: os.WriteFile truncates the file and writes it.               *)
TruncateState(p) ==
  /\ pc[p] = "jobs"
  /\ position[p] \notin DOMAIN Order
  /\ Goto(p, "write")
  /\ stored' = Torn
  /\ UNCHANGED <<clockVars, mem, position, began, historyVars>>

Forget(p) ==
  /\ Goto(p, "idle")
  /\ mem' = [mem EXCEPT ![p] = NoRuns]
  /\ position' = [position EXCEPT ![p] = 1]
  /\ began' = [began EXCEPT ![p] = 0]

WriteState(p) ==
  /\ pc[p] = "write"
  /\ stored' = mem[p]
  /\ Forget(p)
  /\ UNCHANGED <<clockVars, historyVars>>

Crash(p) ==
  /\ pc[p] # "idle"
  /\ lost' = IF stored = Torn THEN Jobs
             ELSE lost \union {j \in Jobs : mem[p][j] # stored[j]}
  /\ crashes < MaxCrashes
  /\ crashes' = crashes + 1
  /\ lastCrash' = now
  /\ Forget(p)
  /\ UNCHANGED <<clockVars, stored, lastFinish, overlap>>

(* Jobs take at most MaxRun; the other steps of a run take no time.        *)
Advance ==
  /\ now < nextFire
  /\ now < MaxTime
  /\ \A p \in Runners : \/ pc[p] = "idle"
                        \/ pc[p] = "working" /\ now - began[p] < MaxRun
  /\ now' = now + 1
  /\ UNCHANGED <<nextFire, stored, runVars, historyVars>>

RunStep(p) ==
  \/ BeginJob(p) \/ SkipJob(p) \/ FinishJob(p) \/ EndJob(p)
  \/ TruncateState(p) \/ WriteState(p)

Next ==
  \/ Fire \/ MissFire \/ Advance
  \/ \E p \in Runners : StartByHand(p) \/ RunStep(p) \/ Crash(p)

Spec == Init /\ [][Next]_vars
-----------------------------------------------------------------------------
(* Properties *)

(* What `schedule status` says of a job and what run-due does agree: it is *)
(* due exactly when its next due time (NextDue, a function of its own) is  *)
(* not in the future.                                                      *)
DueWhenNextDue ==
  \A j \in Jobs : \A last \in {lastFinish[j]} \union {mem[p][j] : p \in Runners} :
    Due(When[j], last, now) <=> NextDue(When[j], last, now) <= now

(* Long enough after its last finish for a job to begin at t.              *)
Spaced(s, last, t) ==
  \/ last = Never
  \/ s.kind = "interval" /\ t - last >= s.at
  \/ s.kind = "daily" /\ ~SameDate(last, t)
  \/ s.kind = "hourly" /\ (last < HourlyAt(s, last) \/ t \div Hour # last \div Hour)

(* As long as no run overlaps another, a job is not begun again before its *)
(* time, by whatever run, unless the run that last did it died before the  *)
(* state file had it: run-due does the catching up, not the repeating.     *)
NoEarlyRerun ==
  ~overlap => \A p \in Runners : pc[p] = "working" /\ Job(p) \notin lost =>
    Spaced(When[Job(p)], lastFinish[Job(p)], began[p])

(* Since when a job that is due at time t is due, and when the hour or day *)
(* it is due in is over: RunDue does not make up for an hour or a day.     *)
DueSince(s, last, t) ==
  CASE s.kind = "interval" -> IF last = Never THEN 0 ELSE last + s.at
    [] s.kind = "daily" -> DailyAt(s, t)
    [] s.kind = "hourly" -> HourlyAt(s, t)

WindowEnd(s, t) ==
  LET unit == IF s.kind = "daily" THEN Day ELSE Hour
  IN  (t \div unit + 1) * unit

(* Every time up to t at which a job fell due that was not done after it,  *)
(* also in hours and days that are over.                                   *)
Dues(s, last, t) ==
  {x \in 0..t : last <= x /\ Due(s, last, x) /\ DueSince(s, last, x) = x}

Later(a, b) == IF a > b THEN a ELSE b
RunLength == Len(Order) * MaxRun
DueBy(x) == Later(x, lastCrash) + Period + RunLength

(* However long other jobs take, and although launchd misses a firing when *)
(* a run is still going on, a job that falls due has been done one firing  *)
(* interval and the time of one whole run later, counted from the last     *)
(* crash if there was one since: the jobs after it in the run that skipped *)
(* it and the jobs before it in the next run make up one run. Only a daily *)
(* or hourly job whose day or hour is over by then may be left out.        *)
DoneInTime ==
  \A j \in Jobs : \A x \in Dues(When[j], lastFinish[j], now) :
    \/ now <= DueBy(x)
    \/ When[j].kind # "interval" /\ WindowEnd(When[j], x) <= DueBy(x)
=============================================================================
