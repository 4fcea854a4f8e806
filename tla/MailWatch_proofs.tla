--------------------------- MODULE MailWatch_proofs ---------------------------
(***************************************************************************)
(* Theorems of ScheduleRunner and of MailWatch, whose steps are steps of   *)
(* the scheduler as far as the scheduler's variables go.                   *)
(***************************************************************************)
EXTENDS MailWatch, TLAPS

(* The clock *)

LEMMA Division ==
  ASSUME NEW t \in Int, NEW d \in Nat \ {0}
  PROVE  /\ t \div d \in Int
         /\ (t \div d) * d <= t
         /\ t < (t \div d) * d + d
OBVIOUS

LEMMA DivisionGrows ==
  ASSUME NEW a \in Int, NEW b \in Int, a <= b, NEW d \in Nat \ {0}
  PROVE  a \div d <= b \div d
<1> DEFINE x == a \div d
           y == b \div d
<1>1. /\ x \in Int /\ y \in Int
      /\ x * d <= a /\ a < x * d + d
      /\ y * d <= b /\ b < y * d + d
  BY Division
<1> HIDE DEF x, y
<1>2. SUFFICES ASSUME y + 1 <= x PROVE FALSE
  BY <1>1 DEF x, y
<1>3. (y + 1) * d <= x * d
  BY <1>1, <1>2
<1>4. (y + 1) * d = y * d + d
  BY <1>1
<1>5. QED
  BY <1>1, <1>3, <1>4

LEMMA ClockTypes ==
  /\ Day \in Nat \ {0} /\ Hour \in Nat \ {0} /\ Period \in Nat \ {0}
  /\ MaxRun \in Nat /\ MaxTime \in Nat /\ MaxCrashes \in Nat /\ Never \in Int
  /\ When \in [Jobs -> Schedules] /\ Launchd \in Runners /\ Order \in Seq(STRING)
BY ScheduleAssumption DEF Never

LEMMA At ==
  ASSUME NEW s \in Schedules, NEW t \in Nat
  PROVE  /\ DailyAt(s, t) \in Int /\ HourlyAt(s, t) \in Int /\ s.at \in Nat
         /\ t < DailyAt(s, t) + Day /\ t < HourlyAt(s, t) + Hour
<1>1. /\ t \div Day \in Int /\ t < (t \div Day) * Day + Day
      /\ t \div Hour \in Int /\ t < (t \div Hour) * Hour + Hour
  BY ClockTypes, Division
<1>2. s.at \in Nat
  BY DEF Schedules
<1> DEFINE x == t \div Day
           y == t \div Hour
<1>3. DailyAt(s, t) = x * Day + s.at /\ HourlyAt(s, t) = y * Hour + s.at
  BY DEF DailyAt, HourlyAt
<1> HIDE DEF x, y
<1>4. x * Day \in Int /\ y * Hour \in Int
  BY <1>1, ClockTypes DEF x, y
<1> DEFINE p == x * Day
           q == y * Hour
<1>5. t < p + Day /\ t < q + Hour
  BY <1>1 DEF x, y
<1> HIDE DEF p, q
<1>6. QED
  BY <1>2, <1>3, <1>4, <1>5, ClockTypes, SMTT(30) DEF p, q

LEMMA DueIsNextDue ==
  ASSUME NEW s \in Schedules, NEW last \in Times \union {Never}, NEW t \in Nat
  PROVE  Due(s, last, t) <=> NextDue(s, last, t) <= t
<1>1. /\ DailyAt(s, t) \in Int /\ HourlyAt(s, t) \in Int /\ s.at \in Nat
      /\ t < DailyAt(s, t) + Day /\ t < HourlyAt(s, t) + Hour
  BY At
<1>2. last \in Int /\ Day \in Nat /\ Hour \in Nat
  BY ClockTypes DEF Times
<1>3. s.kind \in {"interval", "daily", "hourly"}
  BY DEF Schedules
<1>4. CASE s.kind = "interval"
  BY <1>1, <1>2, <1>4 DEF Due, NextDue
<1>5. CASE s.kind = "daily"
  BY <1>1, <1>2, <1>5 DEF Due, NextDue
<1>6. CASE s.kind = "hourly"
  BY <1>1, <1>2, <1>6 DEF Due, NextDue
<1>7. QED
  BY <1>3, <1>4, <1>5, <1>6

(* A job that is due would be, had it last been done earlier. *)
LEMMA DueEarlier ==
  ASSUME NEW s \in Schedules, NEW t \in Nat,
         NEW earlier \in Times \union {Never}, NEW last \in Times \union {Never},
         earlier <= last, last <= t, Due(s, last, t)
  PROVE  Due(s, earlier, t)
<1>0. /\ earlier \in Int /\ last \in Int /\ Never = -1
      /\ earlier = Never \/ (earlier \in Nat /\ earlier >= 0)
  BY ClockTypes DEF Times, Never
<1>1. /\ earlier \in Int /\ last \in Int /\ t \in Int /\ Never = -1 /\ s.at \in Nat
      /\ HourlyAt(s, t) \in Int /\ Day \in Nat \ {0}
      /\ last = Never => earlier = Never
  BY <1>0, At, ClockTypes
<1>2. s.kind \in {"interval", "daily", "hourly"}
  BY DEF Schedules
<1>3. CASE s.kind = "interval"
  BY <1>1, <1>3 DEF Due
<1>4. CASE s.kind = "daily"
  <2>1. earlier \div Day <= last \div Day /\ last \div Day <= t \div Day
    BY <1>1, DivisionGrows
  <2>2. earlier \div Day \in Int /\ last \div Day \in Int /\ t \div Day \in Int
    BY <1>1, Division
  <2>3. ~SameDate(last, t) => ~SameDate(earlier, t)
    BY <2>1, <2>2 DEF SameDate
  <2>4. QED
    BY <1>1, <1>4, <2>3 DEF Due
<1>5. CASE s.kind = "hourly"
  BY <1>1, <1>5 DEF Due
<1>6. QED
  BY <1>2, <1>3, <1>4, <1>5

LEMMA SinceTypes ==
  ASSUME NEW s \in Schedules, NEW last \in Times \union {Never}, NEW t \in Nat
  PROVE  DueSince(s, last, t) \in Int
<1>1. s.kind \in {"interval", "daily", "hourly"}
  BY DEF Schedules
<1>2. QED
  BY <1>1, At DEF DueSince, Times, Never

LEMMA UnitGrows ==
  ASSUME NEW t \in Nat, NEW d \in Nat \ {0}
  PROVE  LET x == t \div d
             y == (t + 1) \div d
         IN  /\ x \in Int /\ y \in Int /\ x * d \in Int /\ y * d \in Int
             /\ (y = x \/ y * d = t + 1) /\ x * d <= y * d
<1> DEFINE x == t \div d
           y == (t + 1) \div d
<1>1. x \in Int /\ y \in Int /\ x <= y
  BY Division, DivisionGrows
<1>2. x * d <= t /\ t < x * d + d /\ y * d <= t + 1
  BY Division
<1> HIDE DEF x, y
<1>3. ASSUME x + 1 <= y PROVE y * d = t + 1
  <2>1. (x + 1) * d <= y * d
    BY <1>1, <1>3
  <2>2. (x + 1) * d = x * d + d
    BY <1>1
  <2>3. x * d \in Int /\ y * d \in Int
    BY <1>1
  <2> DEFINE p == x * d
             q == y * d
  <2>4. p \in Int /\ q \in Int /\ t < p + d /\ q <= t + 1 /\ p + d <= q
    BY <2>1, <2>2, <2>3, <1>2
  <2> HIDE DEF p, q
  <2>5. q = t + 1
    BY <2>4
  <2>6. QED
    BY <2>5 DEF q
<1>4. x * d \in Int /\ y * d \in Int /\ x * d <= y * d
  BY <1>1
<1>5. QED
  BY <1>1, <1>3, <1>4 DEF x, y

(* A tick of the clock does not move back the time since which a job is    *)
(* due, and a job that it makes due is due since that tick.                *)
LEMMA DueAdvance ==
  ASSUME NEW s \in Schedules, NEW last \in Times \union {Never}, NEW t \in Nat,
         last <= t, Due(s, last, t + 1)
  PROVE  \/ DueSince(s, last, t + 1) >= t + 1
         \/ Due(s, last, t) /\ DueSince(s, last, t + 1) >= DueSince(s, last, t)
<1>1. s.kind \in {"interval", "daily", "hourly"} /\ s.at \in Nat /\ last \in Int
      /\ Day \in Nat \ {0} /\ Hour \in Nat \ {0} /\ Never = -1
  BY ClockTypes DEF Schedules, Times, Never
<1> DEFINE x == t \div Day
           y == (t + 1) \div Day
           v == t \div Hour
           w == (t + 1) \div Hour
<1>2. /\ x \in Int /\ y \in Int /\ x * Day \in Int /\ y * Day \in Int
      /\ (y = x \/ y * Day = t + 1) /\ x * Day <= y * Day
      /\ v \in Int /\ w \in Int /\ v * Hour \in Int /\ w * Hour \in Int
      /\ (w = v \/ w * Hour = t + 1) /\ v * Hour <= w * Hour
  BY <1>1, UnitGrows
<1>3. /\ DailyAt(s, t) = x * Day + s.at /\ DailyAt(s, t + 1) = y * Day + s.at
      /\ HourlyAt(s, t) = v * Hour + s.at /\ HourlyAt(s, t + 1) = w * Hour + s.at
      /\ SameDate(last, t) <=> last \div Day = x
      /\ SameDate(last, t + 1) <=> last \div Day = y
  BY DEF DailyAt, HourlyAt, SameDate
<1> HIDE DEF x, y, v, w
<1> DEFINE a == x * Day
           b == y * Day
           c == v * Hour
           d == w * Hour
<1>4. /\ a \in Int /\ b \in Int /\ c \in Int /\ d \in Int
      /\ ((y = x /\ a = b) \/ b = t + 1) /\ a <= b
      /\ ((w = v /\ c = d) \/ d = t + 1) /\ c <= d
      /\ DailyAt(s, t) = a + s.at /\ DailyAt(s, t + 1) = b + s.at
      /\ HourlyAt(s, t) = c + s.at /\ HourlyAt(s, t + 1) = d + s.at
  BY <1>2, <1>3
<1> HIDE DEF a, b, c, d
<1>5. CASE s.kind = "interval"
  BY <1>1, <1>5 DEF Due, DueSince
<1>6. CASE s.kind = "daily"
  <2>1. /\ Due(s, last, t + 1) <=> (t + 1 >= b + s.at /\ (last = Never \/ ~SameDate(last, t + 1)))
        /\ Due(s, last, t) <=> (t >= a + s.at /\ (last = Never \/ ~SameDate(last, t)))
        /\ DueSince(s, last, t + 1) = b + s.at /\ DueSince(s, last, t) = a + s.at
    BY <1>4, <1>6 DEF Due, DueSince
  <2>2. CASE b = t + 1
    BY <2>1, <2>2, <1>1, <1>4
  <2>3. CASE y = x /\ a = b
    BY <2>1, <2>3, <1>1, <1>3, <1>4
  <2>4. QED
    BY <2>2, <2>3, <1>4
<1>7. CASE s.kind = "hourly"
  <2>1. /\ Due(s, last, t + 1) <=> (t + 1 >= d + s.at /\ (last = Never \/ last < d + s.at))
        /\ Due(s, last, t) <=> (t >= c + s.at /\ (last = Never \/ last < c + s.at))
        /\ DueSince(s, last, t + 1) = d + s.at /\ DueSince(s, last, t) = c + s.at
    BY <1>4, <1>7 DEF Due, DueSince
  <2>2. CASE d = t + 1
    BY <2>1, <2>2, <1>1, <1>4
  <2>3. CASE w = v /\ c = d
    BY <2>1, <2>3, <1>1, <1>4
  <2>4. QED
    BY <2>2, <2>3, <1>4
<1>8. QED
  BY <1>1, <1>5, <1>6, <1>7

(* A job that has just been done is due, if at all, since now. *)
LEMMA DueAfresh ==
  ASSUME NEW s \in Schedules, NEW t \in Times, Due(s, t, t)
  PROVE  DueSince(s, t, t) >= t
<1>1. s.kind \in {"interval", "daily", "hourly"} /\ s.at \in Nat /\ t \in Nat /\ t # Never
  BY DEF Schedules, Times, Never
<1>2. CASE s.kind = "interval"
  BY <1>1, <1>2 DEF Due, DueSince
<1>3. CASE s.kind = "daily"
  BY <1>1, <1>3 DEF Due, SameDate
<1>4. CASE s.kind = "hourly"
  BY <1>1, <1>4, At DEF Due
<1>5. QED
  BY <1>1, <1>2, <1>3, <1>4

(* Two times of one hour or day. *)
LEMMA SameUnit ==
  ASSUME NEW x \in Nat, NEW t \in Nat, NEW d \in Nat \ {0},
         x <= t, t < (x \div d + 1) * d
  PROVE  t \div d = x \div d
<1> DEFINE a == x \div d
           b == t \div d
<1>1. a \in Int /\ b \in Int /\ a <= b /\ b * d <= t /\ t < (a + 1) * d
  BY Division, DivisionGrows
<1> HIDE DEF a, b
<1>2. ASSUME a + 1 <= b PROVE FALSE
  <2>1. (a + 1) * d <= b * d
    BY <1>1, <1>2
  <2>2. (a + 1) * d \in Int /\ b * d \in Int
    BY <1>1
  <2>3. QED
    BY <1>1, <2>1, <2>2
<1>3. a = b
  BY <1>1, <1>2
<1>4. QED
  BY <1>3 DEF a, b

LEMMA WindowEnds ==
  ASSUME NEW s \in Schedules, NEW x \in Nat
  PROVE  WindowEnd(s, x) \in Int /\ x < WindowEnd(s, x)
<1> DEFINE unit == IF s.kind = "daily" THEN Day ELSE Hour
           a == x \div unit
<1>1. unit \in Nat \ {0}
  BY ClockTypes
<1> HIDE DEF unit
<1>2. a \in Int /\ x < a * unit + unit
  BY <1>1, Division
<1>3. WindowEnd(s, x) = (a + 1) * unit
  BY DEF WindowEnd, unit
<1> HIDE DEF a
<1>4. (a + 1) * unit = a * unit + unit /\ a * unit \in Int
  BY <1>1, <1>2
<1>5. QED
  BY <1>1, <1>2, <1>3, <1>4

(* What fell due and was not done since is due until its hour or day ends. *)
LEMMA StillDue ==
  ASSUME NEW s \in Schedules, NEW last \in Times \union {Never}, NEW t \in Nat,
         NEW x \in Dues(s, last, t), s.kind = "interval" \/ t < WindowEnd(s, x)
  PROVE  Due(s, last, t) /\ DueSince(s, last, t) = x
<1>1. /\ s.kind \in {"interval", "daily", "hourly"} /\ s.at \in Nat
      /\ Day \in Nat \ {0} /\ Hour \in Nat \ {0}
      /\ last \in Int /\ x \in Nat /\ x <= t
      /\ Due(s, last, x) /\ DueSince(s, last, x) = x
  BY ClockTypes DEF Schedules, Dues, Times, Never
<1>2. CASE s.kind = "interval"
  BY <1>1, <1>2 DEF Due, DueSince
<1>3. CASE s.kind = "daily"
  <2>1. t \div Day = x \div Day
    BY <1>1, <1>3, SameUnit DEF WindowEnd
  <2>2. DailyAt(s, t) = DailyAt(s, x) /\ (SameDate(last, t) <=> SameDate(last, x))
    BY <2>1 DEF DailyAt, SameDate
  <2>3. DailyAt(s, x) = x
    BY <1>1, <1>3 DEF DueSince
  <2>4. QED
    BY <1>1, <1>3, <2>2, <2>3 DEF Due, DueSince
<1>4. CASE s.kind = "hourly"
  <2>1. t \div Hour = x \div Hour
    BY <1>1, <1>4, SameUnit DEF WindowEnd
  <2>2. HourlyAt(s, t) = HourlyAt(s, x)
    BY <2>1 DEF HourlyAt
  <2>3. HourlyAt(s, x) = x
    BY <1>1, <1>4 DEF DueSince
  <2>4. QED
    BY <1>1, <1>4, <2>2, <2>3 DEF Due, DueSince
<1>5. QED
  BY <1>1, <1>2, <1>3, <1>4

(* A job that is due has been done long enough ago. *)
LEMMA DueSpaced ==
  ASSUME NEW s \in Schedules, NEW last \in Times \union {Never}, NEW t \in Nat, Due(s, last, t)
  PROVE  Spaced(s, last, t)
<1>1. s.kind \in {"interval", "daily", "hourly"}
  BY DEF Schedules
<1>2. CASE s.kind = "hourly"
  <2>1. last = Never \/ last < HourlyAt(s, t)
    BY <1>2 DEF Due
  <2>2. t \div Hour = last \div Hour => HourlyAt(s, last) = HourlyAt(s, t)
    BY DEF HourlyAt
  <2>3. QED
    BY <1>2, <2>1, <2>2 DEF Spaced
<1>3. CASE s.kind # "hourly"
  BY <1>1, <1>3 DEF Due, Spaced
<1>4. QED
  BY <1>2, <1>3
-----------------------------------------------------------------------------
(* The scheduler *)

(* Nothing has been done, and nobody knows of anything, after it was; a    *)
(* firing is not further away than the period; no job overruns its time.   *)
Past ==
  /\ nextFire <= now + Period
  /\ lastCrash <= now
  /\ \A j \in Jobs : /\ lastFinish[j] <= now
                     /\ \A p \in Runners : mem[p][j] <= lastFinish[j]
                     /\ stored # Torn => stored[j] <= lastFinish[j]
  /\ \A p \in Runners : pc[p] = "working" => began[p] <= now /\ now - began[p] <= MaxRun

(* Without overlaps there is one run at a time, and what it has in memory, *)
(* or else the state file, is when the jobs that are not lost were done.   *)
Alone ==
  ~overlap =>
    /\ \A p, q \in Runners : pc[p] # "idle" /\ pc[q] # "idle" => p = q
    /\ (\A p \in Runners : pc[p] = "idle") =>
         \A j \in Jobs \ lost : stored # Torn /\ stored[j] = lastFinish[j]
    /\ \A p \in Runners : pc[p] # "idle" =>
         \A j \in Jobs \ lost : mem[p][j] = lastFinish[j]
    /\ \A p \in Runners : pc[p] = "working" /\ Job(p) \notin lost =>
         Due(When[Job(p)], lastFinish[Job(p)], began[p])

(* How far behind launchd's run can be with the i-th job if that is due    *)
(* since d (or since the last crash): it has yet to come to it, after the  *)
(* firing interval, the jobs after it of the run before and those before   *)
(* it of this one, or it has gone past it and is at the jobs after it.     *)
(* The run is at the label c and the k-th job, which began at b; the time  *)
(* is t and launchd's timer goes off next at f.                            *)
Work(n) == n * MaxRun
Behind(i, d, c, k, b, t, f) ==
  LET turn == Period + Work(Len(Order) - i)
  IN  /\ c = "idle" => f - d <= turn
      /\ c = "jobs" /\ k <= i => t - d <= turn + Work(k - 1)
      /\ c = "jobs" /\ k > i => t - d <= Work(k - 1 - i)
      /\ c = "working" /\ k <= i => b - d <= turn + Work(k - 1)
      /\ c = "working" /\ k > i => b - d <= Work(k - 1 - i)
      /\ c = "sending" /\ k < i => t - d <= turn + Work(k)
      /\ c = "sending" /\ k >= i => t - d <= Work(k - i)
      /\ c = "write" => t - d <= Work(Len(Order) - i)

InTurn ==
  \A i \in DOMAIN Order : Due(When[Order[i]], lastFinish[Order[i]], now) =>
    Behind(i, Later(DueSince(When[Order[i]], lastFinish[Order[i]], now), lastCrash),
           pc[Launchd], position[Launchd], began[Launchd], now, nextFire)

(* A daily or hourly job of a day or hour that is over, not done since:    *)
(* the day or hour was over before the job had to be done.                 *)
Forgone ==
  \A j \in Jobs : \A x \in Dues(When[j], lastFinish[j], now) :
    When[j].kind # "interval" /\ WindowEnd(When[j], x) <= now =>
      WindowEnd(When[j], x) <= DueBy(x)

SchedInv == TypeOK /\ Past /\ Alone /\ InTurn /\ Forgone

(* What the actions do to the variables of the scheduler that are not      *)
(* functions of the runners or of the jobs.                                *)
LEMMA JobTypes ==
  ASSUME TypeOK, NEW p \in Runners, position[p] \in DOMAIN Order
  PROVE  Job(p) \in Jobs
  BY DEF Job, Jobs

LEMMA NoRunsType == NoRuns \in LastRuns
  BY ClockTypes DEF NoRuns, LastRuns

LEMMA ForgetRun ==
  ASSUME TypeOK, NEW p \in Runners, Forget(p)
  PROVE  /\ pc' \in [Runners -> {"idle", "jobs", "working", "sending", "write"}]
         /\ mem' \in [Runners -> LastRuns]
         /\ position' \in [Runners -> 1 .. (Len(Order) + 1)]
         /\ began' \in [Runners -> Times]
         /\ pc'[p] = "idle" /\ mem'[p] = NoRuns
         /\ \A q \in Runners : q # p => /\ pc'[q] = pc[q] /\ mem'[q] = mem[q]
                                        /\ position'[q] = position[q] /\ began'[q] = began[q]
<1>1. 1 \in 1 .. (Len(Order) + 1) /\ 0 \in Times
  BY ClockTypes DEF Times
<1>2. QED
  BY <1>1, NoRunsType DEF Forget, Goto, TypeOK

LEMMA StartRuns ==
  ASSUME TypeOK, NEW p \in Runners, Start(p)
  PROVE  /\ pc' \in [Runners -> {"idle", "jobs", "working", "sending", "write"}]
         /\ mem' \in [Runners -> LastRuns]
         /\ position' \in [Runners -> 1 .. (Len(Order) + 1)]
         /\ overlap' \in BOOLEAN
         /\ pc[p] = "idle" /\ pc'[p] = "jobs" /\ position'[p] = 1
         /\ mem'[p] = IF stored = Torn THEN NoRuns ELSE stored
         /\ \A q \in Runners : q # p => /\ pc'[q] = pc[q] /\ mem'[q] = mem[q]
                                        /\ position'[q] = position[q]
<1>1. 1 \in 1 .. (Len(Order) + 1)
  BY ClockTypes
<1>2. (IF stored = Torn THEN NoRuns ELSE stored) \in LastRuns
  BY NoRunsType DEF TypeOK
<1>3. QED
  BY <1>1, <1>2 DEF Start, Goto, TypeOK

LEMMA FinishRuns ==
  ASSUME TypeOK, NEW p \in Runners, FinishJob(p)
  PROVE  /\ pc' \in [Runners -> {"idle", "jobs", "working", "sending", "write"}]
         /\ mem' \in [Runners -> LastRuns] /\ lastFinish' \in LastRuns
         /\ position[p] \in DOMAIN Order /\ Job(p) \in Jobs
         /\ pc[p] = "working" /\ pc'[p] = "sending"
         /\ mem'[p][Job(p)] = now /\ lastFinish'[Job(p)] = now
         /\ \A j \in Jobs : j # Job(p) =>
              mem'[p][j] = mem[p][j] /\ lastFinish'[j] = lastFinish[j]
         /\ \A q \in Runners : q # p => pc'[q] = pc[q] /\ mem'[q] = mem[q]
<1>1. position[p] \in DOMAIN Order /\ pc[p] = "working"
  BY DEF FinishJob, TypeOK
<1>2. Job(p) \in Jobs
  BY <1>1, JobTypes
<1>3. mem[p] \in LastRuns /\ now \in Times
  BY DEF TypeOK
<1> DEFINE noted == [mem[p] EXCEPT ![Job(p)] = now]
<1>4. noted \in LastRuns /\ noted[Job(p)] = now /\ \A j \in Jobs : j # Job(p) => noted[j] = mem[p][j]
  BY <1>2, <1>3 DEF LastRuns
<1>5. mem' = [mem EXCEPT ![p] = noted]
  BY DEF FinishJob
<1> HIDE DEF noted
<1>6. /\ mem' \in [Runners -> LastRuns] /\ mem'[p] = noted
      /\ \A q \in Runners : q # p => mem'[q] = mem[q]
  BY <1>4, <1>5 DEF TypeOK
<1>7. /\ lastFinish' \in LastRuns /\ lastFinish'[Job(p)] = now
      /\ \A j \in Jobs : j # Job(p) => lastFinish'[j] = lastFinish[j]
  BY <1>2, <1>3 DEF FinishJob, TypeOK, LastRuns
<1>8. QED
  BY <1>1, <1>2, <1>4, <1>6, <1>7 DEF FinishJob, Goto, TypeOK

LEMMA SchedInitType == Init => TypeOK
<1> SUFFICES ASSUME Init PROVE TypeOK
  OBVIOUS
<1>1. 0 \in Times /\ 1 \in 1 .. (Len(Order) + 1) /\ 0 \in 0 .. (MaxTime + Period)
      /\ 0 \in 0 .. MaxCrashes
  BY ClockTypes DEF Times
<1>2. /\ now \in Times /\ nextFire \in 0 .. (MaxTime + Period) /\ now <= nextFire
      /\ crashes \in 0 .. MaxCrashes /\ lastCrash \in Times
  BY <1>1 DEF Init
<1>3. /\ stored \in LastRuns \union {Torn} /\ lastFinish \in LastRuns
      /\ mem \in [Runners -> LastRuns]
  BY NoRunsType DEF Init
<1>4. /\ pc \in [Runners -> {"idle", "jobs", "working", "sending", "write"}]
      /\ \A p \in Runners : pc[p] = "idle"
  BY DEF Init
<1>5. /\ position \in [Runners -> 1 .. (Len(Order) + 1)] /\ began \in [Runners -> Times]
  BY <1>1 DEF Init
<1>6. lost \subseteq Jobs /\ overlap \in BOOLEAN
  BY DEF Init
<1>7. \A p \in Runners : pc[p] \in {"working", "sending"} => position[p] \in DOMAIN Order
  BY <1>4
<1>8. QED
  BY <1>2, <1>3, <1>4, <1>5, <1>6, <1>7 DEF TypeOK

LEMMA SchedTypeStep == TypeOK /\ Past /\ [Next]_vars => TypeOK'
<1> SUFFICES ASSUME TypeOK, Past, [Next]_vars PROVE TypeOK'
  OBVIOUS
<1>0. /\ now \in Nat /\ nextFire \in Nat /\ nextFire <= now + Period /\ now <= nextFire
      /\ now <= MaxTime /\ Period \in Nat /\ MaxTime \in Nat /\ Len(Order) \in Nat
      /\ DOMAIN Order = 1 .. Len(Order)
  BY ClockTypes DEF TypeOK, Past, Times
<1>1. ASSUME NEW p \in Runners, Start(p),
             nextFire' = nextFire \/ (now = nextFire /\ nextFire' = nextFire + Period)
      PROVE  TypeOK'
  <2>1. now' = now /\ now' \in Times /\ nextFire' \in 0 .. (MaxTime + Period) /\ now' <= nextFire'
    BY <1>0, <1>1 DEF Start, TypeOK
  <2>2. QED
    BY <1>1, <2>1, StartRuns DEF Start, TypeOK
<1>2. ASSUME MissFire PROVE TypeOK'
  <2>1. now' = now /\ now' \in Times /\ nextFire' \in 0 .. (MaxTime + Period) /\ now' <= nextFire'
    BY <1>0, <1>2 DEF MissFire, TypeOK
  <2>2. QED
    BY <1>2, <2>1 DEF MissFire, TypeOK, runVars, historyVars
<1>3. ASSUME Advance PROVE TypeOK'
  <2>1. now' \in Times /\ nextFire' = nextFire /\ now' <= nextFire'
    BY <1>0, <1>3 DEF Advance, Times
  <2>2. QED
    BY <1>3, <2>1 DEF Advance, TypeOK, runVars, historyVars
<1>4. ASSUME NEW p \in Runners, BeginJob(p) PROVE TypeOK'
  BY <1>4 DEF BeginJob, Goto, TypeOK, clockVars, historyVars
<1>5. ASSUME NEW p \in Runners, SkipJob(p) PROVE TypeOK'
  <2>1. position[p] + 1 \in 1 .. (Len(Order) + 1)
    BY <1>0, <1>5 DEF SkipJob
  <2>2. position' \in [Runners -> 1 .. (Len(Order) + 1)]
        /\ \A q \in Runners : q # p => position'[q] = position[q]
    BY <1>5, <2>1 DEF SkipJob, TypeOK
  <2>3. QED
    BY <1>5, <2>2 DEF SkipJob, TypeOK, clockVars, historyVars
<1>6. ASSUME NEW p \in Runners, FinishJob(p) PROVE TypeOK'
  <2>1. \A q \in Runners : pc'[q] \in {"working", "sending"} => position'[q] \in DOMAIN Order
    BY <1>6, FinishRuns DEF FinishJob, TypeOK
  <2>2. lost' \subseteq Jobs
    BY <1>6 DEF FinishJob, TypeOK
  <2>3. QED
    BY <1>6, <2>1, <2>2, FinishRuns DEF FinishJob, TypeOK, clockVars
<1>7. ASSUME NEW p \in Runners, EndJob(p) PROVE TypeOK'
  <2>1. position[p] + 1 \in 1 .. (Len(Order) + 1)
    BY <1>0, <1>7 DEF EndJob, TypeOK
  <2>2. /\ position' \in [Runners -> 1 .. (Len(Order) + 1)]
        /\ \A q \in Runners : q # p => position'[q] = position[q] /\ pc'[q] = pc[q]
        /\ pc' \in [Runners -> {"idle", "jobs", "working", "sending", "write"}]
        /\ pc'[p] = "jobs"
    BY <1>7, <2>1 DEF EndJob, Goto, TypeOK
  <2>3. QED
    BY <1>7, <2>2 DEF EndJob, TypeOK, clockVars, historyVars
<1>8. ASSUME NEW p \in Runners, TruncateState(p) PROVE TypeOK'
  BY <1>8 DEF TruncateState, Goto, TypeOK, clockVars, historyVars
<1>9. ASSUME NEW p \in Runners, WriteState(p) PROVE TypeOK'
  <2>1. stored' \in LastRuns
    BY <1>9 DEF WriteState, TypeOK
  <2>2. Forget(p)
    BY <1>9 DEF WriteState
  <2>3. \A q \in Runners : pc'[q] \in {"working", "sending"} => position'[q] \in DOMAIN Order
    BY <2>2, ForgetRun DEF TypeOK
  <2>4. QED
    BY <1>9, <2>1, <2>2, <2>3, ForgetRun DEF WriteState, TypeOK, clockVars, historyVars
<1>10. ASSUME NEW p \in Runners, Crash(p) PROVE TypeOK'
  <2>1. Forget(p)
    BY <1>10 DEF Crash
  <2>2. \A q \in Runners : pc'[q] \in {"working", "sending"} => position'[q] \in DOMAIN Order
    BY <2>1, ForgetRun DEF TypeOK
  <2>3. crashes' \in 0 .. MaxCrashes
    BY <1>10, ClockTypes DEF Crash, TypeOK
  <2>4. lost' \subseteq Jobs /\ lastCrash' \in Times
    BY <1>10 DEF Crash, TypeOK
  <2>5. QED
    BY <1>10, <2>1, <2>2, <2>3, <2>4, ForgetRun DEF Crash, TypeOK, clockVars
<1>11. CASE UNCHANGED vars
  BY <1>11 DEF vars, TypeOK, clockVars, runVars, historyVars
<1>12. ASSUME NEW p \in Runners, StartByHand(p) PROVE TypeOK'
  BY <1>12, <1>1 DEF StartByHand
<1>13. ASSUME Fire PROVE TypeOK'
  BY <1>13, <1>1, ClockTypes DEF Fire
<1>14. QED
  BY <1>2, <1>3, <1>4, <1>5, <1>6, <1>7, <1>8, <1>9, <1>10, <1>11, <1>12, <1>13
  DEF Next, RunStep

(* --- Past ---                                                            *)
LEMMA PastStep == TypeOK /\ Past /\ [Next]_vars => Past'
<1> SUFFICES ASSUME TypeOK, Past, [Next]_vars PROVE Past'
  OBVIOUS
<1>b. /\ now \in Times /\ lastCrash \in Times /\ nextFire \in 0 .. (MaxTime + Period)
      /\ \A p \in Runners : began[p] \in Times /\ mem[p] \in LastRuns
      /\ lastFinish \in LastRuns /\ NoRuns \in LastRuns
      /\ stored # Torn => stored \in LastRuns
  BY NoRunsType DEF TypeOK
<1>c. Never = -1 /\ Times \subseteq Nat /\ \A f \in LastRuns, j \in Jobs : f[j] \in Int /\ f[j] >= -1
  BY ClockTypes DEF LastRuns, Never, Times
<1>0. /\ now \in Nat /\ nextFire \in Nat /\ nextFire <= now + Period /\ now <= nextFire
      /\ Period \in Nat \ {0} /\ MaxRun \in Nat /\ lastCrash \in Nat /\ lastCrash <= now
      /\ \A j \in Jobs : lastFinish[j] \in Int /\ lastFinish[j] >= -1 /\ NoRuns[j] = -1
      /\ \A p \in Runners : began[p] \in Nat /\ \A j \in Jobs : mem[p][j] \in Int
      /\ stored # Torn => \A j \in Jobs : stored[j] \in Int
  <2>1. \A j \in Jobs : NoRuns[j] = -1
    BY <1>c DEF NoRuns
  <2>2. now <= nextFire /\ nextFire <= now + Period /\ lastCrash <= now
    BY DEF TypeOK, Past
  <2>3. now \in Nat /\ lastCrash \in Nat /\ nextFire \in Nat
    BY <1>b, <1>c, ClockTypes
  <2>4. \A j \in Jobs : lastFinish[j] \in Int /\ lastFinish[j] >= -1
    BY <1>b, <1>c
  <2>5. \A p \in Runners : began[p] \in Nat /\ \A j \in Jobs : mem[p][j] \in Int
    BY <1>b, <1>c
  <2>6. stored # Torn => \A j \in Jobs : stored[j] \in Int
    BY <1>b, <1>c
  <2>7. QED
    BY <2>1, <2>2, <2>3, <2>4, <2>5, <2>6, ClockTypes
<1>a. ASSUME NEW p \in Runners, Forget(p), now' = now, nextFire' = nextFire,
             lastFinish' = lastFinish, lastCrash' \in {lastCrash, now},
             stored' \in {stored, mem[p]}
      PROVE  Past'
  <2>1. /\ pc'[p] = "idle" /\ mem'[p] = NoRuns
        /\ \A q \in Runners : q # p => /\ pc'[q] = pc[q] /\ mem'[q] = mem[q]
                                       /\ began'[q] = began[q]
    BY <1>a, ForgetRun
  <2>2. \A j \in Jobs : stored' # Torn => stored'[j] <= lastFinish[j]
    BY <1>a DEF Past
  <2>3. \A j \in Jobs, q \in Runners : mem'[q][j] <= lastFinish[j]
    BY <2>1, <1>0 DEF Past
  <2>4. \A q \in Runners : pc'[q] = "working" => began'[q] <= now /\ now - began'[q] <= MaxRun
    BY <2>1 DEF Past
  <2>5. nextFire' <= now' + Period /\ lastCrash' <= now'
    BY <1>a, <1>0
  <2>6. QED
    BY <1>a, <1>0, <2>2, <2>3, <2>4, <2>5 DEF Past
<1>1. ASSUME NEW p \in Runners, Start(p),
             nextFire' = nextFire \/ (now = nextFire /\ nextFire' = nextFire + Period)
      PROVE  Past'
  <2>1. /\ pc'[p] = "jobs" /\ mem'[p] = IF stored = Torn THEN NoRuns ELSE stored
        /\ \A q \in Runners : q # p => pc'[q] = pc[q] /\ mem'[q] = mem[q]
    BY <1>1, StartRuns
  <2>2. now' = now /\ lastFinish' = lastFinish /\ stored' = stored /\ lastCrash' = lastCrash
        /\ began' = began
    BY <1>1 DEF Start
  <2>3. nextFire' <= now' + Period
    BY <1>0, <1>1, <2>2
  <2>4. \A j \in Jobs, q \in Runners : mem'[q][j] <= lastFinish[j]
    BY <2>1, <1>0 DEF Past
  <2>5. QED
    BY <2>1, <2>2, <2>3, <2>4 DEF Past
<1>2. ASSUME MissFire PROVE Past'
  <2>1. nextFire' <= now' + Period
    BY <1>2, <1>0 DEF MissFire
  <2>2. QED
    BY <1>2, <2>1 DEF MissFire, Past, runVars, historyVars
<1>3. ASSUME Advance PROVE Past'
  <2>1. /\ now' = now + 1 /\ nextFire' = nextFire /\ stored' = stored /\ pc' = pc /\ mem' = mem
        /\ began' = began /\ lastFinish' = lastFinish /\ lastCrash' = lastCrash
    BY <1>3 DEF Advance, runVars, historyVars
  <2>2. \A q \in Runners : pc[q] = "working" => now - began[q] < MaxRun
    BY <1>3 DEF Advance
  <2>3. nextFire' <= now' + Period /\ lastCrash' <= now'
    BY <2>1, <1>0
  <2>4. \A q \in Runners : pc[q] = "working" => began[q] <= now + 1 /\ now + 1 - began[q] <= MaxRun
    BY <2>2, <1>0 DEF Past
  <2>5. \A j \in Jobs : lastFinish[j] <= now + 1
    BY <1>0 DEF Past
  <2>6. \A q \in Runners : pc'[q] = "working" => began'[q] <= now' /\ now' - began'[q] <= MaxRun
    BY <2>1, <2>4, <1>0
  <2>7. \A j \in Jobs :
          /\ lastFinish'[j] <= now'
          /\ \A q \in Runners : mem'[q][j] <= lastFinish'[j]
          /\ stored' # Torn => stored'[j] <= lastFinish'[j]
    BY <2>1, <2>5 DEF Past
  <2>8. QED
    BY <2>3, <2>6, <2>7 DEF Past
<1>4. ASSUME NEW p \in Runners, BeginJob(p) PROVE Past'
  <2>1. /\ UNCHANGED <<now, nextFire, stored, mem, lastFinish, lastCrash>>
        /\ pc'[p] = "working" /\ began'[p] = now
        /\ \A q \in Runners : q # p => pc'[q] = pc[q] /\ began'[q] = began[q]
    BY <1>4 DEF BeginJob, Goto, TypeOK, clockVars, historyVars
  <2>2. \A q \in Runners : pc'[q] = "working" => began'[q] <= now /\ now - began'[q] <= MaxRun
    BY <2>1, <1>0 DEF Past
  <2>3. QED
    BY <2>1, <2>2 DEF Past
<1>5. ASSUME NEW p \in Runners, SkipJob(p) PROVE Past'
  BY <1>5 DEF SkipJob, Past, clockVars, historyVars
<1>6. ASSUME NEW p \in Runners, FinishJob(p) PROVE Past'
  <2>1. /\ Job(p) \in Jobs /\ lastFinish'[Job(p)] = now /\ mem'[p][Job(p)] = now
        /\ \A j \in Jobs : j # Job(p) => mem'[p][j] = mem[p][j] /\ lastFinish'[j] = lastFinish[j]
        /\ pc'[p] = "sending"
        /\ \A q \in Runners : q # p => pc'[q] = pc[q] /\ mem'[q] = mem[q]
    BY <1>6, FinishRuns
  <2>2. UNCHANGED <<now, nextFire, stored, began, lastCrash>>
    BY <1>6 DEF FinishJob, clockVars
  <2>3. \A j \in Jobs : lastFinish[j] <= lastFinish'[j] /\ lastFinish'[j] <= now
                        /\ lastFinish'[j] \in Int
    BY <2>1, <1>0 DEF Past
  <2>4. \A j \in Jobs, q \in Runners : mem'[q][j] <= lastFinish'[j]
    <3> SUFFICES ASSUME NEW j \in Jobs, NEW q \in Runners PROVE mem'[q][j] <= lastFinish'[j]
      OBVIOUS
    <3>1. CASE q = p /\ j = Job(p)
      BY <3>1, <2>1, <1>0
    <3>2. CASE ~(q = p /\ j = Job(p))
      <4>1. mem'[q][j] = mem[q][j] /\ mem[q][j] <= lastFinish[j]
        BY <3>2, <2>1 DEF Past
      <4>2. QED
        BY <4>1, <2>3, <1>0
    <3>3. QED
      BY <3>1, <3>2
  <2>5. \A j \in Jobs : stored # Torn => stored[j] <= lastFinish'[j]
    BY <2>3, <1>0 DEF Past
  <2>6. \A q \in Runners : pc'[q] = "working" => pc[q] = "working"
    BY <2>1
  <2>7. QED
    BY <2>2, <2>3, <2>4, <2>5, <2>6 DEF Past
<1>7. ASSUME NEW p \in Runners, EndJob(p) PROVE Past'
  <2>1. \A q \in Runners : pc'[q] = "working" => pc[q] = "working"
    BY <1>7 DEF EndJob, Goto, TypeOK
  <2>2. QED
    BY <1>7, <2>1 DEF EndJob, Past, clockVars, historyVars
<1>8. ASSUME NEW p \in Runners, TruncateState(p) PROVE Past'
  <2>1. \A q \in Runners : pc'[q] = "working" => pc[q] = "working"
    BY <1>8 DEF TruncateState, Goto, TypeOK
  <2>2. QED
    BY <1>8, <2>1 DEF TruncateState, Past, clockVars, historyVars
<1>9. ASSUME NEW p \in Runners, WriteState(p) PROVE Past'
  BY <1>9, <1>a DEF WriteState, clockVars, historyVars
<1>10. ASSUME NEW p \in Runners, Crash(p) PROVE Past'
  BY <1>10, <1>a DEF Crash, clockVars
<1>11. CASE UNCHANGED vars
  BY <1>11 DEF vars, Past, clockVars, runVars, historyVars
<1>12. ASSUME NEW p \in Runners, StartByHand(p) PROVE Past'
  BY <1>12, <1>1 DEF StartByHand
<1>13. ASSUME Fire PROVE Past'
  BY <1>13, <1>1, ClockTypes DEF Fire
<1>14. QED
  BY <1>2, <1>3, <1>4, <1>5, <1>6, <1>7, <1>8, <1>9, <1>10, <1>11, <1>12, <1>13
  DEF Next, RunStep

(* --- Alone ---                                                           *)
LEMMA AloneStep == TypeOK /\ Past /\ Alone /\ [Next]_vars => Alone'
<1> SUFFICES ASSUME TypeOK, Past, Alone, [Next]_vars, ~overlap' PROVE Alone'
  BY DEF Alone
<1>0. Torn \notin LastRuns /\ (stored # Torn => stored \in LastRuns)
      /\ \A p \in Runners : mem[p] \in LastRuns
  BY ScheduleAssumption DEF TypeOK
<1>a. ASSUME NEW p \in Runners, pc[p] # "idle", ~overlap
      PROVE  /\ \A q \in Runners : q # p => pc[q] = "idle"
             /\ \A j \in Jobs \ lost : mem[p][j] = lastFinish[j]
  BY <1>a DEF Alone
<1>1. ASSUME NEW p \in Runners, Start(p) PROVE Alone'
  <2>1. ~overlap /\ \A q \in Runners : pc[q] = "idle"
    BY <1>1 DEF Start, TypeOK
  <2>2. /\ UNCHANGED <<lost, lastFinish>>
        /\ \A j \in Jobs \ lost : stored # Torn /\ stored[j] = lastFinish[j]
    BY <1>1, <2>1 DEF Start, Alone
  <2>3. /\ pc'[p] = "jobs" /\ mem'[p] = IF stored = Torn THEN NoRuns ELSE stored
        /\ \A q \in Runners : q # p => pc'[q] = "idle"
    BY <1>1, <2>1, StartRuns
  <2>4. \A j \in Jobs \ lost : mem'[p][j] = lastFinish[j]
    BY <2>2, <2>3
  <2>5. QED
    BY <2>2, <2>3, <2>4 DEF Alone
<1>2. ASSUME NEW p \in Runners, pc[p] # "idle", ~overlap, pc'[p] # "idle",
             UNCHANGED <<lastFinish, lost, mem>>,
             \A q \in Runners : q # p => pc'[q] = pc[q],
             pc'[p] = "working" /\ Job(p)' \notin lost =>
               Due(When[Job(p)'], lastFinish[Job(p)'], began'[p])
      PROVE  Alone'
  <2>1. \A q \in Runners : q # p => pc'[q] = "idle"
    BY <1>2, <1>a
  <2>2. \A j \in Jobs \ lost' : mem'[p][j] = lastFinish'[j]
    BY <1>2, <1>a
  <2>3. QED
    BY <1>2, <2>1, <2>2 DEF Alone
<1>3. ASSUME NEW p \in Runners, BeginJob(p) PROVE Alone'
  <2>1. /\ UNCHANGED <<lastFinish, lost, mem, overlap, position>>
        /\ pc[p] = "jobs" /\ pc'[p] = "working" /\ began'[p] = now
        /\ \A q \in Runners : q # p => pc'[q] = pc[q]
        /\ position[p] \in DOMAIN Order
        /\ Due(When[Job(p)], mem[p][Job(p)], now)
    BY <1>3 DEF BeginJob, Goto, TypeOK, historyVars
  <2>2. Job(p)' = Job(p) /\ Job(p) \in Jobs
    BY <2>1, JobTypes DEF Job
  <2>3. Job(p) \notin lost => mem[p][Job(p)] = lastFinish[Job(p)]
    BY <2>1, <2>2, <1>a
  <2>4. Job(p)' \notin lost => Due(When[Job(p)'], lastFinish[Job(p)'], began'[p])
    BY <2>1, <2>2, <2>3
  <2>5. QED
    BY <1>2, <2>1, <2>4
<1>4. ASSUME NEW p \in Runners, SkipJob(p) PROVE Alone'
  BY <1>2, <1>4 DEF SkipJob, historyVars
<1>5. ASSUME NEW p \in Runners, FinishJob(p) PROVE Alone'
  <2>1. /\ Job(p) \in Jobs /\ pc[p] = "working" /\ pc'[p] = "sending"
        /\ mem'[p][Job(p)] = now /\ lastFinish'[Job(p)] = now
        /\ \A j \in Jobs : j # Job(p) => mem'[p][j] = mem[p][j] /\ lastFinish'[j] = lastFinish[j]
        /\ \A q \in Runners : q # p => pc'[q] = pc[q] /\ mem'[q] = mem[q]
    BY <1>5, FinishRuns
  <2>2. lost' = lost \ {Job(p)} /\ overlap' = overlap
    BY <1>5 DEF FinishJob
  <2>3. /\ \A q \in Runners : q # p => pc'[q] = "idle"
        /\ \A j \in Jobs \ lost : mem[p][j] = lastFinish[j]
    BY <2>1, <2>2, <1>a
  <2>4. \A j \in Jobs \ lost' : mem'[p][j] = lastFinish'[j]
    BY <2>1, <2>2, <2>3
  <2>5. QED
    BY <2>1, <2>3, <2>4 DEF Alone
<1>6. ASSUME NEW p \in Runners, EndJob(p) PROVE Alone'
  <2>1. /\ UNCHANGED <<lastFinish, lost, mem, overlap>>
        /\ pc[p] = "sending" /\ pc'[p] = "jobs"
        /\ \A q \in Runners : q # p => pc'[q] = pc[q]
    BY <1>6 DEF EndJob, Goto, TypeOK, historyVars
  <2>2. QED
    BY <1>2, <2>1
<1>7. ASSUME NEW p \in Runners, TruncateState(p) PROVE Alone'
  <2>1. /\ UNCHANGED <<lastFinish, lost, mem, overlap>>
        /\ pc[p] = "jobs" /\ pc'[p] = "write"
        /\ \A q \in Runners : q # p => pc'[q] = pc[q]
    BY <1>7 DEF TruncateState, Goto, TypeOK, historyVars
  <2>2. QED
    BY <1>2, <2>1
<1>8. ASSUME NEW p \in Runners, pc[p] # "idle", Forget(p), ~overlap, UNCHANGED lastFinish,
             \A j \in Jobs \ lost' : stored' # Torn /\ stored'[j] = lastFinish[j]
      PROVE  Alone'
  <2>1. \A q \in Runners : pc'[q] = "idle"
    BY <1>8, <1>a, ForgetRun
  <2>2. QED
    BY <2>1, <1>8 DEF Alone
<1>9. ASSUME NEW p \in Runners, WriteState(p) PROVE Alone'
  <2>1. /\ UNCHANGED <<lastFinish, lost, overlap>> /\ stored' = mem[p] /\ pc[p] = "write" /\ Forget(p)
    BY <1>9 DEF WriteState, historyVars
  <2>2. QED
    BY <2>1, <1>0, <1>a, <1>8
<1>10. ASSUME NEW p \in Runners, Crash(p) PROVE Alone'
  <2>1. /\ UNCHANGED <<lastFinish, stored, overlap>> /\ pc[p] # "idle" /\ Forget(p)
        /\ lost' = IF stored = Torn THEN Jobs
                   ELSE lost \union {j \in Jobs : mem[p][j] # stored[j]}
    BY <1>10 DEF Crash
  <2>2. \A j \in Jobs \ lost' : stored # Torn /\ j \notin lost /\ mem[p][j] = stored[j]
    BY <2>1
  <2>3. \A j \in Jobs \ lost' : stored' # Torn /\ stored'[j] = lastFinish[j]
    BY <2>1, <2>2, <1>a
  <2>4. QED
    BY <2>1, <2>3, <1>8
<1>11. CASE UNCHANGED <<stored, pc, mem, position, began, lastFinish, lost, overlap>>
  BY <1>11 DEF Alone, Job
<1>12. ASSUME NEW p \in Runners, StartByHand(p) PROVE Alone'
  BY <1>12, <1>1 DEF StartByHand
<1>13. ASSUME Fire PROVE Alone'
  BY <1>13, <1>1, ClockTypes DEF Fire
<1>14. ASSUME MissFire \/ Advance \/ UNCHANGED vars PROVE Alone'
  BY <1>14, <1>11 DEF MissFire, Advance, vars, clockVars, runVars, historyVars
<1>15. QED
  BY <1>3, <1>4, <1>5, <1>6, <1>7, <1>9, <1>10, <1>12, <1>13, <1>14 DEF Next, RunStep

(* --- InTurn ---                                                          *)
LEMMA WorkGrows ==
  /\ Work(0) = 0
  /\ \A n \in Nat : Work(n) \in Nat /\ Work(n + 1) = Work(n) + MaxRun
  /\ \A n, m \in Nat : n <= m => Work(n) <= Work(m)
<1>1. MaxRun \in Nat
  BY ClockTypes
<1>2. \A n \in Nat : Work(n) \in Nat /\ Work(n + 1) = Work(n) + MaxRun
  BY <1>1 DEF Work
<1>3. \A n, m \in Nat : n <= m => Work(n) <= Work(m)
  <2> SUFFICES ASSUME NEW n \in Nat, NEW m \in Nat, n <= m PROVE n * MaxRun <= m * MaxRun
    BY DEF Work
  <2>1. QED
    BY <1>1
<1>4. QED
  BY <1>1, <1>2, <1>3 DEF Work

(* What is due since now, or is due only after the run has passed it, is   *)
(* not further behind than it may be, whatever step the run takes.         *)
LEMMA TurnPasses ==
  ASSUME NEW i \in DOMAIN Order, NEW d \in Int, NEW t \in Nat, NEW f \in Nat, NEW b \in Nat,
         NEW k \in 1 .. (Len(Order) + 1), f <= t + Period
  PROVE  /\ \A c : d >= t /\ (c = "working" => b <= t) => Behind(i, d, c, k, b, t, f)
         /\ t = f /\ Behind(i, d, "idle", k, b, t, f) =>
              Behind(i, d, "jobs", 1, b, t, f + Period)
         /\ Behind(i, d, "jobs", k, b, t, f) => Behind(i, d, "working", k, t, t, f)
         /\ i # k /\ Behind(i, d, "jobs", k, b, t, f) => Behind(i, d, "jobs", k + 1, b, t, f)
         /\ i # k /\ t - b <= MaxRun /\ Behind(i, d, "working", k, b, t, f) =>
              Behind(i, d, "sending", k, b, t, f)
         /\ Behind(i, d, "sending", k, b, t, f) => Behind(i, d, "jobs", k + 1, b, t, f)
         /\ k \notin DOMAIN Order /\ Behind(i, d, "jobs", k, b, t, f) =>
              Behind(i, d, "write", k, b, t, f)
         /\ Behind(i, d, "write", k, b, t, f) => Behind(i, d, "idle", 1, 0, t, f)
<1>1. /\ Len(Order) \in Nat /\ DOMAIN Order = 1 .. Len(Order) /\ i \in 1 .. Len(Order)
      /\ Period \in Nat /\ MaxRun \in Nat
  BY ClockTypes
<1> DEFINE w == Work(Len(Order) - i)
           before == Work(k - 1)
           done == Work(k)
           after == Work(k - 1 - i)
           past == Work(k - i)
<1>2. /\ w \in Nat /\ before \in Nat /\ done \in Nat
      /\ before <= done /\ done = before + MaxRun
      /\ k > i => /\ after \in Nat /\ past \in Nat /\ after <= past
                  /\ past = after + MaxRun
      /\ k >= i => past \in Nat
      /\ Work(0) = 0 /\ Work(k + 1 - 1) = done /\ Work(1 - 1) = 0
      /\ Work(k + 1 - 1 - i) = past
      /\ k \notin DOMAIN Order => after = w /\ k > i
  <2>1. k - 1 \in Nat /\ k \in Nat /\ k - 1 + 1 = k /\ k + 1 - 1 = k /\ k + 1 - 1 - i = k - i
        /\ Len(Order) - i \in Nat
    BY <1>1
  <2>2. k > i => k - 1 - i \in Nat /\ k - i \in Nat /\ k - 1 - i + 1 = k - i
    BY <1>1
  <2>3. k >= i => k - i \in Nat
    BY <1>1
  <2>4. k \notin DOMAIN Order => k - 1 - i = Len(Order) - i /\ k > i
    BY <1>1
  <2>5. w \in Nat /\ before \in Nat /\ done \in Nat
    BY <2>1, WorkGrows
  <2>6. done = before + MaxRun
    BY <2>1, WorkGrows
  <2>7. k > i => after \in Nat /\ past \in Nat /\ past = after + MaxRun
    BY <2>2, WorkGrows
  <2>8. k >= i => past \in Nat
    BY <2>3, WorkGrows
  <2>9. k \notin DOMAIN Order => after = w /\ k > i
    BY <2>4
  <2> HIDE DEF w, before, done, after, past
  <2>10. before <= done /\ (k > i => after <= past)
    BY <1>1, <2>5, <2>6, <2>7
  <2>11. Work(k + 1 - 1) = done /\ Work(k + 1 - 1 - i) = past /\ Work(1 - 1) = 0
    BY <2>1, WorkGrows DEF done, past
  <2>12. QED
    BY <2>5, <2>6, <2>7, <2>8, <2>9, <2>10, <2>11, WorkGrows
<1>3. \A x, c, n, m, u : Behind(i, x, c, k, n, m, u) <=>
        /\ c = "idle" => u - x <= Period + w
        /\ c = "jobs" /\ k <= i => m - x <= Period + w + before
        /\ c = "jobs" /\ k > i => m - x <= after
        /\ c = "working" /\ k <= i => n - x <= Period + w + before
        /\ c = "working" /\ k > i => n - x <= after
        /\ c = "sending" /\ k < i => m - x <= Period + w + done
        /\ c = "sending" /\ k >= i => m - x <= past
        /\ c = "write" => m - x <= w
  BY DEF Behind
<1>4. /\ \A n, m, u : Behind(i, d, "jobs", k + 1, n, m, u) <=>
           /\ k + 1 <= i => m - d <= Period + w + done
           /\ k + 1 > i => m - d <= past
      /\ \A n, m, u : Behind(i, d, "idle", 1, n, m, u) <=> u - d <= Period + w
  BY <1>2 DEF Behind
<1>a. \A n, m, u : Behind(i, d, "jobs", 1, n, m, u) <=> m - d <= Period + w + 0
  <2>1. 1 <= i /\ Work(1 - 1) = 0 /\ ~(1 > i)
    BY <1>1, <1>2
  <2>2. QED
    BY <2>1 DEF Behind
<1> HIDE DEF w, before, done, after, past
<1>b. /\ i \in Nat /\ k \in Nat /\ 1 <= i
      /\ Period \in Nat /\ MaxRun \in Nat
      /\ w \in Nat /\ before \in Nat /\ done \in Nat /\ done = before + MaxRun
  BY <1>1, <1>2
<1>d. k > i => after \in Nat /\ past \in Nat /\ past = after + MaxRun
  BY <1>2
<1>e. k >= i => past \in Nat
  BY <1>2
<1>5. ASSUME NEW c, d >= t, c = "working" => b <= t PROVE Behind(i, d, c, k, b, t, f)
  <2>1. /\ f - d <= Period + w /\ t - d <= w
        /\ t - d <= Period + w + before /\ t - d <= Period + w + done
        /\ c = "working" => b - d <= Period + w + before
    BY <1>b, <1>5
  <2>2. k > i => t - d <= after /\ (c = "working" => b - d <= after)
    BY <1>b, <1>d, <1>5
  <2>3. k >= i => t - d <= past
    BY <1>b, <1>e, <1>5
  <2>4. QED
    BY <1>3, <2>1, <2>2, <2>3
<1>6. ASSUME t = f, Behind(i, d, "idle", k, b, t, f)
      PROVE  Behind(i, d, "jobs", 1, b, t, f + Period)
  <2>1. f - d <= Period + w
    BY <1>3, <1>6
  <2>2. t - d <= Period + w + 0
    BY <1>b, <1>6, <2>1
  <2>3. QED
    BY <1>a, <2>2
<1>7. ASSUME Behind(i, d, "jobs", k, b, t, f) PROVE Behind(i, d, "working", k, t, t, f)
  BY <1>3, <1>7
<1>8. ASSUME i # k, Behind(i, d, "jobs", k, b, t, f) PROVE Behind(i, d, "jobs", k + 1, b, t, f)
  <2>1. (k <= i => t - d <= Period + w + before) /\ (k > i => t - d <= after)
    BY <1>3, <1>8
  <2>2. k + 1 <= i => t - d <= Period + w + done
    BY <1>b, <2>1
  <2>3. k + 1 > i => t - d <= past
    <3>1. k + 1 > i => k > i
      BY <1>b, <1>8
    <3>2. k > i => t - d <= past
      BY <1>b, <1>d, <2>1
    <3>3. QED
      BY <3>1, <3>2
  <2>4. QED
    BY <1>4, <2>2, <2>3
<1>9. ASSUME i # k, t - b <= MaxRun, Behind(i, d, "working", k, b, t, f)
      PROVE  Behind(i, d, "sending", k, b, t, f)
  <2>1. (k <= i => b - d <= Period + w + before) /\ (k > i => b - d <= after)
    BY <1>3, <1>9
  <2>2. k < i => t - d <= Period + w + done
    BY <1>b, <2>1, <1>9
  <2>3. k >= i => t - d <= past
    <3>1. k >= i => k > i
      BY <1>b, <1>9
    <3>2. k > i => t - d <= past
      BY <1>b, <1>d, <2>1, <1>9
    <3>3. QED
      BY <3>1, <3>2
  <2>4. QED
    BY <1>3, <2>2, <2>3
<1>10. ASSUME Behind(i, d, "sending", k, b, t, f) PROVE Behind(i, d, "jobs", k + 1, b, t, f)
  <2>1. (k < i => t - d <= Period + w + done) /\ (k >= i => t - d <= past)
    BY <1>3, <1>10
  <2>2. (k + 1 <= i <=> k < i) /\ (k + 1 > i <=> k >= i)
    BY <1>b
  <2>3. QED
    BY <1>4, <2>1, <2>2
<1>11. ASSUME k \notin DOMAIN Order, Behind(i, d, "jobs", k, b, t, f)
       PROVE  Behind(i, d, "write", k, b, t, f)
  <2>1. k > i /\ after = w
    BY <1>2, <1>11
  <2>2. t - d <= w
    BY <1>3, <1>11, <2>1
  <2>3. QED
    BY <1>3, <2>2
<1>12. ASSUME Behind(i, d, "write", k, b, t, f) PROVE Behind(i, d, "idle", 1, 0, t, f)
  <2>1. t - d <= w
    BY <1>3, <1>12
  <2>2. f - d <= Period + w
    BY <1>b, <2>1
  <2>3. QED
    BY <1>4, <2>2
<1>13. QED
  BY <1>5, <1>6, <1>7, <1>8, <1>9, <1>10, <1>11, <1>12

LEMMA TurnTicks ==
  ASSUME NEW i \in DOMAIN Order, NEW d \in Int, NEW t \in Nat, NEW f \in Nat, NEW b \in Nat,
         NEW k \in 1 .. (Len(Order) + 1), NEW e \in Int, NEW c,
         c = "idle" \/ c = "working", d <= e, Behind(i, d, c, k, b, t, f)
  PROVE  Behind(i, e, c, k, b, t + 1, f)
<1> DEFINE turn == Period + Work(Len(Order) - i)
           before == Work(k - 1)
           after == Work(k - 1 - i)
<1>1. /\ c = "idle" => f - d <= turn
      /\ c = "working" /\ k <= i => b - d <= turn + before
      /\ c = "working" /\ k > i => b - d <= after
  BY DEF Behind
<1>2. turn \in Nat /\ before \in Nat /\ (k > i => after \in Nat)
  <2>1. Len(Order) - i \in Nat /\ k - 1 \in Nat /\ (k > i => k - 1 - i \in Nat) /\ Period \in Nat
    BY ClockTypes
  <2>2. Work(Len(Order) - i) \in Nat
    BY <2>1, WorkGrows
  <2>3. before \in Nat
    BY <2>1, WorkGrows
  <2>4. k > i => after \in Nat
    BY <2>1, WorkGrows
  <2>5. QED
    BY <2>1, <2>2, <2>3, <2>4
<1>3. k \in Int /\ i \in Int
  BY ClockTypes
<1> HIDE DEF turn, before, after
<1>4. c = "idle" => f - e <= turn
  BY <1>1, <1>2
<1>5. c = "working" /\ k <= i => b - e <= turn + before
  BY <1>1, <1>2, <1>3
<1>6. c = "working" /\ k > i => b - e <= after
  BY <1>1, <1>2, <1>3
<1>7. QED
  BY <1>4, <1>5, <1>6 DEF Behind, turn, before, after

LEMMA InTurnStep == TypeOK /\ Past /\ InTurn /\ [Next]_vars => InTurn'
<1> SUFFICES ASSUME TypeOK, Past, InTurn, [Next]_vars,
                    NEW i \in DOMAIN Order, Due(When[Order[i]], lastFinish'[Order[i]], now')
             PROVE  Behind(i, Later(DueSince(When[Order[i]], lastFinish'[Order[i]], now'), lastCrash'),
                           pc'[Launchd], position'[Launchd], began'[Launchd], now', nextFire')
  BY DEF InTurn
<1> DEFINE j == Order[i]
           s == When[j]
           d == Later(DueSince(s, lastFinish[j], now), lastCrash)
           e == Later(DueSince(s, lastFinish'[j], now'), lastCrash')
           Now == Behind(i, d, pc[Launchd], position[Launchd], began[Launchd], now, nextFire)
           Then == Behind(i, e, pc'[Launchd], position'[Launchd], began'[Launchd], now', nextFire')
<1>0. TypeOK' /\ Past'
  BY SchedTypeStep, PastStep
<1>1. j \in Jobs /\ s \in Schedules /\ Launchd \in Runners
  BY ClockTypes DEF Jobs
<1>2. /\ lastFinish[j] \in Times \union {Never} /\ lastFinish'[j] \in Times \union {Never}
      /\ now \in Times /\ now' \in Times /\ lastCrash \in Times /\ lastCrash' \in Times
      /\ began[Launchd] \in Times /\ began'[Launchd] \in Times
      /\ position[Launchd] \in 1 .. (Len(Order) + 1) /\ position'[Launchd] \in 1 .. (Len(Order) + 1)
      /\ nextFire \in 0 .. (MaxTime + Period) /\ nextFire' \in 0 .. (MaxTime + Period)
  BY <1>0, <1>1 DEF TypeOK, LastRuns
<1>3. Times \subseteq Nat /\ nextFire \in Nat /\ nextFire' \in Nat /\ Period \in Nat
  BY <1>2, ClockTypes DEF Times
<1>s. \A l \in Times \union {Never}, t \in Nat : DueSince(s, l, t) \in Int
  BY <1>1, SinceTypes
<1>t. now \in Nat /\ now' \in Nat /\ now + 1 \in Nat /\ lastCrash \in Nat /\ lastCrash' \in Nat
  BY <1>2, <1>3
<1>u. /\ DueSince(s, lastFinish[j], now) \in Int /\ DueSince(s, lastFinish'[j], now') \in Int
      /\ DueSince(s, lastFinish[j], now + 1) \in Int
  BY <1>s, <1>2, <1>t
<1>4. d \in Int /\ e \in Int
  BY <1>t, <1>u DEF Later
<1>5. /\ nextFire <= now + Period /\ nextFire' <= now' + Period
      /\ pc'[Launchd] = "working" => began'[Launchd] <= now'
      /\ pc[Launchd] = "working" => now - began[Launchd] <= MaxRun
      /\ lastFinish[j] <= now
  BY <1>0, <1>1 DEF Past
<1>6. Due(s, lastFinish[j], now) => Now
  BY DEF InTurn
<1>fresh. ASSUME e >= now' PROVE Then
  BY <1>fresh, <1>2, <1>3, <1>4, <1>5, TurnPasses
<1>kept. ASSUME UNCHANGED <<now, lastCrash>>, lastFinish'[j] = lastFinish[j]
         PROVE  e = d /\ Now
  BY <1>kept, <1>6
<1> HIDE DEF d, e
<1>7. ASSUME UNCHANGED <<now, lastCrash>>, lastFinish'[j] = lastFinish[j],
             UNCHANGED <<pc[Launchd], position[Launchd], began[Launchd], nextFire>>
      PROVE  Then
  BY <1>7, <1>kept
<1>8. ASSUME Fire PROVE Then
  <2>1. /\ now = nextFire /\ nextFire' = nextFire + Period /\ Start(Launchd)
        /\ UNCHANGED <<now, lastCrash, lastFinish, began>>
    BY <1>8 DEF Fire, Start
  <2>2. pc[Launchd] = "idle" /\ pc'[Launchd] = "jobs" /\ position'[Launchd] = 1
    BY <2>1, <1>1, StartRuns
  <2>3. Behind(i, d, "idle", position[Launchd], began[Launchd], now, nextFire) /\ e = d
    BY <2>1, <2>2, <1>kept
  <2>4. Behind(i, d, "jobs", 1, began[Launchd], now, nextFire + Period)
    BY <2>1, <2>3, <1>2, <1>3, <1>4, <1>5, TurnPasses
  <2>5. QED
    BY <2>1, <2>2, <2>3, <2>4
<1>9. ASSUME MissFire PROVE Then
  <2>1. pc[Launchd] # "idle" /\ UNCHANGED <<now, lastCrash, lastFinish, pc, position, began>>
    BY <1>9 DEF MissFire, runVars, historyVars
  <2>2. QED
    BY <2>1, <1>kept DEF Behind
<1>10. ASSUME Advance PROVE Then
  <2>1. /\ now' = now + 1
        /\ UNCHANGED <<nextFire, pc, position, began, lastFinish, lastCrash>>
        /\ pc[Launchd] \in {"idle", "working"}
    BY <1>10, <1>1 DEF Advance, runVars, historyVars
  <2>2. \/ DueSince(s, lastFinish[j], now + 1) >= now + 1
        \/ Due(s, lastFinish[j], now) /\ DueSince(s, lastFinish[j], now + 1) >= DueSince(s, lastFinish[j], now)
    BY <2>1, <1>1, <1>2, <1>3, <1>5, DueAdvance
  <2>4. CASE DueSince(s, lastFinish[j], now + 1) >= now + 1
    <3>1. e >= now'
      BY <2>1, <2>4, <1>t, <1>u DEF e, Later
    <3>2. QED
      BY <3>1, <1>fresh
  <2>5. CASE /\ Due(s, lastFinish[j], now)
             /\ DueSince(s, lastFinish[j], now + 1) >= DueSince(s, lastFinish[j], now)
    <3>1. e >= d
      BY <2>1, <2>5, <1>t, <1>u DEF d, e, Later
    <3>2. Now
      BY <2>5, <1>6
    <3>3. Behind(i, e, pc[Launchd], position[Launchd], began[Launchd], now + 1, nextFire)
      <4>1. d <= e /\ began[Launchd] \in Nat
        BY <3>1, <1>2, <1>3, <1>4
      <4>2. Behind(i, d, pc[Launchd], position[Launchd], began[Launchd], now, nextFire)
        BY <3>2
      <4> DEFINE c == pc[Launchd]
                 k == position[Launchd]
                 b == began[Launchd]
      <4>3. (c = "idle" \/ c = "working") /\ k \in 1 .. (Len(Order) + 1) /\ b \in Nat
            /\ Behind(i, d, c, k, b, now, nextFire)
        BY <2>1, <4>1, <4>2, <1>2
      <4> HIDE DEF c, k, b
      <4>4. Behind(i, e, c, k, b, now + 1, nextFire)
        BY <4>1, <4>3, <1>3, <1>4, <1>t, TurnTicks
      <4>5. QED
        BY <4>4 DEF c, k, b
    <3>4. QED
      BY <2>1, <3>3
  <2>6. QED
    BY <2>2, <2>4, <2>5
<1>11. ASSUME NEW p \in Runners, BeginJob(p) PROVE Then
  <2>1. /\ UNCHANGED <<now, nextFire, lastCrash, lastFinish, position>>
        /\ pc[p] = "jobs" /\ pc'[p] = "working" /\ began'[p] = now
        /\ \A q \in Runners : q # p => pc'[q] = pc[q] /\ began'[q] = began[q]
    BY <1>11 DEF BeginJob, Goto, TypeOK, clockVars, historyVars
  <2>2. CASE p # Launchd
    BY <2>1, <2>2, <1>1, <1>7
  <2>3. CASE p = Launchd
    <3>1. Behind(i, d, "jobs", position[p], began[p], now, nextFire) /\ e = d
      BY <2>1, <2>3, <1>kept
    <3>2. Behind(i, d, "working", position[p], now, now, nextFire)
      BY <3>1, <2>3, <1>2, <1>3, <1>4, <1>5, TurnPasses
    <3>3. QED
      BY <2>1, <2>3, <3>1, <3>2
  <2>4. QED
    BY <2>2, <2>3
<1>12. ASSUME NEW p \in Runners, SkipJob(p) PROVE Then
  <2>1. /\ UNCHANGED <<now, nextFire, lastCrash, lastFinish, pc, began>>
        /\ pc[p] = "jobs" /\ position'[p] = position[p] + 1 /\ position[p] \in DOMAIN Order
        /\ ~Due(When[Job(p)], mem[p][Job(p)], now)
        /\ \A q \in Runners : q # p => position'[q] = position[q]
    BY <1>12 DEF SkipJob, TypeOK, clockVars, historyVars
  <2>2. CASE p # Launchd
    BY <2>1, <2>2, <1>1, <1>7
  <2>3. CASE p = Launchd
    <3>1. Behind(i, d, "jobs", position[p], began[p], now, nextFire) /\ e = d
      BY <2>1, <2>3, <1>kept
    <3>2. mem[p][j] \in Times \union {Never} /\ mem[p][j] <= lastFinish[j]
      BY <1>1 DEF TypeOK, Past, LastRuns
    <3>3. Due(s, mem[p][j], now)
      BY <2>1, <3>2, <1>1, <1>2, <1>3, <1>5, DueEarlier
    <3>4. i # position[p]
      BY <2>1, <3>3 DEF Job
    <3>5. Behind(i, d, "jobs", position[p] + 1, began[p], now, nextFire)
      BY <3>1, <3>4, <2>3, <1>2, <1>3, <1>4, <1>5, TurnPasses
    <3>6. QED
      BY <2>1, <2>3, <3>1, <3>5
  <2>4. QED
    BY <2>2, <2>3
<1>13. ASSUME NEW p \in Runners, FinishJob(p) PROVE Then
  <2>1. /\ Job(p) \in Jobs /\ lastFinish'[Job(p)] = now
        /\ \A x \in Jobs : x # Job(p) => lastFinish'[x] = lastFinish[x]
        /\ pc[p] = "working" /\ pc'[p] = "sending"
        /\ \A q \in Runners : q # p => pc'[q] = pc[q]
    BY <1>13, FinishRuns
  <2>2. UNCHANGED <<now, nextFire, position, began, lastCrash>>
    BY <1>13 DEF FinishJob, clockVars
  <2>3. CASE j = Job(p)
    <3>1. DueSince(s, now, now) >= now /\ DueSince(s, now, now) \in Int
      BY <2>1, <2>2, <2>3, <1>1, <1>2, <1>3, DueAfresh, SinceTypes
    <3>2. e >= now'
      BY <2>1, <2>2, <2>3, <3>1, <1>2, <1>3 DEF e, Later
    <3>3. QED
      BY <3>2, <1>fresh
  <2>4. CASE j # Job(p) /\ p # Launchd
    BY <2>1, <2>2, <2>4, <1>1, <1>7
  <2>5. CASE j # Job(p) /\ p = Launchd
    <3>1. Behind(i, d, "working", position[p], began[p], now, nextFire) /\ e = d
      BY <2>1, <2>2, <2>5, <1>1, <1>kept
    <3>2. i # position[p] /\ now - began[p] <= MaxRun
      BY <2>1, <2>5, <1>5 DEF Job
    <3>3. Behind(i, d, "sending", position[p], began[p], now, nextFire)
      BY <3>1, <3>2, <2>5, <1>2, <1>3, <1>4, <1>5, TurnPasses
    <3>4. QED
      BY <2>1, <2>2, <2>5, <3>1, <3>3
  <2>6. QED
    BY <2>3, <2>4, <2>5
<1>14. ASSUME NEW p \in Runners, EndJob(p) PROVE Then
  <2>1. /\ UNCHANGED <<now, nextFire, lastCrash, lastFinish, began>>
        /\ pc[p] = "sending" /\ pc'[p] = "jobs" /\ position'[p] = position[p] + 1
        /\ \A q \in Runners : q # p => pc'[q] = pc[q] /\ position'[q] = position[q]
    BY <1>14 DEF EndJob, Goto, TypeOK, clockVars, historyVars
  <2>2. CASE p # Launchd
    BY <2>1, <2>2, <1>1, <1>7
  <2>3. CASE p = Launchd
    <3>1. Behind(i, d, "sending", position[p], began[p], now, nextFire) /\ e = d
      BY <2>1, <2>3, <1>kept
    <3>2. Behind(i, d, "jobs", position[p] + 1, began[p], now, nextFire)
      BY <3>1, <2>3, <1>2, <1>3, <1>4, <1>5, TurnPasses
    <3>3. QED
      BY <2>1, <2>3, <3>1, <3>2
  <2>4. QED
    BY <2>2, <2>3
<1>15. ASSUME NEW p \in Runners, TruncateState(p) PROVE Then
  <2>1. /\ UNCHANGED <<now, nextFire, lastCrash, lastFinish, began, position>>
        /\ pc[p] = "jobs" /\ pc'[p] = "write" /\ position[p] \notin DOMAIN Order
        /\ \A q \in Runners : q # p => pc'[q] = pc[q]
    BY <1>15 DEF TruncateState, Goto, TypeOK, clockVars, historyVars
  <2>2. CASE p # Launchd
    BY <2>1, <2>2, <1>1, <1>7
  <2>3. CASE p = Launchd
    <3>1. Behind(i, d, "jobs", position[p], began[p], now, nextFire) /\ e = d
      BY <2>1, <2>3, <1>kept
    <3>2. Behind(i, d, "write", position[p], began[p], now, nextFire)
      BY <3>1, <2>1, <2>3, <1>2, <1>3, <1>4, <1>5, TurnPasses
    <3>3. QED
      BY <2>1, <2>3, <3>1, <3>2
  <2>4. QED
    BY <2>2, <2>3
<1>16. ASSUME NEW p \in Runners, WriteState(p) PROVE Then
  <2>1. UNCHANGED <<now, nextFire, lastCrash, lastFinish>> /\ pc[p] = "write" /\ Forget(p)
    BY <1>16 DEF WriteState, clockVars, historyVars
  <2>2. /\ pc'[p] = "idle" /\ position'[p] = 1 /\ began'[p] = 0
        /\ \A q \in Runners : q # p => /\ pc'[q] = pc[q] /\ position'[q] = position[q]
                                       /\ began'[q] = began[q]
    BY <2>1, ForgetRun DEF Forget, TypeOK
  <2>3. CASE p # Launchd
    BY <2>1, <2>2, <2>3, <1>1, <1>7
  <2>4. CASE p = Launchd
    <3>1. Behind(i, d, "write", position[p], began[p], now, nextFire) /\ e = d
      BY <2>1, <2>4, <1>kept
    <3>2. Behind(i, d, "idle", 1, 0, now, nextFire)
      BY <3>1, <2>4, <1>2, <1>3, <1>4, <1>5, TurnPasses
    <3>3. QED
      BY <2>1, <2>2, <2>4, <3>1, <3>2
  <2>5. QED
    BY <2>3, <2>4
<1>17. ASSUME NEW p \in Runners, Crash(p) PROVE Then
  <2>1. lastCrash' = now /\ now' = now
    BY <1>17 DEF Crash, clockVars
  <2>2. e >= now'
    BY <2>1, <1>t, <1>u DEF e, Later
  <2>3. QED
    BY <2>2, <1>fresh
<1>18. ASSUME NEW p \in Runners, StartByHand(p) PROVE Then
  <2>1. /\ p # Launchd /\ UNCHANGED <<now, nextFire, lastCrash, lastFinish, began>>
        /\ \A q \in Runners : q # p => pc'[q] = pc[q] /\ position'[q] = position[q]
    BY <1>18, StartRuns DEF StartByHand, Start
  <2>2. QED
    BY <2>1, <1>1, <1>7
<1>19. ASSUME UNCHANGED vars PROVE Then
  BY <1>19, <1>7 DEF vars, clockVars, runVars, historyVars
<1>20. Then
  BY <1>8, <1>9, <1>10, <1>11, <1>12, <1>13, <1>14, <1>15, <1>16, <1>17, <1>18, <1>19
  DEF Next, RunStep
<1>21. QED
  BY <1>20 DEF e

LEMMA WorkAdds ==
  ASSUME NEW m \in Nat, NEW n \in Nat
  PROVE  Work(m) + Work(n) = Work(m + n)
<1>1. MaxRun \in Nat
  BY ClockTypes
<1>2. (m + n) * MaxRun = m * MaxRun + n * MaxRun
  BY <1>1
<1>3. QED
  BY <1>2 DEF Work

LEMMA TurnComes ==
  ASSUME NEW i \in DOMAIN Order, NEW d \in Int, NEW t \in Nat, NEW f \in Nat, NEW b \in Nat,
         NEW k \in 1 .. (Len(Order) + 1), t <= f,
         NEW c \in {"idle", "jobs", "working", "sending", "write"},
         c = "working" => t - b <= MaxRun,
         c \in {"working", "sending"} => k \in DOMAIN Order,
         Behind(i, d, c, k, b, t, f)
  PROVE  t - d <= Period + RunLength
<1> DEFINE n == Len(Order)
           w == Work(n - i)
           before == Work(k - 1)
           done == Work(k)
           after == Work(k - 1 - i)
           past == Work(k - i)
           run == Work(n)
<1>1. /\ n \in Nat /\ i \in 1 .. n /\ DOMAIN Order = 1 .. n /\ Period \in Nat /\ MaxRun \in Nat
  BY ClockTypes
<1>2. n - i \in Nat /\ k - 1 \in Nat /\ k \in Nat /\ k - 1 + 1 = k
  BY <1>1
<1>3. w \in Nat /\ before \in Nat /\ done \in Nat /\ run \in Nat /\ done = before + MaxRun
  <2>1. w \in Nat
    BY <1>2, WorkGrows
  <2>2. before \in Nat /\ done \in Nat
    BY <1>2, WorkGrows
  <2>3. run \in Nat
    BY <1>1, WorkGrows
  <2>4. done = before + MaxRun
    BY <1>2, WorkGrows
  <2>5. QED
    BY <2>1, <2>2, <2>3, <2>4
<1>4. w <= run
  <2>1. n - i <= n
    BY <1>1
  <2>2. QED
    BY <2>1, <1>1, <1>2, WorkGrows
<1>5. k <= i => w + done <= run
  <2> SUFFICES ASSUME k <= i PROVE w + done <= run
    OBVIOUS
  <2>1. w + done = Work(n - i + k)
    BY <1>2, WorkAdds
  <2>2. n - i + k \in Nat /\ n - i + k <= n
    BY <1>1, <1>2
  <2>3. Work(n - i + k) <= run
    BY <2>2, <1>1, WorkGrows
  <2>4. QED
    BY <2>1, <2>3
<1>6. k > i => after \in Nat /\ past \in Nat /\ past = after + MaxRun /\ after <= run
  <2> SUFFICES ASSUME k > i
               PROVE  after \in Nat /\ past \in Nat /\ past = after + MaxRun /\ after <= run
    OBVIOUS
  <2>1. k - 1 - i \in Nat /\ k - i \in Nat /\ k - 1 - i + 1 = k - i /\ k - 1 - i <= n
    BY <1>1, <1>2
  <2>2. after \in Nat /\ past \in Nat
    BY <2>1, WorkGrows
  <2>3. past = after + MaxRun
    BY <2>1, WorkGrows
  <2>4. after <= run
    BY <2>1, <1>1, WorkGrows
  <2>5. QED
    BY <2>2, <2>3, <2>4
<1>7. k >= i /\ k \in DOMAIN Order => past \in Nat /\ past <= run
  <2> SUFFICES ASSUME k >= i, k \in DOMAIN Order PROVE past \in Nat /\ past <= run
    OBVIOUS
  <2>1. k - i \in Nat /\ k - i <= n
    BY <1>1, <1>2
  <2>2. QED
    BY <2>1, <1>1, WorkGrows
<1>8. /\ c = "idle" => f - d <= Period + w
      /\ c = "jobs" /\ k <= i => t - d <= Period + w + before
      /\ c = "jobs" /\ k > i => t - d <= after
      /\ c = "working" /\ k <= i => b - d <= Period + w + before
      /\ c = "working" /\ k > i => b - d <= after
      /\ c = "sending" /\ k < i => t - d <= Period + w + done
      /\ c = "sending" /\ k >= i => t - d <= past
      /\ c = "write" => t - d <= w
  BY DEF Behind
<1>9. RunLength = run
  BY DEF RunLength, Work
<1>10. i \in Int /\ k \in Int
  BY <1>1, <1>2
<1> HIDE DEF n, w, before, done, after, past, run
<1>11. CASE c = "idle"
  BY <1>1, <1>3, <1>4, <1>8, <1>9, <1>11
<1>12. CASE c = "jobs" /\ k <= i
  BY <1>1, <1>3, <1>5, <1>8, <1>9, <1>12
<1>13. CASE c = "jobs" /\ k > i
  BY <1>1, <1>3, <1>6, <1>8, <1>9, <1>13
<1>14. CASE c = "working" /\ k <= i
  <2>1. b - d <= Period + w + before /\ t - b <= MaxRun
    BY <1>8, <1>14
  <2>2. w + done <= run
    BY <1>5, <1>14
  <2>3. QED
    BY <2>1, <2>2, <1>1, <1>3, <1>9
<1>15. CASE c = "working" /\ k > i
  <2>1. b - d <= after /\ t - b <= MaxRun
    BY <1>8, <1>15
  <2>2. after \in Nat /\ past = after + MaxRun
    BY <1>6, <1>15
  <2>3. past \in Nat /\ past <= run
    BY <1>7, <1>15, <1>10
  <2>4. QED
    BY <2>1, <2>2, <2>3, <1>1, <1>3, <1>9
<1>16. CASE c = "sending" /\ k < i
  <2>1. k <= i /\ t - d <= Period + w + done
    BY <1>8, <1>10, <1>16
  <2>2. QED
    BY <2>1, <1>1, <1>3, <1>5, <1>9
<1>17. CASE c = "sending" /\ k >= i
  <2>1. past \in Nat /\ past <= run /\ t - d <= past
    BY <1>7, <1>8, <1>17
  <2>2. QED
    BY <2>1, <1>1, <1>3, <1>9
<1>18. CASE c = "write"
  BY <1>1, <1>3, <1>4, <1>8, <1>9, <1>18
<1>19. QED
  BY <1>10, <1>11, <1>12, <1>13, <1>14, <1>15, <1>16, <1>17, <1>18

(* --- Forgone ---                                                         *)
LEMMA DuePast ==
  ASSUME SchedInv, NEW j \in Jobs, NEW x \in Dues(When[j], lastFinish[j], now)
  PROVE  /\ x \in Nat /\ x <= now /\ lastFinish[j] <= x /\ WindowEnd(When[j], x) \in Int
         /\ x < WindowEnd(When[j], x) /\ now \in Nat /\ When[j] \in Schedules
         /\ lastFinish[j] \in Times \union {Never} /\ lastCrash \in Nat
         /\ Later(x, lastCrash) \in Nat /\ Period + RunLength \in Nat
         /\ DueBy(x) = Later(x, lastCrash) + (Period + RunLength)
<1>1. /\ now \in Nat /\ When[j] \in Schedules /\ lastFinish[j] \in Times \union {Never}
      /\ lastCrash \in Nat /\ Len(Order) \in Nat /\ MaxRun \in Nat /\ Period \in Nat
  BY ClockTypes DEF SchedInv, TypeOK, LastRuns, Times
<1>2. x \in Nat /\ x <= now /\ lastFinish[j] <= x
  BY <1>1 DEF Dues
<1>3. WindowEnd(When[j], x) \in Int /\ x < WindowEnd(When[j], x)
  BY <1>1, <1>2, WindowEnds
<1>4. RunLength \in Nat
  <2>1. RunLength = Work(Len(Order))
    BY DEF RunLength, Work
  <2>2. QED
    BY <2>1, <1>1, WorkGrows
<1>5. Later(x, lastCrash) \in Nat
  BY <1>1, <1>2 DEF Later
<1>6. DueBy(x) = Later(x, lastCrash) + (Period + RunLength)
  BY <1>1, <1>4, <1>5 DEF DueBy
<1>7. QED
  BY <1>1, <1>2, <1>3, <1>4, <1>5, <1>6

(* A job that is still due when the clock is to tick is not yet late. *)
LEMMA DueTick ==
  ASSUME SchedInv, Advance, NEW j \in Jobs, NEW x \in Dues(When[j], lastFinish[j], now),
         Due(When[j], lastFinish[j], now), DueSince(When[j], lastFinish[j], now) = x
  PROVE  now + 1 <= DueBy(x)
<1> DEFINE d == Later(x, lastCrash)
           c == pc[Launchd]
           k == position[Launchd]
           b == began[Launchd]
<1>1. PICK i \in DOMAIN Order : j = Order[i]
  BY DEF Jobs
<1>2. /\ d \in Int /\ now \in Nat /\ now + 1 \in Nat /\ Period + RunLength \in Nat
      /\ DueBy(x) = d + (Period + RunLength)
  BY DuePast
<1>3. Behind(i, d, c, k, b, now, nextFire)
  BY <1>1 DEF SchedInv, InTurn
<1>4. /\ k \in 1 .. (Len(Order) + 1) /\ b \in Nat /\ nextFire \in Nat /\ MaxRun \in Nat
      /\ c = "working" => k \in DOMAIN Order
  BY ClockTypes DEF SchedInv, TypeOK, Times
<1>5. /\ now < nextFire
      /\ c = "idle" \/ (c = "working" /\ now - b < MaxRun)
  BY ClockTypes DEF Advance
<1> HIDE DEF d, c, k, b
<1>6. Behind(i, d, c, k, b, now + 1, nextFire)
  <2>1. d <= d /\ (c = "idle" \/ c = "working")
    BY <1>2, <1>5
  <2>2. QED
    BY <2>1, <1>2, <1>3, <1>4, TurnTicks
<1>7. now + 1 <= nextFire /\ (c = "working" => (now + 1) - b <= MaxRun)
  BY <1>2, <1>4, <1>5
<1>8. /\ c \in {"idle", "jobs", "working", "sending", "write"}
      /\ c \in {"working", "sending"} => k \in DOMAIN Order
  BY <1>4, <1>5
<1>9. (now + 1) - d <= Period + RunLength
  BY <1>2, <1>4, <1>6, <1>7, <1>8, TurnComes
<1>10. QED
  BY <1>2, <1>9

LEMMA ForgoneStep == SchedInv /\ [Next]_vars => Forgone'
<1> SUFFICES ASSUME SchedInv, [Next]_vars, NEW j \in Jobs,
                    NEW x \in Dues(When[j], lastFinish'[j], now'),
                    When[j].kind # "interval", WindowEnd(When[j], x) <= now'
             PROVE  WindowEnd(When[j], x) <= DueBy(x)'
  BY DEF Forgone
<1> DEFINE w == WindowEnd(When[j], x)
<1>a. TypeOK /\ Past /\ now \in Nat /\ When[j] \in Schedules /\ lastCrash \in Nat
  BY ClockTypes DEF SchedInv, TypeOK, Times
<1>b. x \in Nat /\ x <= now' /\ lastFinish'[j] <= x
  BY <1>a DEF Dues
<1>c. w \in Int /\ x < w
  BY <1>a, <1>b, WindowEnds
<1>1. ASSUME UNCHANGED <<now, lastCrash>>, lastFinish'[j] = lastFinish[j]
      PROVE  w <= DueBy(x)'
  <2>1. x \in Dues(When[j], lastFinish[j], now)
    BY <1>1
  <2>2. w <= DueBy(x)
    BY <1>1, <2>1 DEF SchedInv, Forgone
  <2>3. QED
    BY <1>1, <2>2 DEF DueBy
<1>2. ASSUME NEW p \in Runners, Start(p) PROVE w <= DueBy(x)'
  BY <1>2, <1>1 DEF Start
<1>3. ASSUME MissFire PROVE w <= DueBy(x)'
  BY <1>3, <1>1 DEF MissFire, historyVars
<1>4. ASSUME Advance PROVE w <= DueBy(x)'
  <2>1. now' = now + 1 /\ lastFinish' = lastFinish /\ DueBy(x)' = DueBy(x)
    BY <1>4 DEF Advance, historyVars, DueBy
  <2>2. x <= now
    BY <1>a, <1>b, <1>c, <2>1
  <2>3. x \in Dues(When[j], lastFinish[j], now)
    BY <1>a, <1>b, <2>1, <2>2 DEF Dues
  <2>4. CASE w <= now
    BY <2>1, <2>3, <2>4 DEF SchedInv, Forgone
  <2>5. CASE now < w
    <3>1. Due(When[j], lastFinish[j], now) /\ DueSince(When[j], lastFinish[j], now) = x
      BY <2>3, <2>5, DuePast, StillDue
    <3>2. now + 1 <= DueBy(x)
      BY <1>4, <2>3, <3>1, DueTick
    <3>3. w = now + 1
      BY <1>a, <1>c, <2>1, <2>5
    <3>4. QED
      BY <2>1, <3>2, <3>3
  <2>6. QED
    BY <1>a, <1>c, <2>4, <2>5
<1>5. ASSUME NEW p \in Runners, FinishJob(p) PROVE w <= DueBy(x)'
  <2>1. UNCHANGED <<now, lastCrash>>
    BY <1>5 DEF FinishJob, clockVars
  <2>2. CASE j = Job(p)
    <3>1. lastFinish'[j] = now
      BY <1>a, <1>5, <2>2, FinishRuns
    <3>2. x = now
      BY <1>a, <1>b, <2>1, <3>1
    <3>3. QED
      BY <1>a, <1>c, <2>1, <3>2
  <2>3. CASE j # Job(p)
    <3>1. lastFinish'[j] = lastFinish[j]
      BY <1>a, <1>5, <2>3, FinishRuns
    <3>2. QED
      BY <1>1, <2>1, <3>1
  <2>4. QED
    BY <2>2, <2>3
<1>6. ASSUME NEW p \in Runners, Crash(p) PROVE w <= DueBy(x)'
  <2>1. UNCHANGED <<now, lastFinish>> /\ lastCrash' = now
    BY <1>6 DEF Crash, clockVars
  <2>2. x \in Dues(When[j], lastFinish[j], now)
    BY <2>1
  <2>3. w <= DueBy(x)
    BY <2>1, <2>2 DEF SchedInv, Forgone
  <2>4. lastCrash <= now
    BY <1>a DEF Past
  <2>5. Later(x, lastCrash) <= Later(x, lastCrash') /\ Later(x, lastCrash') \in Nat
    BY <1>a, <1>b, <2>1, <2>4 DEF Later
  <2>6. DueBy(x)' = Later(x, lastCrash') + (Period + RunLength)
    <3>1. DueBy(x)' = Later(x, lastCrash') + Period + RunLength
      BY DEF DueBy
    <3>2. Period \in Nat /\ Period + RunLength \in Nat /\ RunLength \in Int
      BY <2>2, DuePast, ClockTypes DEF RunLength
    <3>3. QED
      BY <3>1, <3>2, <2>5
  <2>7. /\ DueBy(x) = Later(x, lastCrash) + (Period + RunLength)
        /\ Later(x, lastCrash) \in Nat /\ Period + RunLength \in Nat
    BY <2>2, DuePast
  <2>8. QED
    BY <1>c, <2>3, <2>5, <2>6, <2>7
<1>7. ASSUME NEW p \in Runners,
             \/ BeginJob(p) \/ SkipJob(p) \/ EndJob(p) \/ TruncateState(p) \/ WriteState(p)
      PROVE  w <= DueBy(x)'
  BY <1>7, <1>1 DEF BeginJob, SkipJob, EndJob, TruncateState, WriteState, clockVars, historyVars
<1>8. ASSUME NEW p \in Runners, StartByHand(p) PROVE w <= DueBy(x)'
  BY <1>8, <1>2 DEF StartByHand
<1>9. ASSUME Fire PROVE w <= DueBy(x)'
  BY <1>9, <1>2, ClockTypes DEF Fire
<1>10. ASSUME UNCHANGED vars PROVE w <= DueBy(x)'
  BY <1>10, <1>1 DEF vars, clockVars, historyVars
<1>11. QED
  BY <1>3, <1>4, <1>5, <1>6, <1>7, <1>8, <1>9, <1>10 DEF Next, RunStep

(* --- The theorems ---                                                    *)
LEMMA SchedInit == Init => SchedInv
<1> SUFFICES ASSUME Init PROVE SchedInv
  OBVIOUS
<1>1. TypeOK
  BY SchedInitType
<1>2. NoRuns \in LastRuns /\ Torn \notin LastRuns
  BY NoRunsType, ScheduleAssumption
<1>3. /\ now = 0 /\ nextFire = 0 /\ lastCrash = 0 /\ stored = NoRuns /\ lastFinish = NoRuns
      /\ \A p \in Runners : pc[p] = "idle" /\ mem[p] = NoRuns
      /\ \A j \in Jobs : NoRuns[j] = Never /\ Never = -1
  BY DEF Init, NoRuns, Never
<1>4. Past
  BY <1>3, ClockTypes DEF Past
<1>5. Alone
  BY <1>2, <1>3 DEF Alone
<1>6. ASSUME NEW i \in DOMAIN Order
      PROVE  Behind(i, Later(DueSince(When[Order[i]], lastFinish[Order[i]], now), lastCrash),
                    pc[Launchd], position[Launchd], began[Launchd], now, nextFire)
  <2> DEFINE d == Later(DueSince(When[Order[i]], lastFinish[Order[i]], now), lastCrash)
  <2>1. /\ Order[i] \in Jobs /\ When[Order[i]] \in Schedules /\ pc[Launchd] = "idle"
        /\ position[Launchd] \in 1 .. (Len(Order) + 1) /\ began[Launchd] \in Nat
        /\ lastFinish[Order[i]] \in Times \union {Never} /\ 0 \in Nat /\ Period \in Nat
    BY <1>1, <1>3, ClockTypes DEF Jobs, TypeOK, LastRuns, Times
  <2>2. DueSince(When[Order[i]], lastFinish[Order[i]], now) \in Int
    BY <2>1, <1>3, SinceTypes
  <2>3. d \in Int /\ d >= now
    BY <2>2, <1>3 DEF Later
  <2> HIDE DEF d
  <2>4. Behind(i, d, pc[Launchd], position[Launchd], began[Launchd], now, nextFire)
    <3>1. now \in Nat /\ nextFire \in Nat /\ nextFire <= now + Period
      BY <2>1, <1>3
    <3>2. \A c : d >= now /\ (c = "working" => began[Launchd] <= now) =>
            Behind(i, d, c, position[Launchd], began[Launchd], now, nextFire)
      BY <2>1, <2>3, <3>1, TurnPasses
    <3>3. QED
      BY <2>1, <2>3, <3>2
  <2>5. QED
    BY <2>4 DEF d
<1>7. InTurn
  BY <1>6 DEF InTurn
<1>8. Forgone
  <2> SUFFICES ASSUME NEW j \in Jobs, NEW x \in Dues(When[j], lastFinish[j], now)
               PROVE  ~(WindowEnd(When[j], x) <= now)
    BY DEF Forgone
  <2>1. x \in Nat /\ x <= 0 /\ When[j] \in Schedules
    BY <1>3, ClockTypes DEF Dues
  <2>2. QED
    BY <2>1, <1>3, WindowEnds
<1>9. QED
  BY <1>1, <1>4, <1>5, <1>7, <1>8 DEF SchedInv

LEMMA SchedStep == SchedInv /\ [Next]_vars => SchedInv'
  BY SchedTypeStep, PastStep, AloneStep, InTurnStep, ForgoneStep DEF SchedInv

LEMMA ScheduleInvariant == Spec => []SchedInv
  BY SchedInit, SchedStep, PTL DEF Spec

LEMMA DueAgrees == SchedInv => DueWhenNextDue
<1> SUFFICES ASSUME SchedInv, NEW j \in Jobs,
                    NEW last \in {lastFinish[j]} \union {mem[p][j] : p \in Runners}
             PROVE  Due(When[j], last, now) <=> NextDue(When[j], last, now) <= now
  BY DEF DueWhenNextDue
<1>1. last \in Times \union {Never} /\ When[j] \in Schedules /\ now \in Nat
  <2>1. lastFinish \in LastRuns /\ \A p \in Runners : mem[p] \in LastRuns
    BY DEF SchedInv, TypeOK
  <2>2. last \in Times \union {Never}
    BY <2>1 DEF LastRuns
  <2>3. QED
    BY <2>2, ClockTypes DEF SchedInv, TypeOK, Times
<1>2. QED
  BY <1>1, DueIsNextDue

LEMMA RunsSpaced == SchedInv => NoEarlyRerun
<1> SUFFICES ASSUME SchedInv, ~overlap, NEW p \in Runners, pc[p] = "working", Job(p) \notin lost
             PROVE  Spaced(When[Job(p)], lastFinish[Job(p)], began[p])
  BY DEF NoEarlyRerun
<1>1. Job(p) \in Jobs
  BY JobTypes DEF SchedInv, TypeOK
<1>2. Due(When[Job(p)], lastFinish[Job(p)], began[p])
  BY DEF SchedInv, Alone
<1>3. /\ When[Job(p)] \in Schedules /\ lastFinish[Job(p)] \in Times \union {Never}
      /\ began[p] \in Nat
  BY <1>1, ClockTypes DEF SchedInv, TypeOK, LastRuns, Times
<1>4. QED
  BY <1>2, <1>3, DueSpaced

LEMMA TurnsInTime == SchedInv => DoneInTime
<1> SUFFICES ASSUME SchedInv, NEW j \in Jobs, NEW x \in Dues(When[j], lastFinish[j], now)
             PROVE  \/ now <= DueBy(x)
                    \/ When[j].kind # "interval" /\ WindowEnd(When[j], x) <= DueBy(x)
  BY DEF DoneInTime
<1>1. CASE When[j].kind # "interval" /\ WindowEnd(When[j], x) <= now
  BY <1>1 DEF SchedInv, Forgone
<1>2. CASE When[j].kind = "interval" \/ now < WindowEnd(When[j], x)
  <2> DEFINE d == Later(x, lastCrash)
  <2>1. Due(When[j], lastFinish[j], now) /\ DueSince(When[j], lastFinish[j], now) = x
    BY <1>2, DuePast, StillDue
  <2>2. PICK i \in DOMAIN Order : j = Order[i]
    BY DEF Jobs
  <2>3. Behind(i, d, pc[Launchd], position[Launchd], began[Launchd], now, nextFire)
    BY <2>1, <2>2 DEF SchedInv, InTurn
  <2>4. /\ Launchd \in Runners
        /\ now \in Nat /\ nextFire \in Nat /\ now <= nextFire
        /\ began[Launchd] \in Nat /\ position[Launchd] \in 1 .. (Len(Order) + 1)
        /\ pc[Launchd] \in {"idle", "jobs", "working", "sending", "write"}
        /\ pc[Launchd] \in {"working", "sending"} => position[Launchd] \in DOMAIN Order
        /\ pc[Launchd] = "working" => now - began[Launchd] <= MaxRun
    BY ClockTypes DEF SchedInv, TypeOK, Past, Times
  <2>5. d \in Int /\ Period + RunLength \in Nat /\ DueBy(x) = d + (Period + RunLength)
    BY DuePast
  <2> HIDE DEF d
  <2>6. now - d <= Period + RunLength
    BY <2>3, <2>4, <2>5, TurnComes
  <2>7. QED
    BY <2>4, <2>5, <2>6
<1>3. now \in Int /\ WindowEnd(When[j], x) \in Int
  BY DuePast
<1>4. QED
  BY <1>1, <1>2, <1>3

-----------------------------------------------------------------------------
(* The mail watch *)

(* A message that was announced is among those seen: in the state file,    *)
(* unless that is torn, and in the memory of the run that is about to      *)
(* write or has written the file; the run announces none of them again.    *)
Announced == {m \in Messages : announced[m] >= 1}
Remembered ==
  ~forgot /\ ~overlap =>
    /\ \A m \in Messages : announced[m] <= 1
    /\ seen # Torn => Announced \subseteq seen
    /\ \A p \in Runners :
         /\ mailpc[p] # "read" => Announced \subseteq seenMem[p] /\ Announced \cap fresh[p] = {}
         /\ mailpc[p] = "done" => seen = seenMem[p]

(* A run that sends the notice has been through the whole job. *)
MailDone ==
  \A p \in Runners : pc[p] = "sending" /\ Job(p) = MailJob => mailpc[p] = "done"

MailRuns == /\ seenMem \in [Runners -> SUBSET Messages]
            /\ fresh \in [Runners -> SUBSET Messages]

MailInv == MailTypeOK /\ MailRuns /\ Remembered /\ MailDone

LEMMA MailStepIsRunStep == [MailNext]_allVars => [Next]_vars
<1> SUFFICES ASSUME [MailNext]_allVars PROVE [Next]_vars
  OBVIOUS
<1>1. CASE ClockStep
  BY <1>1 DEF ClockStep, Next
<1>2. ASSUME NEW p \in Runners, OtherStep(p) PROVE [Next]_vars
  BY <1>2 DEF OtherStep, Next, RunStep
<1>3. ASSUME NEW m \in Messages, Arrive(m) PROVE [Next]_vars
  BY <1>3 DEF Arrive
<1>4. ASSUME NEW p \in Runners, ReadMail(p) \/ TruncateSeen(p) \/ WriteSeen(p)
      PROVE  [Next]_vars
  BY <1>4 DEF ReadMail, TruncateSeen, WriteSeen
<1>5. ASSUME NEW p \in Runners, FinishMail(p) \/ CrashMail(p) \/ \E sent \in BOOLEAN : SendMail(p, sent)
      PROVE  [Next]_vars
  BY <1>5 DEF FinishMail, CrashMail, SendMail, Next, RunStep
<1>6. CASE UNCHANGED allVars
  BY <1>6 DEF allVars
<1>7. QED
  BY <1>1, <1>2, <1>3, <1>4, <1>5, <1>6 DEF MailNext

LEMMA MailSchedules == MailSpec => []SchedInv
<1>1. MailInit => SchedInv
  BY SchedInit DEF MailInit
<1>2. SchedInv /\ [MailNext]_allVars => SchedInv'
  BY MailStepIsRunStep, SchedStep
<1>3. QED
  BY <1>1, <1>2, PTL DEF MailSpec

LEMMA MailInitHolds == MailInit => MailInv
<1> SUFFICES ASSUME MailInit PROVE MailInv
  OBVIOUS
<1>1. TypeOK /\ \A p \in Runners : pc[p] = "idle"
  BY SchedInitType DEF MailInit, Init
<1>2. /\ arrived \in [Messages -> Times \union {Never}] /\ seen = {} /\ forgot = FALSE
      /\ mailpc \in [Runners -> {"read", "truncate", "write", "done"}]
      /\ \A p \in Runners : mailpc[p] = "read" /\ fresh[p] = {} /\ seenMem[p] = {}
      /\ announced \in [Messages -> 0 .. 2] /\ \A m \in Messages : announced[m] = 0
      /\ MailRuns
  BY DEF MailInit, MailRuns
<1>3. MailTypeOK
  BY <1>1, <1>2 DEF MailTypeOK
<1>4. Remembered
  BY <1>2 DEF Remembered, Announced
<1>5. MailDone
  BY <1>1 DEF MailDone
<1>6. QED
  BY <1>2, <1>3, <1>4, <1>5 DEF MailInv

(* A step of one run leaves the others where they are. *)
LEMMA OthersStay ==
  ASSUME TypeOK, NEW p \in Runners,
         \/ BeginJob(p) \/ SkipJob(p) \/ FinishJob(p) \/ EndJob(p) \/ TruncateState(p)
         \/ WriteState(p) \/ Crash(p) \/ Start(p)
  PROVE  \A q \in Runners : q # p => pc'[q] = pc[q] /\ Job(q)' = Job(q)
<1>1. CASE Start(p)
  BY <1>1, StartRuns DEF Job
<1>2. CASE WriteState(p) \/ Crash(p)
  BY <1>2, ForgetRun DEF Job, WriteState, Crash
<1>3. CASE BeginJob(p) \/ SkipJob(p) \/ FinishJob(p) \/ EndJob(p) \/ TruncateState(p)
  BY <1>3 DEF Job, BeginJob, SkipJob, FinishJob, EndJob, TruncateState, Goto, TypeOK
<1>4. QED
  BY <1>1, <1>2, <1>3

LEMMA ForgetMailRun ==
  ASSUME MailTypeOK, MailRuns, NEW p \in Runners, ForgetMail(p)
  PROVE  /\ mailpc' \in [Runners -> {"read", "truncate", "write", "done"}]
         /\ MailRuns'
         /\ mailpc'[p] = "read" /\ seenMem'[p] = {} /\ fresh'[p] = {}
         /\ \A q \in Runners : q # p => /\ mailpc'[q] = mailpc[q] /\ seenMem'[q] = seenMem[q]
                                        /\ fresh'[q] = fresh[q]
  BY DEF ForgetMail, MailGoto, MailTypeOK, MailRuns

LEMMA ListedMessages == Listed \subseteq Messages
  BY DEF Listed, Recent, Mailbox

(* One run at a time is past reading the mail. *)
LEMMA OneMailRun ==
  ASSUME SchedInv, MailInv, ~overlap, NEW p \in Runners, pc[p] # "idle"
  PROVE  \A q \in Runners : q # p => mailpc[q] = "read"
  BY DEF SchedInv, Alone, MailInv, MailTypeOK

(* The steps of the scheduler that leave the mail watch alone. *)
LEMMA MailRests ==
  ASSUME MailInv, TypeOK', UNCHANGED mailVars, overlap => overlap',
         \A p \in Runners : mailpc[p] # "read" => pc'[p] \in {"working", "sending"} /\ Job(p)' = MailJob,
         MailDone'
  PROVE  MailInv'
<1>1. MailTypeOK'
  BY DEF MailInv, MailTypeOK, mailVars, mailRunVars
<1>2. MailRuns'
  BY DEF MailInv, MailRuns, mailVars, mailRunVars
<1>3. Remembered'
  BY DEF MailInv, Remembered, Announced, mailVars, mailRunVars
<1>4. QED
  BY <1>1, <1>2, <1>3 DEF MailInv

LEMMA OtherKeepsMail ==
  ASSUME SchedInv, SchedInv', MailInv, NEW p \in Runners,
         \/ BeginJob(p) \/ SkipJob(p) \/ TruncateState(p) \/ WriteState(p) \/ Start(p)
         \/ (FinishJob(p) \/ EndJob(p)) /\ Job(p) # MailJob,
         UNCHANGED mailVars
  PROVE  MailInv'
<1>0. TypeOK /\ TypeOK' /\ MailTypeOK /\ MailDone /\ mailpc' = mailpc
  BY DEF SchedInv, MailInv, mailVars, mailRunVars
<1>1. \A q \in Runners : q # p => pc'[q] = pc[q] /\ Job(q)' = Job(q)
  BY <1>0, OthersStay
<1>2. mailpc[p] = "read"
  <2>1. CASE pc[p] \notin {"working", "sending"}
    BY <2>1, <1>0 DEF MailTypeOK
  <2>2. CASE Job(p) # MailJob
    BY <2>2, <1>0 DEF MailTypeOK
  <2>3. QED
    BY <2>1, <2>2 DEF BeginJob, SkipJob, TruncateState, WriteState, Start
<1>3. ~(pc'[p] = "sending" /\ Job(p)' = MailJob)
  <2>1. CASE FinishJob(p) /\ Job(p) # MailJob
    <3>1. position' = position
      BY <2>1 DEF FinishJob
    <3>2. QED
      BY <2>1, <3>1 DEF Job
  <2>2. CASE ~FinishJob(p)
    <3>1. pc'[p] # "sending"
      BY <2>2, <1>0, ForgetRun
      DEF BeginJob, SkipJob, TruncateState, WriteState, Start, EndJob, Goto, TypeOK
    <3>2. QED
      BY <3>1
  <2>3. FinishJob(p) => pc[p] = "working"
    BY DEF FinishJob
  <2>4. QED
    BY <2>1, <2>2, <2>3 DEF BeginJob, SkipJob, TruncateState, WriteState, Start
<1>4. MailDone'
  BY <1>0, <1>1, <1>3 DEF MailDone
<1>5. \A q \in Runners : mailpc[q] # "read" => pc'[q] \in {"working", "sending"} /\ Job(q)' = MailJob
  BY <1>0, <1>1, <1>2 DEF MailTypeOK
<1>6. overlap => overlap'
  BY DEF BeginJob, SkipJob, TruncateState, WriteState, Start, EndJob, FinishJob, historyVars
<1>7. QED
  BY <1>0, <1>4, <1>5, <1>6, MailRests

LEMMA ReadMailKeeps ==
  ASSUME SchedInv, SchedInv', MailInv, NEW p \in Runners, ReadMail(p)
  PROVE  MailInv'
<1> DEFINE known == IF seen = Torn THEN {} ELSE seen
<1>1. /\ pc[p] = "working" /\ Job(p) = MailJob /\ mailpc[p] = "read"
      /\ mailpc' = [mailpc EXCEPT ![p] = "truncate"]
      /\ fresh' = [fresh EXCEPT ![p] = Listed \ known]
      /\ seenMem' = [seenMem EXCEPT ![p] = known \union Listed]
      /\ forgot' = (forgot \/ seen = Torn)
      /\ UNCHANGED <<pc, position, overlap, arrived, seen, announced>>
  BY DEF ReadMail, InMailJob, MailGoto, vars, runVars, historyVars
<1>2. known \subseteq Messages /\ Listed \subseteq Messages
  BY ListedMessages DEF MailInv, MailTypeOK
<1> HIDE DEF known
<1>3. /\ mailpc' \in [Runners -> {"read", "truncate", "write", "done"}] /\ mailpc'[p] = "truncate"
      /\ \A q \in Runners : q # p => mailpc'[q] = mailpc[q]
      /\ MailRuns' /\ fresh'[p] = Listed \ known /\ seenMem'[p] = known \union Listed
      /\ \A q \in Runners : q # p => fresh'[q] = fresh[q] /\ seenMem'[q] = seenMem[q]
  BY <1>1, <1>2 DEF MailInv, MailTypeOK, MailRuns
<1>4. MailTypeOK'
  <2>1. /\ TypeOK' /\ MailTypeOK /\ fresh'[p] \subseteq seenMem'[p]
        /\ seenMem'[p] \subseteq Messages /\ \A q \in Runners : Job(q)' = Job(q)
    BY <1>1, <1>2, <1>3 DEF SchedInv, MailInv, Job
  <2>2. \A q \in Runners : fresh'[q] \subseteq seenMem'[q] /\ seenMem'[q] \subseteq Messages
    BY <1>3, <2>1 DEF MailTypeOK
  <2>3. \A q \in Runners : mailpc'[q] # "read" => pc'[q] \in {"working", "sending"} /\ Job(q)' = MailJob
    BY <1>1, <1>3, <2>1 DEF MailTypeOK
  <2>4. forgot' \in BOOLEAN
    BY <1>1 DEF MailInv, MailTypeOK
  <2>5. QED
    BY <1>1, <1>3, <2>1, <2>2, <2>3, <2>4 DEF MailTypeOK
<1>5. ASSUME ~forgot', ~overlap' PROVE /\ Announced' \subseteq seenMem'[p]
                                       /\ Announced' \cap fresh'[p] = {}
  BY <1>1, <1>3, <1>5 DEF MailInv, Remembered, Announced, known
<1>6. ASSUME ~overlap' PROVE \A q \in Runners : q # p => mailpc'[q] = "read"
  BY <1>1, <1>3, <1>6, OneMailRun
<1>7. Remembered'
  BY <1>1, <1>3, <1>5, <1>6 DEF MailInv, Remembered, Announced
<1>8. MailDone'
  BY <1>1, <1>3 DEF MailInv, MailDone, Job
<1>9. QED
  BY <1>3, <1>4, <1>7, <1>8 DEF MailInv

LEMMA SaveSeenKeeps ==
  ASSUME SchedInv, SchedInv', MailInv, NEW p \in Runners, TruncateSeen(p) \/ WriteSeen(p)
  PROVE  MailInv'
<1>1. /\ pc[p] = "working" /\ Job(p) = MailJob /\ mailpc[p] \in {"truncate", "write"}
      /\ \/ mailpc' = [mailpc EXCEPT ![p] = "write"] /\ seen' = Torn
         \/ mailpc' = [mailpc EXCEPT ![p] = "done"] /\ seen' = seenMem[p]
      /\ UNCHANGED <<pc, position, overlap, arrived, seenMem, fresh, announced, forgot>>
  BY DEF TruncateSeen, WriteSeen, InMailJob, MailGoto, vars, runVars, historyVars
<1>2. /\ mailpc' \in [Runners -> {"read", "truncate", "write", "done"}] /\ mailpc'[p] # "read"
      /\ \A q \in Runners : q # p => mailpc'[q] = mailpc[q]
      /\ \/ mailpc'[p] = "write" /\ seen' = Torn
         \/ mailpc'[p] = "done" /\ seen' = seenMem[p]
  BY <1>1 DEF MailInv, MailTypeOK
<1>3. MailRuns' /\ seenMem[p] \subseteq Messages
  BY <1>1 DEF MailInv, MailRuns
<1>4. MailTypeOK'
  BY <1>1, <1>2, <1>3 DEF SchedInv, MailInv, MailTypeOK, Job
<1>5. ASSUME ~forgot, ~overlap PROVE Announced \subseteq seenMem[p]
  BY <1>1, <1>5 DEF MailInv, Remembered
<1>6. ASSUME ~overlap PROVE \A q \in Runners : q # p => mailpc'[q] = "read"
  BY <1>1, <1>2, <1>6, OneMailRun
<1>7. Remembered'
  BY <1>1, <1>2, <1>5, <1>6 DEF MailInv, Remembered, Announced
<1>8. MailDone'
  BY <1>1, <1>2 DEF MailInv, MailDone, Job
<1>9. QED
  BY <1>3, <1>4, <1>7, <1>8 DEF MailInv

LEMMA SendMailKeeps ==
  ASSUME SchedInv, SchedInv', MailInv, NEW p \in Runners, NEW sent \in BOOLEAN, SendMail(p, sent)
  PROVE  MailInv'
<1>0. TypeOK /\ TypeOK' /\ MailTypeOK /\ MailRuns /\ MailDone
  BY DEF SchedInv, MailInv
<1>1. /\ EndJob(p) /\ Job(p) = MailJob /\ ForgetMail(p) /\ UNCHANGED <<arrived, seen, forgot>>
      /\ pc[p] = "sending" /\ overlap' = overlap /\ pc'[p] = "jobs"
      /\ announced' = [m \in Messages |->
           IF sent /\ m \in fresh[p] /\ announced[m] < 2 THEN announced[m] + 1 ELSE announced[m]]
  BY <1>0 DEF SendMail, EndJob, historyVars, Goto, TypeOK
<1>2. \A q \in Runners : q # p => pc'[q] = pc[q] /\ Job(q)' = Job(q)
  BY <1>0, <1>1, OthersStay
<1>3. /\ mailpc' \in [Runners -> {"read", "truncate", "write", "done"}]
      /\ MailRuns'
      /\ mailpc'[p] = "read" /\ seenMem'[p] = {} /\ fresh'[p] = {}
      /\ \A q \in Runners : q # p => /\ mailpc'[q] = mailpc[q] /\ seenMem'[q] = seenMem[q]
                                     /\ fresh'[q] = fresh[q]
  BY <1>0, <1>1, ForgetMailRun
<1>4. announced' \in [Messages -> 0 .. 2]
  <2>1. \A m \in Messages : announced[m] \in 0 .. 2
    BY <1>0 DEF MailTypeOK
  <2>2. \A m \in Messages : announced[m] < 2 => announced[m] + 1 \in 0 .. 2
    BY <2>1
  <2>3. QED
    BY <2>1, <2>2, <1>1
<1>5. MailTypeOK'
  BY <1>0, <1>1, <1>2, <1>3, <1>4 DEF MailTypeOK
<1>6. MailDone'
  BY <1>0, <1>1, <1>2, <1>3 DEF MailDone
<1>7. mailpc[p] = "done"
  BY <1>0, <1>1 DEF MailDone
<1>8. Remembered'
  <2> SUFFICES ASSUME ~forgot, ~overlap
               PROVE  /\ \A m \in Messages : announced'[m] <= 1
                      /\ Announced' \subseteq seen
                      /\ \A q \in Runners : mailpc'[q] = "read"
    BY <1>1 DEF Remembered
  <2>1. /\ \A m \in Messages : announced[m] <= 1 /\ announced[m] \in 0 .. 2
        /\ Announced \subseteq seen /\ Announced \cap fresh[p] = {} /\ seen = seenMem[p]
        /\ fresh[p] \subseteq seenMem[p]
    BY <1>0, <1>7 DEF Remembered, MailInv, MailTypeOK
  <2>2. \A m \in fresh[p] : m \in Messages => announced[m] = 0
    BY <2>1 DEF Announced
  <2>3. \A m \in Messages : announced'[m] = IF sent /\ m \in fresh[p] /\ announced[m] < 2
                                            THEN announced[m] + 1 ELSE announced[m]
    BY <1>1
  <2>4. \A m \in Messages : announced'[m] <= 1
    BY <2>1, <2>2, <2>3
  <2>5. \A m \in Messages : announced'[m] >= 1 => m \in Announced \/ m \in fresh[p]
    BY <2>3 DEF Announced
  <2>6. Announced' \subseteq seen
    BY <2>1, <2>5 DEF Announced
  <2>7. \A q \in Runners : mailpc'[q] = "read"
    BY <1>1, <1>3, OneMailRun
  <2>8. QED
    BY <2>4, <2>6, <2>7
<1>9. QED
  BY <1>3, <1>5, <1>6, <1>8 DEF MailInv

LEMMA FinishMailKeeps ==
  ASSUME SchedInv, SchedInv', MailInv, NEW p \in Runners, FinishMail(p)
  PROVE  MailInv'
<1>0. TypeOK /\ TypeOK' /\ MailTypeOK /\ MailDone
  BY DEF SchedInv, MailInv
<1>1. /\ FinishJob(p) /\ UNCHANGED mailVars /\ mailpc[p] = "done" /\ Job(p) = MailJob
      /\ overlap' = overlap /\ Job(p)' = Job(p) /\ mailpc' = mailpc
  BY DEF FinishMail, InMailJob, FinishJob, Job, mailVars, mailRunVars
<1>2. pc'[p] = "sending" /\ \A q \in Runners : q # p => pc'[q] = pc[q] /\ Job(q)' = Job(q)
  BY <1>0, <1>1, OthersStay, FinishRuns
<1>3. MailDone'
  BY <1>0, <1>1, <1>2 DEF MailDone
<1>4. \A q \in Runners : mailpc[q] # "read" => pc'[q] \in {"working", "sending"} /\ Job(q)' = MailJob
  BY <1>0, <1>1, <1>2 DEF MailTypeOK
<1>5. QED
  BY <1>0, <1>1, <1>3, <1>4, MailRests

LEMMA CrashMailKeeps ==
  ASSUME SchedInv, SchedInv', MailInv, NEW p \in Runners, CrashMail(p)
  PROVE  MailInv'
<1>0. TypeOK /\ TypeOK' /\ MailTypeOK /\ MailRuns /\ MailDone
  BY DEF SchedInv, MailInv
<1>1. /\ Crash(p) /\ ForgetMail(p) /\ UNCHANGED <<arrived, seen, announced, forgot>>
      /\ overlap' = overlap /\ pc[p] # "idle"
  BY DEF CrashMail, Crash
<1>2. pc'[p] = "idle" /\ \A q \in Runners : q # p => pc'[q] = pc[q] /\ Job(q)' = Job(q)
  BY <1>0, <1>1, OthersStay, ForgetRun DEF Crash
<1>3. /\ mailpc' \in [Runners -> {"read", "truncate", "write", "done"}]
      /\ MailRuns'
      /\ mailpc'[p] = "read" /\ seenMem'[p] = {} /\ fresh'[p] = {}
      /\ \A q \in Runners : q # p => /\ mailpc'[q] = mailpc[q] /\ seenMem'[q] = seenMem[q]
                                     /\ fresh'[q] = fresh[q]
  BY <1>0, <1>1, ForgetMailRun
<1>4. MailTypeOK'
  BY <1>0, <1>1, <1>2, <1>3 DEF MailTypeOK
<1>5. MailDone'
  BY <1>0, <1>2, <1>3 DEF MailDone
<1>6. Remembered'
  BY <1>1, <1>3 DEF MailInv, Remembered, Announced
<1>7. QED
  BY <1>3, <1>4, <1>5, <1>6 DEF MailInv

LEMMA ArriveKeeps ==
  ASSUME SchedInv, SchedInv', MailInv, NEW m \in Messages, Arrive(m)
  PROVE  MailInv'
<1>1. now \div Day \in Times
  <2>1. now \in Nat /\ now <= MaxTime /\ Day \in Nat \ {0} /\ MaxTime \in Nat
    BY ClockTypes DEF SchedInv, TypeOK, Times
  <2> DEFINE x == now \div Day
  <2>2. x \in Int /\ x * Day <= now /\ now < x * Day + Day
    BY <2>1, Division
  <2> HIDE DEF x
  <2>3. x >= 0
    <3> SUFFICES ASSUME x <= -1 PROVE FALSE
      BY <2>2
    <3>1. x * Day <= (-1) * Day
      BY <2>1, <2>2
    <3>2. QED
      BY <2>1, <2>2, <3>1
  <2>4. x <= x * Day
    BY <2>1, <2>2, <2>3
  <2>5. x * Day \in Int
    BY <2>1, <2>2
  <2>6. x \in 0 .. MaxTime
    BY <2>1, <2>2, <2>3, <2>4, <2>5
  <2>7. QED
    BY <2>6 DEF x, Times
<1>2. arrived' \in [Messages -> Times \union {Never}]
  BY <1>1 DEF Arrive, MailInv, MailTypeOK
<1>3. UNCHANGED <<pc, position, overlap, seen, mailpc, seenMem, fresh, announced, forgot>>
  BY DEF Arrive, vars, runVars, historyVars, mailRunVars
<1>4. MailTypeOK'
  BY <1>2, <1>3 DEF SchedInv, MailInv, MailTypeOK, Job
<1>5. Remembered' /\ MailDone' /\ MailRuns'
  BY <1>3 DEF MailInv, Remembered, Announced, MailDone, MailRuns, Job
<1>6. QED
  BY <1>4, <1>5 DEF MailInv

LEMMA MailStep == SchedInv /\ SchedInv' /\ MailInv /\ [MailNext]_allVars => MailInv'
<1> SUFFICES ASSUME SchedInv, SchedInv', MailInv, [MailNext]_allVars PROVE MailInv'
  OBVIOUS
<1>1. ASSUME UNCHANGED <<pc, position, overlap>>, UNCHANGED mailVars PROVE MailInv'
  BY <1>1, MailRests DEF SchedInv, MailInv, MailDone, MailTypeOK, Job, mailVars, mailRunVars
<1>2. CASE ClockStep
  BY <1>1, <1>2, OtherKeepsMail, ClockTypes
  DEF ClockStep, Fire, MissFire, Advance, runVars, historyVars
<1>3. ASSUME NEW p \in Runners, OtherStep(p) PROVE MailInv'
  BY <1>3, OtherKeepsMail DEF OtherStep, StartByHand
<1>4. CASE UNCHANGED allVars
  BY <1>1, <1>4 DEF allVars, vars, runVars, historyVars
<1>5. QED
  BY <1>2, <1>3, <1>4, ArriveKeeps, ReadMailKeeps, SaveSeenKeeps, SendMailKeeps,
     FinishMailKeeps, CrashMailKeeps DEF MailNext

LEMMA MailInvariant == MailSpec => []MailInv
<1>1. MailInit => MailInv
  BY MailInitHolds
<1>2. QED
  BY <1>1, MailSchedules, MailStep, PTL DEF MailSpec

-----------------------------------------------------------------------------
(* The theorems. What is proved of Spec holds of MailSpec too, whose runs  *)
(* are runs of the scheduler (MailWatchIsScheduled).                       *)

(* The mail watch goes by the scheduler's rules: whatever its job and its  *)
(* messages do, the processes that execute RunDue take no other steps.     *)
THEOREM MailWatchIsScheduled == MailSpec => Spec
<1>1. MailInit => Init
  BY DEF MailInit
<1>2. QED
  BY <1>1, MailStepIsRunStep, PTL DEF MailSpec, Spec

(* What `schedule status` shows as the next due time of a job (NextDue) is *)
(* not in the future exactly when run-due would run the job (Due).         *)
THEOREM DueAsShown == Spec => []DueWhenNextDue
  BY ScheduleInvariant, DueAgrees, PTL

(* Runs that do not overlap repeat no job before its time, also after runs *)
(* that died with the state file torn, unless they died with its result.   *)
THEOREM NoJobRepeatedEarly == Spec => []NoEarlyRerun
  BY ScheduleInvariant, RunsSpaced, PTL

(* However many processes run due jobs, overlapping or not, a job that     *)
(* falls due is done within one firing interval of launchd and the time of *)
(* one whole run, or that long after the last crash, unless it is a daily  *)
(* or hourly one whose day or hour is over by then.                        *)
THEOREM JobsDoneInTime == Spec => []DoneInTime
  BY ScheduleInvariant, TurnsInTime, PTL

(* Type correctness of the mail watch on the scheduler: a mail run is past *)
(* reading only while its process is at the mail job.                      *)
THEOREM MailWatchTypeCorrect == MailSpec => []MailTypeOK
<1>1. MailInv => MailTypeOK
  BY DEF MailInv
<1>2. QED
  BY <1>1, MailInvariant, PTL

(* No message is announced twice (WatchOnce leaves out the seen ids),      *)
(* unless a state file was found torn or two runs overlapped.              *)
THEOREM MailAnnouncedOnce == MailSpec => []AnnouncedOnce
<1>1. MailInv => AnnouncedOnce
  BY DEF MailInv, Remembered, AnnouncedOnce
<1>2. QED
  BY <1>1, MailInvariant, PTL
=============================================================================
