----------------------------- MODULE MCMailWatch ------------------------------
(***************************************************************************)
(* Plans for model checking ScheduleRunner and MailWatch: a briefing one   *)
(* unit after every full hour, the mail watch at the interval of the       *)
(* launchd agent and a daily audit; and the mail watch alone. One unit of  *)
(* time stands for five minutes; hours and days are short, but longer than *)
(* a due time and the six units within which a job is to be done, so that  *)
(* every kind of job could be late.                                        *)
(***************************************************************************)
EXTENDS MailWatch

MCOrder == <<"briefing", "mail-watch", "audit">>
MCWhen == [j \in {"briefing", "mail-watch", "audit"} |->
  CASE j = "briefing" -> [kind |-> "hourly", at |-> 1]
    [] j = "mail-watch" -> [kind |-> "interval", at |-> 3]
    [] j = "audit" -> [kind |-> "daily", at |-> 3]]

MailOnlyOrder == <<"mail-watch">>
MailOnlyWhen == [j \in {"mail-watch"} |-> MCWhen[j]]
=============================================================================
