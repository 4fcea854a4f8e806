CONSTANTS
  Runners = {launchd}
  Launchd = launchd
  Order <- MCOrder
  When <- MCWhen
  Hour = 8
  Day = 16
  Period = 3
  MaxRun = 1
  MaxTime = 26
  MaxCrashes = 1
  Torn = Torn
  MailJob = "mail-watch"
  Messages = {1}
  Window = 3
  Limit = 2
SPECIFICATION MailSpec
INVARIANTS MailTypeOK DueWhenNextDue NoEarlyRerun DoneInTime
CHECK_DEADLOCK FALSE
