CONSTANTS
  Runners = {launchd}
  Launchd = launchd
  Order <- MCOrder
  When <- MCWhen
  Hour = 6
  Day = 12
  Period = 3
  MaxRun = 1
  MaxTime = 24
  MaxCrashes = 0
  Torn = Torn
  MailJob = "mail-watch"
  Messages = {1}
  Window = 3
  Limit = 2
SPECIFICATION MailSpec
PROPERTIES NoMailMissed
CHECK_DEADLOCK FALSE
