CONSTANTS
  Runners = {launchd, byhand}
  Launchd = launchd
  Order <- MailOnlyOrder
  When <- MailOnlyWhen
  Hour = 6
  Day = 12
  Period = 3
  MaxRun = 1
  MaxTime = 6
  MaxCrashes = 1
  Torn = Torn
  MailJob = "mail-watch"
  Messages = {1, 2}
  Window = 3
  Limit = 1
SPECIFICATION MailSpec
INVARIANTS AnnouncedOnce
CHECK_DEADLOCK FALSE
