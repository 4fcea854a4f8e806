CONSTANTS
  Targets = {t1, t2}
  Kinds = {"compose", "approve"}
  TTL = 2
  MaxAge = 2
  MaxTime = 2
  MaxWritten = 3
  MaxFaults = 0
  None = None
SPECIFICATION Spec
PROPERTIES ApprovedInTimeIsSent
CHECK_DEADLOCK FALSE
