CONSTANTS
  Targets = {t1, t2}
  Kinds = {"compose", "revise", "approve", "ok", "mac", "run"}
  TTL = 1
  MaxAge = 1
  MaxTime = 2
  MaxWritten = 4
  MaxFaults = 1
  None = None
SYMMETRY Chats
CONSTRAINT Calm
SPECIFICATION Spec
INVARIANTS TypeOK SentOnce
PROPERTIES ApprovedAsShown NoGuess
CHECK_DEADLOCK FALSE
