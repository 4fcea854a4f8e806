CONSTANTS
  Containers = {1, 2}
  Operators = {op1, op2}
  Executors = {e1}
  Kinds <- MCKinds
  MaxOf <- MCMaxOf
  Files = {f1, f2}
  Desires <- MCDesires
  Actuals <- MCActuals
  Rules <- MCRules
  None = None
  Readers = {p1}
  Policies <- MCPolicies
  SizeOf <- MCSizeOf
  Questions <- MCQuestions
  MaxTicks = 1
  MaxEdits = 4
  Missing = Missing
  Torn = Torn
  Servers = {s1, s2}
  IdLimit = 3
  Statuses = {"active", "done"}
  MaxCalls = 5
  NoCall = NoCall
  Users = {u1, u2}
  Backends = {"local", "pass", "link"}
  MaxVaultCalls = 4
  Absent = Absent
  Empty = Empty
  Garbled = Garbled
  AtRest = AtRest
  Watches = {w1, w2}
  Watchers = {p1, p2}
  Cadence = 2
  MaxWatchTime = 3
  MaxWatchCalls = 4
  Unset = Unset
  Blank = Blank
  NotJSON = NotJSON
  Resting = Resting
SPECIFICATION ClientsSpec
INVARIANTS HealTypeOK RestartSanctioned CloseoutTrue ReconcileTypeOK DriftIsExact ReadyCoversDrift
INVARIANTS PolicyTypeOK DecisionIsCurrent MissionTypeOK AnswersHold DoneAsAsked
INVARIANTS VaultTypeOK PutsHold SecretOpens FingerprintTrue WatchTypeOK WatchedAsAsked
PROPERTIES ChecksApart
SYMMETRY Names
CHECK_DEADLOCK FALSE
