SPECIFICATION AdminSpec
CONSTANTS
  NoSession = NoSession
  Logins = {l1}
  Sessions = {s1}
  Versions = {1}
  FailLimit = 2
  FailWindow = 1
  LockTime = 3
  SessionTTL = 1
  RegLimit = 1
  RegWindow = 1
  MaxUnlogged = 1
PROPERTIES RejectedWhileBlocked
