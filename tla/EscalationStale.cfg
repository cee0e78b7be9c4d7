SPECIFICATION AuditSpec
CONSTANTS
  t1 = t1
  t2 = t2
  Threads <- OneGoroutine
  Threshold = 1
  Window = 1
  Cooldown = 2
INVARIANT OneLevelPerCooldown
