SPECIFICATION AuditSpec
CONSTANTS
  t1 = t1
  t2 = t2
  Threads <- Goroutines
  Threshold = 2
  Window = 1
  Cooldown = 1
SYMMETRY Symmetry
INVARIANTS ForgivenNoFaster
PROPERTIES EscalationEarned
