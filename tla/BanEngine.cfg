SPECIFICATION Spec
CONSTANTS
  t1 = t1
  t2 = t2
  t3 = t3
  ip1 = ip1
  ip2 = ip2
  Torn = Torn
  None = None
  Threads <- ThreeThreads
  IPs <- Addresses
  Ops <- AllOps
SYMMETRY Symmetry
INVARIANTS BansReachKernel
PROPERTIES BanLastsUntilLifted
