SPECIFICATION FaultsSpec
CONSTANTS
  r1 = r1
  NoRow = NoRow
  Nothing = Nothing
  NoReply = NoReply
  ConfiguredWithID = FALSE
  MaxNow = 1
  Plans <- TwoPlans
  Requests <- NoRequest
  Ops <- NoOps
INVARIANTS TimeoutIs503
