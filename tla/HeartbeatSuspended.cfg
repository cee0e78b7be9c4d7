SPECIFICATION FairSpec
CONSTANTS
  r1 = r1
  NoRow = NoRow
  Nothing = Nothing
  NoReply = NoReply
  ConfiguredWithID = TRUE
  MaxNow = 1
  Plans <- TwoPlans
  Requests <- OneRequest
  Ops <- SuspendOnly
PROPERTIES SuspendedNodeStops
