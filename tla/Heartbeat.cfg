SPECIFICATION AuditSpec
CONSTANTS
  r1 = r1
  NoRow = NoRow
  Nothing = Nothing
  NoReply = NoReply
  ConfiguredWithID = FALSE
  MaxNow = 2
  Plans <- TwoPlans
  Requests <- OneRequest
  Ops <- AllButEdit
INVARIANTS TypeOK PaidPlanEnds RefusedNodeLocks
