SPECIFICATION FairSpec
CONSTANTS
  r1 = r1
  NoRow = NoRow
  Nothing = Nothing
  NoReply = NoReply
  ConfiguredWithID = FALSE
  MaxNow = 2
  Plans <- TwoPlans
  Requests <- OneRequest
  Ops <- Endings
PROPERTIES OverdueNodeGoesFree NodeRecovers
