SPECIFICATION FairSpec
CONSTANTS
  c1 = c1
  c2 = c2
  r1 = r1
  r2 = r2
  r3 = r3
  RequestId <- Ids
  Call <- OneCall
  IdOf <- OwnIds
  Request <- AllRequests
  Reply <- AllReplies
  Answer <- AllAnswers
  Held <- BothOutcomes
INVARIANT TypeOK
INVARIANT ChargedIsServed
INVARIANT ChargedAtCost
INVARIANT DialsOnlyOfficial
INVARIANT ErrorStandsAlone
INVARIANT ImageCountBounded
INVARIANT HandlerResponds
PROPERTY GoneEnds
PROPERTY SettlingEnds
