SPECIFICATION Spec
CONSTANTS
  c1 = c1
  c2 = c2
  r1 = r1
  r2 = r2
  r3 = r3
  RequestId <- Ids
  Call <- TwoCalls
  IdOf <- SharedId
  Request <- PairRequests
  Reply <- PairReplies
  Answer <- PairAnswers
  Held <- BothOutcomes
INVARIANT ChargedOnce
INVARIANT ServedIsAccounted
PROPERTY BillingSpec
SYMMETRY SameId
