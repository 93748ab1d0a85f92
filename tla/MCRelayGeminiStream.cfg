SPECIFICATION Spec
CONSTANTS
  c1 = c1
  c2 = c2
  r1 = r1
  r2 = r2
  r3 = r3
  RequestId <- Ids
  Call <- OneCall
  IdOf <- OwnIds
  Request <- GeminiRequests
  Reply <- GeminiReplies
  Answer <- GeminiAnswers
  Held <- BothOutcomes
INVARIANT GeminiIsCharged
