SPECIFICATION BothSpec
CONSTANTS
  p1 = p1
  p2 = p2
  p3 = p3
  audited = audited
  other = other
  None = None
  Foreign = Foreign
  Process <- Processes
  Build <- Builds
  Pinned <- audited
  Options <- CommandLines
INVARIANT TypeOK
INVARIANT BindingIsExact
INVARIANT BoundRunsPinned
INVARIANT PromptAfterRepin
INVARIANT VerifierTypeOK
INVARIANT PassIsEarned
INVARIANT ClientsAgree
SYMMETRY Symmetry
CHECK_DEADLOCK FALSE
