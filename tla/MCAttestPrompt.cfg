SPECIFICATION Spec
CONSTANTS
  p1 = p1
  p2 = p2
  p3 = p3
  p4 = p4
  p5 = p5
  audited = audited
  other = other
  None = None
  Process <- Processes
  Build <- Builds
  Pinned <- audited
INVARIANT PromptToAttested
SYMMETRY Symmetry
CHECK_DEADLOCK FALSE
