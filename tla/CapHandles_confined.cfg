SPECIFICATION Spec
CONSTANTS
  Target <- MCTarget
  Rule <- MCRule
  Reach <- MCReach
  MCNoBinding = MCNoBinding
  NoBinding = MCNoBinding
  NoEffect = NoEffect
  Artifacts <- SharedArtifacts
  Signatures <- FsForeign
  Forges = FALSE
  MaxHandles = 4
  MaxDepth = 2
  MaxRuns = 2
INVARIANTS CallsAreConfined
PROPERTIES HandlesAreStable ImplementsAuthority
CHECK_DEADLOCK FALSE
