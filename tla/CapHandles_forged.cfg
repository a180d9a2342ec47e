SPECIFICATION Spec
CONSTANTS
  Target <- MCTarget
  Rule <- MCRule
  Reach <- MCReach
  MCNoBinding = MCNoBinding
  NoBinding = MCNoBinding
  NoEffect = NoEffect
  Artifacts <- AnyArtifacts
  Signatures <- AnySignatures
  Forges = TRUE
  MaxHandles = 5
  MaxDepth = 1
  MaxRuns = 1
INVARIANTS TypeOK DeclaredIsUpperBound ForeignIsConfined Attenuation
CHECK_DEADLOCK FALSE
