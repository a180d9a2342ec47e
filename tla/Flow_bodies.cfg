SPECIFICATION Spec
CONSTANTS
  Families <- MCFamilies
  Forms = {}
  MaxTokens = 5
  MaxTurns = 3
  FixpointCap = 6
INVARIANTS TypeOK Noninterference ExplicitFlowsReported LoopsSettle
CHECK_DEADLOCK FALSE
