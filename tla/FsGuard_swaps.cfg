SPECIFICATION FairSpec
CONSTANTS
  in1 = in1
  in2 = in2
  out1 = out1
  Place <- MCPlace
  Inside <- MCInside
  NoPlace = NoPlace
INVARIANTS TypeOK FileOpsConfined NoEscapeWithoutSwap
PROPERTIES OperationsEnd
