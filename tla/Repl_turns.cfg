SPECIFICATION Spec
CONSTANTS
  Prebound = {"stdio"}
  Item <- MCItem
  Stmt <- MCStmt
  MaxTurn = 2
  MaxLen = 3
  None = None
CHECK_DEADLOCK FALSE
INVARIANTS RunOnce
