SPECIFICATION Spec
CONSTANTS
  Conns = {x}
  Boxes = {p, q}
  Param = h
  Fields = {a, b}
  Modes = {"borrow", "consume"}
  BackEnds = {"python", "wasm"}
  Forms <- AllForms
  MaxTokens = 5
  MaxTurns = 2
SYMMETRY Interchangeable
INVARIANTS TypeOK SafeConsumedOnce SafeNothingLeaks SafeBorrowKept
CHECK_DEADLOCK FALSE
