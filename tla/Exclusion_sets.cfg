SPECIFICATION Spec
CONSTANTS
  Structs = {"S", "K"}
  Sums = {"E"}
  Traits = {"T"}
  Caps = {"C"}
  Builtins = {"Net", "Unsafe"}
  Unsafe = "Unsafe"
  FunType = FunType
  FreeParam = FreeParam
  None = None
  Programs <- SomePrograms
  Functions <- Records
INVARIANTS TypeOK BuiltinsAccounted UserCapsAccounted
PROPERTIES LoopEnds
