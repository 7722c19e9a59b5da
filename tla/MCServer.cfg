SPECIFICATION QuietSpec
CONSTANTS
  c1 = c1
  c2 = c2
  u1 = u1
  Conn = {c1, c2}
  User <- OneUser
  Local <- LastLocal
  Addr = {a1, a2}
  None = None
  Dummy = Dummy
  NFds = 8
  Buf = 2
  PipeCap = 2
  Sizes = {}
  ForkFails = TRUE
INVARIANTS ListsRight OwnsFds WaitsWhole NoOrphan
CHECK_DEADLOCK FALSE
