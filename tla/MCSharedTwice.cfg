SPECIFICATION Spec
CONSTANTS
  p = p
  q = q
  g1 = g1
  g2 = g2
  o1 = o1
  o2 = o2
  Procs = {p, q}
  Heroes = {p, q}
  Losers = {p, q}
  Logs = {g1, g2}
  Games = {g1, g2}
  Entries = {g1, g2, o1, o2}
  Start <- MCStart
  Points <- MCPoints
  Player <- MCPlayer
  TTLISTLEN = 2
  PLAYERMAX = 2
  MaxScored = 3
  MaxRestored = 3
  Nobody = Nobody
  NoOne = NoOne
  None = None
  Old = Old
SYMMETRY Symmetry
INVARIANT OnePlayer
CHECK_DEADLOCK FALSE
