\* A candle lasts three turns and reports after two; a corridor of five squares
\* with two slots for worms of up to three segments.
SPECIFICATION Spec
CONSTANTS
  c = c
  d = d
  e = e
  Obj <- MCObj
  Kind <- MCKind
  Unborn <- MCUnborn
  NLevels = 2
  Fuel = 3
  Marks = {1}
  HatchAt = 2
  Close = 1
  MaxMoves = 3
  MaxTrips = 2
  Creature = {w1, w2, w3}
  Nobody = Nobody
  Square = {1, 2, 3, 4, 5}
  Beside <- MCBeside
  MAX_NUM_WORMS = 3
  TailLength = {0, 2}
  MaxSegs = 4
SYMMETRY Symmetry
INVARIANTS TimersCounted LightsMatch FuelKept TailsWhole MapKept
PROPERTY OnlyArrivalsDisorder
CHECK_DEADLOCK FALSE
