SPECIFICATION RegionFairSpec
CONSTANTS
  ct = ct
  worm = worm
  Mon = {ct, worm}
  Cthulhu = ct
  LongWorm = {worm}
  Cell = {1, 2}
  Shape = {{1}}
  Ttl = {1}
  Damage = {5}
  MaxClouds = 2
  MaxList = 2
INVARIANTS RegionsKnow WalkIsWhole CthulhuAwaited
PROPERTY CloudsPass
CHECK_DEADLOCK FALSE
