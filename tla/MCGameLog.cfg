\* Players leave between commands; fclose puts the shared file offset back to
\* the last byte the reader used.
SPECIFICATION FairSpec
CONSTANTS
  Commands <- MCCommands
  Long <- MCLong
  Asks <- AsksAlways
  Fatal <- FatalDraught
  NoCmd = NoCmd
  NoWorld = NoWorld
  MaxLog = 16
  MaxMoves = 2
  MaxCrashes = 2
  MaxOptions = 1
  MaxSaves = 2
  ReadAhead = FALSE
  Partial = FALSE
INVARIANTS NoLostGame NothingPending
PROPERTIES RestoreEnds KeepsPromise
CHECK_DEADLOCK FALSE
