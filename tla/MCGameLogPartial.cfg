\* Players may also leave in the middle of a command, and moving asks
\* for confirmation only in some worlds, so that a replay may want an input the
\* log does not hold.
SPECIFICATION Spec
CONSTANTS
  Commands <- Sober
  Long <- MCLong
  Asks <- AsksAtPit
  Fatal <- FatalInPit
  NoCmd = NoCmd
  NoWorld = NoWorld
  MaxLog = 18
  MaxMoves = 3
  MaxCrashes = 2
  MaxOptions = 1
  MaxSaves = 1
  ReadAhead = FALSE
  Partial = TRUE
INVARIANT FinishedTurnRestores
PROPERTY JournalKept
CHECK_DEADLOCK FALSE
