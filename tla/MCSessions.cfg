\* Three commands, the last of which asks a question, and three faults; one
\* connection, with packets of less and of more than the socket takes.
SPECIFICATION FairSpec
CONSTANTS
  MaxCmds = 3
  Asking <- LastAsks
  Retries = 3
  MaxFaults = 3
  c1 = c1
  u1 = u1
  Conn = {c1}
  User <- OneUser
  Local <- NoneLocal
  Addr = {a1}
  None = None
  Dummy = Dummy
  NFds = 5
  Buf = 2
  PipeCap = 2
  Sizes = {1, 2}
  ForkFails = TRUE
INVARIANT OnceWhenCalm
PROPERTIES OrderKept CallEnds GamesEnd HangUpNoticed QuietShutdownEnds
CHECK_DEADLOCK FALSE
