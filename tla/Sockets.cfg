\* Two runs of a machine: a network that outlives the first meets the second.
\* All stops when the runs are used up.
SPECIFICATION FairSpec
CONSTANTS
  Runs = {r1, r2}
  None = None
INVARIANTS
  BootFindsItsSockets
  NoNetworkLingers
  UpHasItsSockets
PROPERTY CloseEndsGoroutine
CHECK_DEADLOCK FALSE
