\* SIGTERM at any time, with a client's Start and another client's Stop or
\* Delete of the same machine under way or still arriving.
SPECIFICATION FairServerSpec
CONSTANTS
  Machines = {m1}
  Procs = {p1, p2, main}
  Main = main
  Starters = {p1}
  Stoppers = {p2}
  Deleters = {p2}
  VMs = {v1, v2}
  None = None
  Overlap = FALSE
INVARIANT UndisturbedExitLeavesNoVM
PROPERTY ShutdownCompletes
CHECK_DEADLOCK FALSE
