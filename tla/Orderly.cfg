\* A Start overlaps nothing; Stops and Deletes overlap one another.
SPECIFICATION FairSpec
CONSTANTS
  Machines = {m1}
  Procs = {p1, p2}
  Starters = {p1, p2}
  Stoppers = {p1, p2}
  Deleters = {p1, p2}
  VMs = {v1, v2}
  None = None
  Overlap = FALSE
INVARIANTS
  OneChildNoneAtRest
  RootfsOutlivesChild
  NetworkClosedFirst
PROPERTY Implements
