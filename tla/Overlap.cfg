\* Starts overlap one another, a Stop and a Delete of one machine, with fairness.
SPECIFICATION FairSpec
CONSTANTS
  Machines = {m1}
  Procs = {p1, p2}
  Starters = {p1, p2}
  Stoppers = {p2}
  Deleters = {p2}
  VMs = {v1, v2}
  None = None
  Overlap = TRUE
INVARIANTS
  TypeOK
  RegisteredIsMonitored
PROPERTIES
  CallsReturn
  TransientStatesSettle
  ExitedNetworkCloses
