\* A Stop that overlaps the Start of its machine.
SPECIFICATION Spec
CONSTANTS
  Machines = {m1}
  Procs = {p1, p2}
  Starters = {p1, p2}
  Stoppers = {p1, p2}
  Deleters = {p1, p2}
  VMs = {v1, v2}
  None = None
  Overlap = TRUE
SYMMETRY Symmetry
INVARIANT StopFindsNoVM
