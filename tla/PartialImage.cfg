\* One image, two requests.
SPECIFICATION Spec
CONSTANTS
  Procs = {p1, p2}
  Names = {alpine}
  Digests = {d1}
  None = None
INVARIANT MachinesGetWholeImages
