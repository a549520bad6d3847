\* One Stop of a VM whose command need not obey, and two orphans.
SPECIFICATION FairSpec
CONSTANTS
  Calls = {c1}
  Orphans = {o1, o2}
INVARIANTS
  TypeOK
  StopEndsChild
  PowerOffIsDurable
PROPERTIES
  KeepsPromise
  ShutdownEndsVM
  CommandEndEndsVM
  OrphansAreReaped
CHECK_DEADLOCK FALSE
