\* Two sessions that may get the same descriptor number, one after the other.
SPECIFICATION Spec
CONSTANTS
  Sessions = {s1, s2}
  Fds = {d1}
  None = None
  Room = 1
INVARIANT OwnConnectionOnly
CHECK_DEADLOCK FALSE
