\* One session, from every beginning to every end.
SPECIFICATION FairSpec
CONSTANTS
  Sessions = {s1}
  Fds = {d1}
  None = None
  Room = 2
INVARIANTS
  TypeOK
  OutputIsComplete
  NothingIsLeft
PROPERTIES
  ClientHearsTheEnd
  LeavingHangsUp
CHECK_DEADLOCK FALSE
