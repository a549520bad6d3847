\* Requests for one digest under two names; crashes, and RemoveAll may fail.
SPECIFICATION FairSpec
CONSTANTS
  Procs = {p1, p2, p3}
  Names = {alpine, mirror}
  Digests = {d1}
  None = None
INVARIANTS
  TypeOK
  PartialIsInFlight
PROPERTIES
  CompleteIsFinal
  FollowersGetTheImage
  RequestsAnswered
