SPECIFICATION FairSpec
CONSTANTS
  p1 = p1
  p2 = p2
  Peers = {p1, p2}
  max_connections = 2
  PipeSize = 2
  MaxRequests = 1
  SelectErrors = {"EINTR", "EBADF"}
INVARIANTS
  ListsAreSound NothingLeaks NoLostWakeup
PROPERTIES
  AddedIsWatched RequestsAreHandled OverIsDeleted StopEnds
CHECK_DEADLOCK FALSE
