SPECIFICATION FairProgram
CONSTANTS
  m1 = m1
  m2 = m2
  Managers = {m1, m2}
  JqLimit = 1
  AdminJqLimit = 1
  PipeSize = 1
  MaxAddresses = 1
  MaxEntries = 2
  MaxTasks = 2
  MaxPosts = 2
  Lines <- FewLines
  Arguments <- FewArguments
  MAX_CONFIG_LINES = 3
  FaultyFiles = {"relb.conf"}
PROPERTIES
  ClientsAreServed ListComesRound StopEnds
CHECK_DEADLOCK FALSE
