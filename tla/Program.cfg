SPECIFICATION ProgramSpec
CONSTANTS
  m1 = m1
  m2 = m2
  Managers = {m1, m2}
  JqLimit = 1
  AdminJqLimit = 1
  PipeSize = 1
  MaxAddresses = 1
  MaxEntries = 1
  MaxTasks = 1
  MaxPosts = 1
  Lines <- MCLines
  Arguments <- MCArguments
  MAX_CONFIG_LINES = 4
  FaultyFiles = {"relb.conf"}
INVARIANTS
  OnlyFullQueuesStop UsersEndFirst ConfiguredAsWritten
CHECK_DEADLOCK FALSE
