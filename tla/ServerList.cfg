SPECIFICATION Spec
CONSTANTS
  c1 = c1
  c2 = c2
  i1 = i1
  i2 = i2
  i3 = i3
  Clients = {c1, c2}
  Servers <- MCServers
  filter_list <- MCFilters
  Infos = {i1, i2, i3}
  MaxConnections = 3
  MaxOf <- MCMaxOf
  MaxTasks = 1
  MaxWithTasks = 2
  QueueSize = 2
INVARIANTS
  EntriesAreAllowed LiveIsListed EndedAreCounted
PROPERTIES
  OnlyEndedAreReplaced
CHECK_DEADLOCK FALSE
