SPECIFICATION AdminSpec
CONSTANTS
  c1 = c1
  c2 = c2
  i1 = i1
  i2 = i2
  Clients = {c1}
  Servers <- MCServers
  filter_list <- MCFilters
  Infos = {i1, i2}
  MaxConnections = 2
  MaxOf <- MCMaxOf
  MaxTasks = 1
  MaxWithTasks = 2
  QueueSize = 2
  Requests = {"PEER_CONNECTION_KICKED", "PEER_CONNECTION_BAN_THIS"}
  MaxRequests = 1
  AdminQueueSize = 2
INVARIANTS
  LiveIsShown StatusIsMirrored ShownIsListed EntriesAreSound EndedIsMarked
PROPERTY RequestsMeetTheListed
CHECK_DEADLOCK FALSE
