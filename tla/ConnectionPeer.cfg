SPECIFICATION FairSpec
CONSTANTS
  STAMBUFFERSOCKET = 2
  StreamLength = 4
  MaxKicks = 1
INVARIANTS
  BufferAccounting RelayedInOrder NothingMissing EndIsAnnounced
PROPERTIES
  FlushedBeforeClose ImplementsRelay ImplementsLife StreamIsRelayed HalfOpenEnds
CHECK_DEADLOCK FALSE
