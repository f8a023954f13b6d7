SPECIFICATION Spec
CONSTANTS
  STAMBUFFERSOCKET = 2
  StreamLength = 3
  MaxKicks = 0
INVARIANT ClientSocketExists
CHECK_DEADLOCK FALSE
