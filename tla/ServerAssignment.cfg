SPECIFICATION Spec
CONSTANTS
  c1 = c1
  Clients = {c1}
  ServerLists <- MCServerLists
  FilterLists <- MCFilterLists
PROPERTIES
  ChosenIsAllowed AssignedIfPossible UnavailableOnlyByTurn LightestIsChosen
CHECK_DEADLOCK FALSE
