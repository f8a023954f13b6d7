SPECIFICATION Spec
CONSTANTS
  Precision = 2
  Minimum = 6
  Maximum = 10
  IntMax = 500
  Lines <- MCLines
  MaxTasks = 3
  MaxTime = 14
INVARIANTS FixedTimeKeepsPhase OnTime
PROPERTIES RoundRunsAllDue
