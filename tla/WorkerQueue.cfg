SPECIFICATION FairSpec
CONSTANTS
  Requests = {r1, r2, r3}
  Workers = {w1, w2}
  Capacity = 1
CHECK_DEADLOCK FALSE
INVARIANTS
  QueueTypeOK
  NoSendOnClosed
  TasksConserved
  StopDrains
PROPERTIES
  AcceptedTasksRun
  StopReturns
