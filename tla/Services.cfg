SPECIFICATION Spec
CONSTANTS
  Workers = {w1, w2, w3}
  Sizes = {1, 2}
  Clients = {c1, c2}
  Tasks = {t1, t2}
  MaxControls = 3
  Descriptors = {0, 1, 2}
  MaxStarts = 2
  Timeout = 3
CHECK_DEADLOCK FALSE
INVARIANTS
  TypeOK
  ClosesOnlyItsOwn
  StopLeavesNothing
  NoChildLeft
PROPERTIES
  WaitAllMeansDone
  AcceptedTasksRun
  PoolCallsReturn
  StopReturns
  HookReturns
