CONSTANTS
  MaxTasks = 4
  HZ = 2
  SleepDiv = 2
  SleepArgs <- MCSleepArgs
  QueueBound = 4
  Boot = Boot
  None = None
SPECIFICATION Spec
INVARIANTS TypeOK RunningIsCurrent UserRunsInOwnRoot
