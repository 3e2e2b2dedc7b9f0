\* One default and one other job, two starts, one job added.
SPECIFICATION SchedulerSpec
CONSTANTS
  Jobs      = {j1, j2}
  Defaults  = {j1}
  MaxStarts = 2
  MaxAsks   = 1
INVARIANT SchedulesSurvive
\* A stopped scheduler that is not started again.
CHECK_DEADLOCK FALSE
