\* One default and one other job, one start, nothing asked.
SPECIFICATION SchedulerSpec
CONSTANTS
  Jobs      = {j1, j2}
  Defaults  = {j1}
  MaxStarts = 1
  MaxAsks   = 0
INVARIANT FiresAsTask
\* A stopped scheduler that is not started again.
CHECK_DEADLOCK FALSE
