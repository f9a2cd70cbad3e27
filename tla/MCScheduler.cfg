CONSTANTS
  e1 = e1
  e2 = e2
  Scheduled = {e1, e2}
  MaxStarts = 2
SPECIFICATION SchedulerFairSpec
INVARIANTS OneWatchUnlessStopped
PROPERTIES  GoroutinesEnd
