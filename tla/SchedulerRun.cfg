SPECIFICATION SchedulerSpec
CONSTANT MaxStarts = 4
INVARIANT LiveIsStoppable
PROPERTY StoppedReturns
CHECK_DEADLOCK FALSE
