CONSTANTS
  r1 = r1
  r2 = r2
  NoRun = NoRun
  MaxBacklog = 1
  Runs = {r1}
  IdOf <- OneRun
  Tasks <- ModelTasks

SPECIFICATION Spec
INVARIANT EveryModelCallIsRecorded
CHECK_DEADLOCK FALSE
