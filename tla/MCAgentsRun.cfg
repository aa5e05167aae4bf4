CONSTANTS
  r1 = r1
  r2 = r2
  NoRun = NoRun
  Runs = {r1, r2}
  IdOf <- SharedId
  Tasks <- SharedTasks
  MaxBacklog = 1

SPECIFICATION Spec
INVARIANTS TypeOK FailureClosesNodes SettledRunsAreRecorded
CHECK_DEADLOCK FALSE
