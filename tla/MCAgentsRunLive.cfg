CONSTANTS
  r1 = r1
  r2 = r2
  NoRun = NoRun
  Runs = {r1}
  IdOf <- OneRun
  Tasks <- CallTasks
  MaxBacklog = 2

SPECIFICATION FairSpec
INVARIANTS EventsTellTheNodes SettledRunsAreRecorded
PROPERTIES EndedNodesStay RunsSettle
CHECK_DEADLOCK FALSE
