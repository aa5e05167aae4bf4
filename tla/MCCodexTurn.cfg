SPECIFICATION TurnSpec
CONSTANTS
  turn1 = turn1
  turn2 = turn2
  manualRun = manualRun
  Runs = {turn1, turn2, manualRun}
  TurnRuns = {turn1, turn2}
  GivenRuns = {manualRun}
  Hooks = {h1, h2}
  Manuals = {m1}
  Calls <- MCCalls
  Events <- MCEvents
  HookEvents <- MCHookEvents
  ManualRun <- MCManualRun
  ManualEvent <- MCManualEvent
  FinishEvent <- MCFinishEvent
  AppendMayTear = FALSE
  NoCall = NoCall
  NoEvent = NoEvent
  NoRun = NoRun
  MaxActive = 1
  MaxFailures = 1
  MaxPromotions = 1
SYMMETRY HookSymmetry
INVARIANTS
  TurnTypeOK
  ManualCommandIsPaired
  AttachedCommandsLeaveTurnOpen
  PromotedBundleIsOneRun
PROPERTIES
  RuntimeSpec
CHECK_DEADLOCK FALSE
