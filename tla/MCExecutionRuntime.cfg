SPECIFICATION Spec
CONSTANTS
  Runs = {"turn-1"}
  NoCall = NoCall
  NoEvent = NoEvent
  Calls = {c1, c2, c3}
  Events <- MCEvents
  AppendMayTear = TRUE
SYMMETRY CallSymmetry
INVARIANTS
  GraphIsReplayOfPrefix
  ReportOnlyWhenComplete
  SoloCallRepairs
  IInv
PROPERTIES
  CompletionSticks
CHECK_DEADLOCK FALSE
