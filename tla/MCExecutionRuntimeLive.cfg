SPECIFICATION FairSpec
CONSTANTS
  Runs = {"turn-1"}
  NoCall = NoCall
  NoEvent = NoEvent
  Calls = {c1, c2}
  Events <- MCEvents
  AppendMayTear = TRUE
PROPERTY CompletionIsReported
CHECK_DEADLOCK FALSE
