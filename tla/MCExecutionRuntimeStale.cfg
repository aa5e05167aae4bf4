SPECIFICATION Spec
CONSTANTS
  Runs = {"turn-1"}
  NoCall = NoCall
  NoEvent = NoEvent
  Calls = {c1, c2, c3}
  Events <- MCEvents
  AppendMayTear = FALSE
SYMMETRY CallSymmetry
INVARIANT QuiescentGraphIsReplay
CHECK_DEADLOCK FALSE
