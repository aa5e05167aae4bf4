SPECIFICATION Spec
CONSTANTS
  Vocabulary <- MCVocabulary
  MaxEvents = 5
INVARIANTS
  ReplayAgreesWithWalk
  EdgesAgreeWithWalk
  ConcurrentAppendsCommute
  CriticalPathIsLongest
PROPERTIES
  DuplicateDeliveryIsIgnored
CHECK_DEADLOCK FALSE
