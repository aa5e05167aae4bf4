SPECIFICATION Spec
CONSTANTS
  Vocabulary <- MCVocabulary
  MaxEvents = 3
CHECK_DEADLOCK FALSE
INVARIANT ParallelPairsAreUnordered
