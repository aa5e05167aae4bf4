SPECIFICATION Spec
CONSTANTS
  Keys <- MCKeys
  Objects = {o1, o2}
  Values = {"right", "wrong"}
  Schemas = {"v1", "v2"}
  CreatedAt = 2
  ExpiresAt = 4
  MaxEntries = 1
  Nothing = Nothing
  Calls = {c1, c2}
  Evidence <- MCEvidence
  Codecs <- MCCodecs
  Contracts = {{"right", "wrong"}, {}}
  Freshnesses <- MCFreshnesses
  Times <- MCTimes
SYMMETRY MCSymmetry
INVARIANTS
  TypeOK
  WithinLimits
  ReusedOnlyWhenJustified
  ExecutesExactlyOnce
  RefusedIsForgotten
PROPERTIES
  PromisedSpec
CHECK_DEADLOCK FALSE
