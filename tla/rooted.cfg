SPECIFICATION Spec
CONSTANTS
  Workers = {w1, w2}
  good = good
  bad = bad
  Domains <- OneDomain
  Addresses <- TwoAddresses
  Foreign = {}
  MaxLines = 3
  Disliked = {bad}
  Legacies <- OneLegacy
  MaxRules = 3
  MaxCopies = 2
  MaxRequests = 2
  MaxEvents = 1
  None = None
  Absent = Absent
  Empty = Empty
  Torn = Torn
  Stopped = Stopped
  Failed = Failed
SYMMETRY RootedSymmetry
INVARIANT AnswerKept
INVARIANT NeverExposed
INVARIANT AppliedWhole
INVARIANT ResolverSurvives
INVARIANT RulesDistinct
INVARIANT FileWhole
CHECK_DEADLOCK FALSE
