SPECIFICATION Spec
CONSTANTS
  Workers = {w1, w2}
  Names <- TwoNames
  Profiles = {p1, p2}
  Challenging = {p1}
  Filtering = {p2}
  Passwords = {old, new}
  caller = caller
  stranger = stranger
  proxy = proxy
  Caller = caller
  Headers <- SomeHeaders
  Allowed = {caller, proxy}
  Proxies = {proxy}
  Blank = Blank
  Garbage = Garbage
  MaxHops = 2
  MaxAttempts = 1
  MaxKeys = 3
  MaxCalls = 3
  None = None
  Absent = Absent
  Empty = Empty
  Torn = Torn
SYMMETRY PanelSymmetry
INVARIANT DefaultKept
INVARIANT SecretsReadable
INVARIANT FilesFollowRows
INVARIANT LaunchedAsResolved
INVARIANT GuessesBounded
PROPERTY RekeyWhole
PROPERTY InUseKept
CHECK_DEADLOCK FALSE
