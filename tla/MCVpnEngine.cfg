SPECIFICATION Spec
CONSTANTS
  o1 = o1
  o2 = o2
  w1 = w1
  w2 = w2
  x1 = x1
  x2 = x2
  i1 = i1
  NoProfile = NoProfile
  Profile = {o1, o2, w1, w2, x1, x2, i1}
  ProtocolOf <- MCProtocolOf
  Caller = {c1, c2}
  MaxCalls = 2
  MaxTaps = 1
  MaxDeaths = 1
SYMMETRY Symmetry
INVARIANTS
  TypeOK
  UpIsShown
  RightRow
CHECK_DEADLOCK FALSE
