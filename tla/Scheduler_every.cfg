\* The docstring's "every session" on the same instance.
SPECIFICATION Spec
CONSTANTS
  o1 = o1
  o2 = o2
  s1 = s1
  s2 = s2
  Orgs = {o1, o2}
  SessionsOf <- TwoAndOne
  Fragile = {o1}
  Suspect <- OneSuspect
  PageLimit = 1
  Floor = 1
  Requested <- FloorOrLess
  MaxAge = 1
  MaxFaults = 1
PROPERTY EverySessionAudited
CHECK_DEADLOCK FALSE
