\* Two orgs; the first has more sessions than a page, and its audits may raise.
SPECIFICATION Spec
CONSTANTS
  o1 = o1
  o2 = o2
  s1 = s1
  s2 = s2
  Orgs = {o1, o2}
  SessionsOf <- TwoAndOne
  Fragile = {o1}
  Suspect <- OneSuspect
  PageLimit = 1
  Floor = 1
  Requested <- FloorOrLess
  MaxAge = 1
  MaxFaults = 1
INVARIANTS TypeOK
PROPERTIES RanMeansAudited NewestGetAudited DormantUnlessPaid
CHECK_DEADLOCK FALSE
