\* Two calls open at a time, on every page.
SPECIFICATION Spec
CONSTANTS
  Slots <- TwoSlots
  Users = {"u1", "u2"}
  PageSize = 1
  Clamp = 2
  MaxLimit = 3
  MaxSessions = 3
  SessionIds = {"s1", "s2"}
  KeyIds = {"k1", "k2"}
  ApiKey = "k1"
  Frameworks = {"eu_ai_act", "iso_42001"}
  RuleIds = {"r1"}
  Urls = {"url1"}
  Minutes = {5, 60}
  Self = "me"
  Members = {"me", "you"}
  Emails = {"e1"}
  Ranges = {7, 30}
INVARIANTS ConsoleTypeOK ShownIsStored FailureIsShown BusyIsHonest ViewIsOfSession ListIsComplete
INVARIANTS RevokedIsSilent AckMeansRecorded TokenHasWorkspace SaysWhatHappened
 
