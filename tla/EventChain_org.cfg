\* verify_chain without a session_id on an org with two intact sessions.
SPECIFICATION Spec
CONSTANTS
  Orgs = {orgA}
  SessionIds = {s1, s2}
  Events = {e1}
  AsStored <- MCStable
  Usages = {u1}
  Awaited <- MCAll
  Handlers = {h1}
  MaxSeq = 2
INVARIANTS OrgIntact
CHECK_DEADLOCK FALSE
