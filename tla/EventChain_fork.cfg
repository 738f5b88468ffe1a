\* Two appends on one chain at once: the chain of an org nobody tampered with breaks.
SPECIFICATION Spec
CONSTANTS
  Orgs = {orgA}
  SessionIds = {s1}
  Events = {e1}
  AsStored <- MCStable
  Usages = {u1}
  Awaited <- MCNone
  Handlers = {h1, h2}
  MaxSeq = 2
INVARIANTS ChainIntact
CHECK_DEADLOCK FALSE
