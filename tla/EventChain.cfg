\* Appends race freely on one tenant's session and are awaited on the other's; one
\* of three contents is reformatted by JSONB, so that two are told apart as stored.
SPECIFICATION Spec
CONSTANTS
  Orgs = {orgA, orgB}
  SessionIds = {s1}
  Events = {e1, e2, e3}
  AsStored <- MCOneReformatted
  Usages = {u1, u2}
  Awaited <- MCAllButOne
  Handlers = {h1, h2, h3}
  MaxSeq = 4
SYMMETRY MCSymmetry
INVARIANTS TypeOK Linked IntactUnlessRaced RaceIsVisible TamperEvident AwaitedIntact
PROPERTIES BrokenForGood ImplementsLedger
CHECK_DEADLOCK FALSE
