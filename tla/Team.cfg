\* Three users, two orgs and two requests at a time.
SPECIFICATION Spec
CONSTANTS
  Users = {u1, u2, u3}
  Orgs = {o1, o2}
  Handlers = {h1, h2}
  Nothing = nothing
  MaxInvites = 2
  MaxRequests = 5
SYMMETRY MCSymmetry
INVARIANTS TypeOK OwnedUnlessRaced OneHomeUnlessTwice
PROPERTIES JoinsByPendingInvite
CHECK_DEADLOCK FALSE
