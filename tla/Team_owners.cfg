\* Two owners leave, or demote each other, at once.
SPECIFICATION Spec
CONSTANTS
  Users = {u1, u2}
  Orgs = {o1}
  Handlers = {h1, h2}
  Nothing = nothing
  MaxInvites = 1
  MaxRequests = 5
SYMMETRY MCSymmetry
INVARIANTS AlwaysOwned
CHECK_DEADLOCK FALSE
