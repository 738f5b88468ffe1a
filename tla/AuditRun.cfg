\* Two audits and a pool of two: each can hold one connection and wait for another.
SPECIFICATION Spec
CONSTANTS
  Auditors = {a1, a2}
  Sessions = {s1, s2}
  LockKeys = {s1, s2}
  LockKeyOf <- MCOwnKey
  Rules = {r1, r2}
  PoolSize = 2
  Nobody = nobody
  MaxCalls = 3
  MaxCrashes = 1
  MaxLosses = 1
INVARIANTS TypeOK OneInside OneRunPerSession NotifiedOnce NotifiesWhatIsStored
PROPERTIES VerdictsStand AuditEnds
CHECK_DEADLOCK FALSE
