\* Two audits of one session wait for the same lock.
SPECIFICATION Spec
CONSTANTS
  Auditors = {a1, a2}
  Sessions = {s1}
  LockKeys = {s1}
  LockKeyOf <- MCOwnKey
  Rules = {r1}
  PoolSize = 3
  Nobody = nobody
  MaxCalls = 2
  MaxCrashes = 0
  MaxLosses = 0
INVARIANTS TribunalOnce
CHECK_DEADLOCK FALSE
