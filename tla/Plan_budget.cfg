\* All that an org's audits spend on the hosted key in a month, the scheduler's too.
SPECIFICATION Spec
CONSTANTS
  Orgs = {o1}
  Threads = {t1}
  Limit = 1
  MaxEvents = 1
  MaxAudits = 1
  MaxPeriods = 1
  MaxFaults = 0
  MaxScheduled = 2
INVARIANT HostedSpendingBounded
CHECK_DEADLOCK FALSE
