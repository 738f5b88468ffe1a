\* Two audits of an org, its plan changing under them, over the turn of a month, with a scheduled audit in each.
SPECIFICATION Spec
CONSTANTS
  Orgs = {o1}
  Threads = {t1, t2}
  Limit = 1
  MaxEvents = 2
  MaxAudits = 3
  MaxPeriods = 2
  MaxFaults = 1
  MaxScheduled = 1
SYMMETRY MCSymmetry
INVARIANTS TypeOK PaidPlanIsOnRecord PlanSettles PerksMatchPlan OverLimitByThreadsOnly SpendingIsCounted
CHECK_DEADLOCK FALSE
