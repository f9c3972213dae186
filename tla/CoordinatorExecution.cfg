SPECIFICATION Spec
CONSTANTS
  p1 = p1
  p2 = p2
  a1 = a1
  a2 = a2
  e1 = e1
  e2 = e2
  e3 = e3
  r1 = r1
  r2 = r2
  t1 = t1
  t2 = t2
  t3 = t3
  lamp = lamp
  NoRecord = NoRecord
  Plans <- TwoPlans
  Targets <- MCTargets
  TargetOf <- MCTargetOf
  StepCount <- OneStep
  Reversible <- AllReversible
  PlanExpiry <- NeverExpires
  UndoExpiry <- NeverExpires
  Approvals <- TwoApprovals
  Executions <- TwoExecutions
  Rollbacks <- NoRollbacks
  Tokens <- TwoTokens
  Lease = 1
  ApprovalLease = 2
  MaxTokens = 2
  MaxExecutions = 1
  MaxRollbacks = 1
  AdapterResults <- AllResults
  MaxClock = 1
  MaxExhausted = 0
  MaxCrashes = 1
INVARIANTS
  ReturnedIsRecorded
  LeaseExclusion
CHECK_DEADLOCK FALSE
