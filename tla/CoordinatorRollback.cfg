SPECIFICATION FairSpec
CONSTANTS
  p1 = p1
  p2 = p2
  a1 = a1
  a2 = a2
  e1 = e1
  e2 = e2
  e3 = e3
  r1 = r1
  r2 = r2
  t1 = t1
  t2 = t2
  t3 = t3
  lamp = lamp
  NoRecord = NoRecord
  Plans <- OnePlan
  Targets <- MCTargets
  TargetOf <- MCTargetOf
  StepCount <- TwoSteps
  Reversible <- AllReversible
  PlanExpiry <- NeverExpires
  UndoExpiry <- NeverExpires
  Approvals <- OneApproval
  Executions <- OneExecution
  Rollbacks <- TwoRollbacks
  Tokens <- TwoTokens
  Lease = 1
  ApprovalLease = 2
  MaxTokens = 1
  MaxExecutions = 3
  MaxRollbacks = 2
  AdapterResults <- OkOrFail
  MaxClock = 2
  MaxExhausted = 1
  MaxCrashes = 1
INVARIANTS
  SingleRollback
  RecordsAreTrue
  ReplayWindow
PROPERTIES
  EveryCallAnswered
CHECK_DEADLOCK FALSE
