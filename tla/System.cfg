SPECIFICATION SystemSpec
CONSTANTS
  p1 = p1
  a1 = a1
  e1 = e1
  a2 = a2
  r1 = r1
  t1 = t1
  t2 = t2
  c1 = c1
  c2 = c2
  c3 = c3
  lamp = lamp
  NoRecord = NoRecord
  Plans <- MCPlans
  Targets <- MCTargets
  TargetOf <- MCTargetOf
  StepCount <- MCStepCount
  Reversible <- MCReversible
  PlanExpiry <- MCPlanExpiry
  UndoExpiry <- MCUndoExpiry
  Approvals <- MCApprovals
  Executions <- OneExecution
  Rollbacks <- OneRollback
  Tokens <- TwoTokens
  Clients <- TwoClients
  ApprovalOf <- MCApprovalOf
  Lease = 1
  ApprovalLease = 1
  MaxTokens = 2
  MaxExecutions = 1
  MaxRollbacks = 1
  AdapterResults <- OnlyOk
  MaxClock = 1
  MaxExhausted = 1
  MaxCrashes = 1
  MaxSnooze = 1
  MaxAudits = 2
  Horizon = 1
SYMMETRY AnyOrder
INVARIANTS
  AuthorisedExecution
  SnoozedOnce
PROPERTIES
  ImplementsApprovalLedger
CHECK_DEADLOCK FALSE
