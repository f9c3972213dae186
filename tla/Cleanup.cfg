SPECIFICATION Spec
CONSTANTS
  d1 = d1
  d2 = d2
  m1 = m1
  b1 = b1
  b2 = b2
  Entities <- MCEntities
  CategoryOf <- MCCategory
  Excluded <- NoEntity
  Background <- MCBackground
  Modes <- MCModes
  MaxChanges = 1
  MaxDecisions = 1
  MaxAttempts = 2
  SummaryFits = 3
  RestoreFails = FALSE
SYMMETRY AnyOrder

  
PROPERTIES
  AutoDisabledIsSafe
  RollbackRestores
CHECK_DEADLOCK FALSE
