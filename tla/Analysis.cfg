SPECIFICATION FairAnalysisSpec
CONSTANTS
  f1 = f1
  f2 = f2
  f3 = f3
  g1 = g1
  g2 = g2
  c1 = c1
  c2 = c2
  None = None
  All = All
  Findings <- TwoFindings
  GroupOf <- TwoGroups
  Incidents <- OneIncident
  Configs <- TwoConfigs
  First = c1
  Manners <- TwoModels
  MaxGroups = 2
  MaxContent = 2
  MaxScans = 2
  MaxFaults = 1
  MaxReloads = 1
  MaxProbes = 1
  MaxTargeted = 1

  
PROPERTIES
  SavedOnSameEvidence
  
CHECK_DEADLOCK FALSE
