SPECIFICATION Spec
CONSTANTS
  n8n = n8n
  Connectors <- MCConnectors
  Documents <- MCDocuments
  MaxSetups = 2
  MaxTampers = 1
  MaxCommits = 3
  MaxFaults = 1
INVARIANTS
  CorruptIsKept
  
PROPERTIES
  MigrationIsReversible
CHECK_DEADLOCK FALSE
