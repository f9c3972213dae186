SPECIFICATION FairSpec
CONSTANTS
  f1 = f1
  f2 = f2
  r1 = r1
  Files <- TwoFiles
  Repairs <- OneRepair
  MaxEdits = 1
  MaxRetained = 0
  MaxRunning = 2
  MaxMishaps = 3
  Absent = Absent
  Unreadable = Unreadable
  NoPlan = NoPlan
INVARIANTS
  TouchedIsAnnounced
  NeverReapplied
PROPERTIES
  InterruptedIsClassified
CHECK_DEADLOCK FALSE
