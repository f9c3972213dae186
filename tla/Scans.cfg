SPECIFICATION ScansSpec
CONSTANTS
  x = x
  x2 = x2
  x3 = x3
  x4 = x4
  m = m
  m2 = m2
  light = light
  switch = switch
  d1 = d1
  d2 = d2
  NoHome = NoHome
  Absent = Absent
  Entities <- MCEntities
  Base <- MCBase
  Automations = {x, x2, x3, x4}
  Defined = {x, x2, x3, x4}
  Ignored = {}
  Marked = {m2}
  Protected = {light}
  Newer <- MCNewer
  Twin <- MCTwin
  Created <- MCCreated
  Homes = {d1, d2}
  Installations <- Scenes
  Views <- MCViews
  MaxOpen = 5
  a1 = a1
  s1 = s1
  s2 = s2
  Analyzers <- OneAnalyzer
  Subjects <- TwoSubjects
  Restless <- OneRestless
  Reviews <- SomeReviews
  Policies <- SomePolicies
  Decisions <- OneDecision
  NoFinding = NoFinding
  MaxDigest = 2
  MaxRevision = 2
  MaxTime = 1
  MaxChanges = 2
INVARIANTS
  FixedIsRetired
  RemovalIsProven
  LastReviewStands
  DecisionStands
PROPERTIES
  BlindScanKeeps
  
  SnoozeEndsSeen
CHECK_DEADLOCK FALSE
