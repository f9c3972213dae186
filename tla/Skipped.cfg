SPECIFICATION Spec
CONSTANTS
  x = x
  x2 = x2
  x3 = x3
  x4 = x4
  m = m
  m2 = m2
  light = light
  switch = switch
  d1 = d1
  d2 = d2
  NoHome = NoHome
  Absent = Absent
  Entities <- MCEntities
  Base <- MCBase
  Automations = {x, x2, x3, x4}
  Defined = {x, x2, x3, x4}
  Ignored = {}
  Marked = {m2}
  Protected = {light}
  Newer <- MCNewer
  Twin <- MCTwin
  Created <- MCCreated
  Homes = {d1, d2}
  Installations <- CrowdedOnly
  Views <- MCViews
  MaxOpen = 5
PROPERTIES
  SkippedIsKept
CHECK_DEADLOCK FALSE
