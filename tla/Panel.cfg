SPECIFICATION PanelSpec
CONSTANTS
  f1 = f1
  f2 = f2
  f3 = f3
  review = review
  hide = hide
  make = make
  edit = edit
  drop = drop
  area = area
  inbound = inbound
  decide = decide
  clear = clear
  judge = judge
  TokenLimit = 1
  SeenLimit = 1
  MaxSends = 2
  MaxScans = 1
  MaxForeign = 1
  c1 = c1
  c2 = c2
  t1 = t1
  t2 = t2
  lan = lan
  lan2 = lan2
  cloud = cloud
  secret = secret
  Findings <- ThreeFindings
  Facts <- FactsOfFinding
  Confidence <- FullConfidence
  Commands <- TenCommands
  Request <- RequestOf
  Mixes <- SixMixes
  Clients <- TwoClients
  Tokens <- TwoTokens
  Hosts <- ThreeHosts
  HostKind <- KindOfHost
  PanelForms <- SavedForms
  FlowForms <- OptionsForms
  Nobody = Nobody
  NoHost = NoHost
  NoSecret = NoSecret
  Generated = Generated
  MaxSaves = 2
  MaxFailures = 1
SYMMETRY Either
INVARIANTS
  
  HostIsConsented
  
PROPERTIES
  ConfirmedOnly
  
CHECK_DEADLOCK FALSE
