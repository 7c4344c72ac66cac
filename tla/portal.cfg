SPECIFICATION PortalSpec

CONSTANTS
  t1 = t1
  c1 = c1
  g1 = g1
  g2 = g2
  d1 = d1
  d2 = d2
  o1 = o1
  o2 = o2
  o3 = o3
  f1 = f1
  f2 = f2
  s1 = s1
  s2 = s2
  dotenv = dotenv
  sealed = sealed
  secret = secret
  port = port
  v1 = v1
  v2 = v2
  Absent = Absent
  Broken = Broken
  None = None
  Bad = Bad
  Refused = Refused
  Mask = Mask
  Cut = Cut
  NoRow = NoRow
  NoManifest = NoManifest
  NoOne = NoOne

INVARIANTS
  SnapshotsAreSound
  AnswersAgree
  PortfolioIsTrue
  
  NothingIsLost


  

\* Clocks, versions and edits come to their bounds.
CHECK_DEADLOCK FALSE
