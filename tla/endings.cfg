SPECIFICATION EndingsSpec

CONSTANTS
  none = none
  listA = listA
  listA2 = listA2
  listB = listB
  yarn = yarn
  NoDate = NoDate
  Absent = Absent
  Torn = Torn
  NoHash = NoHash
  a1 = a1
  a2 = a2
  w1 = w1
  v1 = v1
  h1 = h1
  h2 = h2
  t1 = t1
  g1 = g1
  d1 = d1
  f1 = f1
  f2 = f2
  s1 = s1
  s2 = s2
  NoOne = NoOne
  Unset = Unset
  NoTable = NoTable
  NoRow = NoRow
  NoManifest = NoManifest
  Broken = Broken

PROPERTY
  EverythingEnds

\* Lines, changes and faults come to their bounds.
CHECK_DEADLOCK FALSE
