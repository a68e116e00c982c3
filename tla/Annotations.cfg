SPECIFICATION PutSpec
CONSTANTS
  u1 = u1
  u2 = u2
  k1 = k1
  k2 = k2
  a = a
  b = b
  Null = Null
  Absent = Absent
  Updaters = {u1, u2}
  AnnotationKeys = {k1, k2}
  Values = {a, b}
  MaxUpdates = 3
PROPERTIES
  UpdatesAndDeletesHold
