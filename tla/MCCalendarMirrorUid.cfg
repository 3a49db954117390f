SPECIFICATION Spec
CONSTANTS
  c1 = c1
  h1 = h1
  h2 = h2
  u1 = u1
  u2 = u2
  Collections = {c1}
  Hrefs = {h1, h2}
  Home <- OneCalendar
  Uids = {u1, u2}
  Holds <- AnyUid
  Days = {1}
  Windows = {0}
  Levels = {0}
  Hideable = {}
  NoUid = NoUid
  NoCollection = NoCollection
  MaxClock = 5
  MaxFaults = 0
CHECK_DEADLOCK FALSE
SYMMETRY Symmetry
PROPERTIES
  DuplicateIsReal
