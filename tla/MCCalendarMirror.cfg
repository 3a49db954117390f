SPECIFICATION Spec
CONSTANTS
  c1 = c1
  h1 = h1
  h2 = h2
  u1 = u1
  u2 = u2
  Collections = {c1}
  Hrefs = {h1, h2}
  Home <- OneCalendar
  Uids = {u1, u2}
  Holds <- AnyUid
  Days = {1}
  Windows = {0, 2}
  Levels = {1}
  Hideable = {c1}
  NoUid = NoUid
  NoCollection = NoCollection
  MaxClock = 4
  MaxFaults = 1
CHECK_DEADLOCK FALSE
SYMMETRY Symmetry
INVARIANT
  NoMissedChange
PROPERTIES
  AbsenceIsReal
  IdentityKept
