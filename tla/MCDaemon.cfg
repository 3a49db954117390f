SPECIFICATION Spec
CONSTANTS
  Services = {"Contacts", "Calendars"}
  TwoWay = {"Calendars"}
  Ops = {o1}
  Roots = {}
  MaxQueryFaults = 1
  Calendars = {c1, c2}
  MaxMarkers = 3
  MaxCreateFaults = 3
  MaxDeletes = 2
  Addresses = {a1, a2, a3}
  Home = a1
  MaxClock = 4
  MaxMoveFaults = 1
  None = None
CHECK_DEADLOCK FALSE
INVARIANTS
  GreenIsTrue
  OneRemoteCalendar
PROPERTIES
  PlacementKept
  MoveSettles
