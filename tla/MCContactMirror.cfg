SPECIFICATION FairSpec
CONSTANTS
  c1 = c1
  Collections = {c1}
  Hrefs = {h1, h2}
  Home <- OneBook
  Cycling = TRUE
  NoCollection = NoCollection
  MaxClock = 4
  MaxFaults = 1
CHECK_DEADLOCK FALSE
INVARIANTS
  NoMissedChange
  BaseIsHonest
PROPERTIES
  AbsenceIsReal
  Converges
  FetchEnds
