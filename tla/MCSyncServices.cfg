SPECIFICATION FairSpec
CONSTANTS
  Resources = {r1, r2}
  MaxClock = 4
  MaxFaults = 1
  NoResource = NoResource
PROPERTIES
  NoEditBuried
  ComesToRest
