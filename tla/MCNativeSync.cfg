SPECIFICATION FairSpec
CONSTANTS
  Resources = {r1}
  Calendar = TRUE
  Outside = {r1}
  Findable = {r1}
  Modes = {"two-way", "one-way"}
  EarlySwitch = FALSE
  MaxClock = 5
  MaxFaults = 2
  NoStep = NoStep
INVARIANT NoDuplicate
PROPERTIES
  NoEditBuried
  Converges
