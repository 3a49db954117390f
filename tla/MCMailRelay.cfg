SPECIFICATION FairSpec
CONSTANTS
  Capacity = 2
  ResponseLimit = 3
  Buffer = 2
  MaxCommands = 2
  MaxReplies = 3
INVARIANTS CleanUpgrade InOrder
PROPERTY CommandsMove
