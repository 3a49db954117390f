SPECIFICATION Spec
CONSTANTS
  FirstLimit = 4
  NextLimit = 3
  Parts = 2
  MaxText = 4
  Refused = Refused
  None = None
  MaxEdits = 2
  Nil = Nil
  Texts = {"x"}
  First = First
  Second = Second
  Instants = {1, 2}
  Walls = {8}
  Span = 2
  Horizon = 1
  Probes = {0}
  Budget = 4
  DayLength = 24
  MaxOffset = 1
  Resources = {h1, h2}
  Kinds = {tel, email}
  MaxProperties = 2
  MaxSaves = 3
  NoHref = NoHref
  NoCard = NoCard
  Ids <- Graph
  Root = "root"
  Groups <- TwoGroups
  Structure <- Children
  Fixed <- Owner
  Opaque <- Unknown
  Ignored <- Stamp
  Absent = Absent
CHECK_DEADLOCK FALSE
INVARIANTS
  WireRoundTrip
  OrderIrrelevant
  FieldsAgreeWithRecord
  ShownAsSource
  IdentityKeepsItsRole
  ScopeIsHonest
