SPECIFICATION WFairSpec
CONSTANTS
  Keys = {h1}
  Hrefs = {h1}
  Bodies = {b1, b2}
  ETags <- MCETags
  Changes = {c1}
  Receipts = {r1}
  Reasons = {}
  Revisions = {1}
  Statuses = {200, 404, 503}
  Times = {}
  MaxOps = 2
  MaxAttempts = 3
  MaxRevisions = 4
  MaxForeign = 1
  MaxFaults = 1
  Serialisations <- Normalising
  Strengths = {TRUE, FALSE}
  Null = Null
CHECK_DEADLOCK FALSE
INVARIANTS
  NoLostUpdate
  AppliedIsStored
PROPERTIES
  KeepsPromise
  EveryWriteSettles
