SPECIFICATION Spec
CONSTANTS
  Keys = {k1, k2}
  Hrefs = {h1}
  Bodies = {b1}
  ETags = {e1}
  Changes = {c1, c2}
  Receipts = {r1}
  Reasons = {why}
  Revisions = {1}
  Statuses = {200, 404}
  Times = {0}
  MaxOps = 2
  MaxAttempts = 1
  Null = Null
SYMMETRY Symmetry
INVARIANTS
  OneUnresolvedWrite
  ResolutionsPinned
  CheckpointBeforeAcknowledge
PROPERTY
  JournalIsHistory
