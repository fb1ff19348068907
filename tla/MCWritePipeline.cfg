SPECIFICATION FairSpec
CONSTANTS
  Users = {alice, bob}
  Writes = {w1, w2, w3}
  kMaxPendingWrites = 2
  MaxBreaks = 2
INVARIANTS
  TypeOK
  PipelineAgrees
  HandlersFindTheirRows
PROPERTIES
  ImplementsWriteQueue
  QueueDrains
