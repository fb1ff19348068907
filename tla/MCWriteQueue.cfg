SPECIFICATION Spec
CONSTANTS
  Users = {alice, bob}
  Writes = {w1, w2, w3}
SYMMETRY Symmetry
INVARIANTS
  TypeOK
  PendingOnce
  NoGaps
  HandlersTellTheTruth
