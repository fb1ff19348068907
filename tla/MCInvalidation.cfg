SPECIFICATION Spec
CONSTANTS
  Accounts = {alice, bob}
  SignedOut = signedOut
  None = none
  Requests = {r1, r2, r3, r4, r5}
  MaxSerial = 2
  MaxDrops = 0
SYMMETRY Symmetry
INVARIANTS
  InvalidationReachesGetToken
