SPECIFICATION FairSpec
CONSTANTS
  Accounts = {alice}
  SignedOut = signedOut
  None = none
  Requests = {r1, r2, r3, r4}
  MaxSerial = 2
  MaxDrops = 1
INVARIANTS
  TypeOK
  TokenNamesItsOwner
  StreamSpeaksForCurrent
  StartsWithItsToken
PROPERTIES
  FollowsAuth
  WritesGoOut
