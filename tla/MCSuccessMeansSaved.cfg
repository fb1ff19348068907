SPECIFICATION Spec
CONSTANTS
  Accounts = {ann, bea}
  SignedOut = SignedOut
  Articles = {a1}
  Screens = {s1, s2, s3, s4, s5, s6}
  Texts = {t1}
  Empty = Empty
  None = None
  MaxDepth = 4
  MaxDrops = 0
INVARIANTS
  SuccessMeansSaved
