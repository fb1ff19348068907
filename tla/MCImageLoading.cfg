SPECIFICATION FairSpec
CONSTANTS
  Views = {v1, v2}
  Urls = {u1}
  None = None
  Size = 2
  MaxConnections = 1
  MaxTasks = 4
CHECK_DEADLOCK FALSE
INVARIANTS
  TypeOK
  PictureFits
  CallbacksAreCurrent
  DownloadsAreWanted
  DecodedIsWhole
PROPERTIES
  EveryLoadEnds
