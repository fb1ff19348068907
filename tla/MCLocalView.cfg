SPECIFICATION Spec
CONSTANTS
  Users = {ann, bea}
  Articles = {a1}
  None = None
  MaxVersion = 6
SYMMETRY Symmetry
INVARIANTS
  TypeOK
  WatchHasTheLastWord
  PublishedIsVisible
  ViewIsEarned
PROPERTIES
  NothingFlickers
