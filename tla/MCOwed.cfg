SPECIFICATION Spec
CONSTANTS
  Reads = {r1, r2}
  Queries = {article}
  Documents = {article}
  None = none
  MaxVersion = 1
  MaxBreaks = 0
  MaxRuleChanges = 0
INVARIANTS
  OutstandingIsAlwaysOwed
CHECK_DEADLOCK FALSE
