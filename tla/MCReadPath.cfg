SPECIFICATION LiveSpec
CONSTANTS
  Reads = {r1, r2}
  Queries = {article}
  Documents = {article}
  None = none
  MaxVersion = 2
  MaxBreaks = 1
  MaxRuleChanges = 1
CHECK_DEADLOCK FALSE
INVARIANTS
  TypeOK
  OutstandingIsOwed
  AnswersAreFresh
  ListenedIsWatched
  TrackerIsConsistent
PROPERTIES
  AnsweredOnce
  EveryReadIsAnswered
