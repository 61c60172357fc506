\* One plan and up to two executions of it, in either mode.
SPECIFICATION FairSpec
CONSTANTS
  Task = {t1}
  Run = {r1, r2}
  NItem = 2
  Shadow = {t1}
  KeyTool = {deploy}
  MaxAttempts = 2
  NoTask = NoTask
INVARIANTS StoredInOrder WorkedInOrder
PROPERTIES DoneIsKept DoneIsEarned PlanEnds
