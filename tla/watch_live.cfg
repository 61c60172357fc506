\* The watchdog fails an execution that never returns.
SPECIFICATION FairWatchSpec
CONSTANTS
  t1 = t1
  t2 = t2
  t3 = t3
  e1 = e1
  e2 = e2
  NoOne = NoOne
  NoTask = NoTask
  Task = {t1}
  Employee = {e1}
  Run = {r1, r2}
  DependsOn <- Independent
  CanDo <- Anyone
  Nameable = {e1}
  Outsiders = {}
  Position <- RosterOrder
PROPERTY HungIsReaped
