\* The documented board, implemented by the scheduler, and the dispatch of
\* what is ready: two independent tasks, one that waits for both.
SPECIFICATION FairCoreSpec
CONSTANTS
  t1 = t1
  t2 = t2
  t3 = t3
  e1 = e1
  e2 = e2
  NoOne = NoOne
  NoTask = NoTask
  Task = {t1, t2, t3}
  Employee = {e1, e2}
  Run = {r1, r2}
  DependsOn <- Diamond
  CanDo <- Anyone
  Nameable = {}
  Outsiders = {}
  Position <- RosterOrder
INVARIANT RowMatchesRun
PROPERTIES ImplementsBoard ReadyIsDispatched
