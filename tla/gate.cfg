\* Declarations, reviews and voids, with executions given up and crashes.
SPECIFICATION FairSpec
CONSTANTS
  Task = {t1, t2}
  Item = {i1}
  Run = {r1, r2}
  NoRun = NoRun
INVARIANTS ResolversAreWaiting ListIsTrue
PROPERTY DecisionIsReported
