\* Everything at once, for one task id: resubmission, external executors,
\* watchdog, forced reset, crashes.
SPECIFICATION Spec
CONSTANTS
  t1 = t1
  t2 = t2
  t3 = t3
  e1 = e1
  e2 = e2
  NoOne = NoOne
  NoTask = NoTask
  Task = {t1}
  Employee = {e1}
  Run = {r1, r2}
  DependsOn <- Independent
  CanDo <- Anyone
  Nameable = {}
  Outsiders = {e1}
  Position <- RosterOrder
SYMMETRY Slots
INVARIANTS TypeOK MarkedNotInFlight
