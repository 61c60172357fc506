\* The allocation of employees to executions, with resubmissions,
\* external executors, failing statements and crashes.
SPECIFICATION OpenSpec
CONSTANTS
  t1 = t1
  t2 = t2
  t3 = t3
  e1 = e1
  e2 = e2
  NoOne = NoOne
  NoTask = NoTask
  Task = {t1, t2}
  Employee = {e1, e2}
  Run = {r1, r2}
  DependsOn <- Chain
  CanDo <- Specialist
  Nameable = {}
  Outsiders = {e1}
  Position <- RosterOrder
SYMMETRY Slots
INVARIANTS EmployeesAccounted InFlightExact
