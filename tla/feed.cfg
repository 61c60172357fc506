\* Two events of one employee, one stored behind the cursor; two employees to
\* choose from; two fetches at a time.
SPECIFICATION Spec
CONSTANTS
  x1 = x1
  x2 = x2
  e1 = e1
  Events <- Stamped
  Employee = {e1, e2}
  MaxGets = 2
  NoOne = NoOne
  NoTs = NoTs
CHECK_DEADLOCK FALSE
INVARIANT ShownOnce
PROPERTIES LateEventArrives ViewIsComplete
