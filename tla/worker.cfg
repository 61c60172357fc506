\* One task, executed twice by workers that may overlap.
SPECIFICATION Spec
CONSTANTS
  Exec = {x1, x2}
  Connects = {x2}
  MaxAsks = 1
  None = None
CHECK_DEADLOCK FALSE
INVARIANT RequestIsInOnePlace
PROPERTIES CallEnds WorkerIsGone
