\* Overlapping refreshes, executions and administration.
SPECIFICATION FairSpec
CONSTANTS
  Employee = {e1, e2}
  Call = {c1, c2}
  MaxWork = 2
INVARIANT OccupationSurvives
PROPERTY EditsTakeEffect
