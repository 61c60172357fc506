\* A bus with two events, one append past it that may repeat the id of the
\* first, either driver, one interference from outside.
SPECIFICATION Spec
CONSTANTS
  MaxEmits = 2
  Direct = {d1}
  Ids = {i1, 1}
  Verifiers = {v1}
  MaxTries = 2
  MaxHeads = 1
  None = None
CHECK_DEADLOCK FALSE
INVARIANTS ChainIsSound TrailIsFaithful DamageIsFound
PROPERTY EveryAppendEnds
