CONSTANTS
  NbVars = 3
  MaxActivity = 1
  MaxContent = 5
SPECIFICATION Spec
INVARIANT UnboundInHeap
