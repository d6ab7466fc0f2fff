CONSTANTS
  NbVars = 3
  SmallUnique = 4
  Inputs <- Losing
SPECIFICATION Spec
INVARIANT Equivalent
CHECK_DEADLOCK FALSE
