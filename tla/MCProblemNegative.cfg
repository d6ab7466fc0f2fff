CONSTANTS
  NbVars = 6
  SmallUnique = 4
  Inputs <- Negative
SPECIFICATION Spec
INVARIANT LosesLeast
CHECK_DEADLOCK FALSE
