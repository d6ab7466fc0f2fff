CONSTANTS
  NbVars = 6
  SmallUnique = 4
  Inputs <- Nested
SPECIFICATION Spec
INVARIANT FormulaSolved
CHECK_DEADLOCK FALSE
