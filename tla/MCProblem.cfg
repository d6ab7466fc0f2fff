CONSTANTS
  NbVars = 11
  SmallUnique = 2
  Inputs <- MCInputs
SPECIFICATION Spec
INVARIANTS Equivalent NothingToPropagate FormulaSolved LosesLeast
CHECK_DEADLOCK FALSE
