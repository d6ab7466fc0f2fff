SPECIFICATION Spec
CONSTANT NbVars = 3
CONSTANT Inputs <- MCInputs
CONSTANT Lines <- MCLines
CONSTANT MaxLines = 2
INVARIANTS LinesFollow RefusedNotRup SubsetsUnsat
PROPERTIES RefinesMus AllEnd
