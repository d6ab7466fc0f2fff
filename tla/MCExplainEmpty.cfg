SPECIFICATION Spec
CONSTANT NbVars = 3
CONSTANT Inputs <- PossibleOnly
CONSTANT Lines <- MCLines
CONSTANT MaxLines = 2
INVARIANT ValidMeansUnsat
