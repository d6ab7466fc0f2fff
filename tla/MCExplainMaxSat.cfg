SPECIFICATION Spec
CONSTANT NbVars = 3
CONSTANT Inputs <- PairsOnly
CONSTANT Lines <- MCLines
CONSTANT MaxLines = 2
INVARIANT MaxSatMinimal
