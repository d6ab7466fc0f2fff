SPECIFICATION Spec
CONSTANT NbVars = 4
CONSTANT Goals <- Losing
INVARIANT OptimumFound
