SPECIFICATION Spec
CONSTANT NbVars = 3
CONSTANT Goals <- MCGoals
INVARIANTS OnlyCheaperLeft ResultsDelivered
PROPERTIES RefinesOptimum Returns
