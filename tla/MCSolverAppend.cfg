CONSTANTS
  NbVars = 3
  InitNbMax = 10
  IncrNbMax = 1
  IncrPostpone = 1
  Problems <- Growing
  Appendable <- MCAppendable
  Assumable <- NoClauses
  MaxCalls = 2
  LbdWindow = 2
SPECIFICATION Spec
INVARIANTS PropagationComplete UnboundQueued RupInv
PROPERTIES RefinesService
