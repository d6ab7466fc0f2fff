CONSTANTS
  NbVars = 5
  InitNbMax = 2
  IncrNbMax = 1
  IncrPostpone = 1
  Problems <- SearchProblems
  Appendable <- NoClauses
  Assumable <- NoClauses
  MaxCalls = 0
  LbdWindow = 2
SPECIFICATION FairSpec
INVARIANTS Inv UnsatSound SatSound ReasonsAlive WatchListsAgree AnalysisOK LearnedClauseAsserts
PROPERTIES CertificateIsRup CallsReturn
