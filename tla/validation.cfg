CONSTANTS
  c1 = c1
  Charts = {c1}
SPECIFICATION FairFlowSpec
INVARIANTS
  FlowTypeOK
  BootstrapWins
  AcceptedIsBootstrapped
  VerdictLeavesNothing
  ErrorNamesCause
PROPERTY ValidationAnswers
CHECK_DEADLOCK FALSE
