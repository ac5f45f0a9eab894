CONSTANTS
  Initial = 1
  Base = 2
  Cap = 16
  Jitter = 30
  StepTimeout = 8
  Threshold = 16
SPECIFICATION Spec
INVARIANTS
  TypeOK
  AttemptsAreSpaced
  DelayWithinOutage
  NeverSilent
