CONSTANTS
  c1 = c1
  c2 = c2
  Charts = {c1, c2}
SPECIFICATION FairSpec
INVARIANTS
  TypeOK
  TasksOnlyOnAppSocket
  NoOrphanSocket
  OneFrameAfterClose
  PhaseRestsOnMarker
PROPERTIES
  ImplementsLifecycle
  StopEnds
  LostConnectionRedials
  ChartsAreAsked
CHECK_DEADLOCK FALSE
