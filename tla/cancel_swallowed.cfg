CONSTANTS
  c1 = c1
  Charts = {c1}
SPECIFICATION Spec
PROPERTY CancelEndsLoop
CHECK_DEADLOCK FALSE
