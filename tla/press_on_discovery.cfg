CONSTANTS
  c1 = c1
  Charts = {c1}
SPECIFICATION Spec
INVARIANT IssuedOnlyOnAppSocket
CHECK_DEADLOCK FALSE
