CONSTANTS
  Charts = {}
  plain = plain
  timed = timed
  v1 = v1
  v2 = v2
  Entities = {plain, timed}
  OwnTimers = {timed}
  Values = {v1, v2}
SPECIFICATION IntegrationSpec
INVARIANT NoStaleNumbers
CHECK_DEADLOCK FALSE
