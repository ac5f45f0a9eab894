CONSTANTS
  Interval = 6
  Timeout = 3
  Jitter = 1
  Latency = 2
SPECIFICATION FairSpec
INVARIANTS
  DetectionBound
PROPERTIES
  NoFalseAlarm
  DeafIsClosed
