CONSTANTS
  DayUnits = 8
  HtStart = 2
  HtEnd = 7
  ShiftAt = 1
  TariffYears = {2025, 2026}
  LastYear = 2027
  Poll = 2
  Latency = 1
  Refresh = 3
  QueryTime = 1
  CompileTime = 1
SPECIFICATION Spec
INVARIANT MonthResets
