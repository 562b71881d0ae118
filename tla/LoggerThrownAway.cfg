SPECIFICATION FairSpec
CONSTANTS
  Limit = 1
  MaxFileSize = 2
  MaxLines = 4
  MaxFaults = 2
  SecsPerDay = 2
  DaysPerMonth = 2
  MonthsPerYear = 2
  MaxTime = 8
PROPERTY ThrownAway
CHECK_DEADLOCK FALSE
