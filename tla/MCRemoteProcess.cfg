\* Limits of 2 and 4 ticks, an interval of 3, three pieces of output, one of error, two not text.
SPECIFICATION PFair
CONSTANTS
  NoValue = NoValue
  MaxDuration = 4
  MinDuration = 2
  CheckedRtn = 0
  Interval = 3
  Codes <- MCCodes
  MaxOut = 2
  MaxErr = 1
  MaxGarbled = 2
  MaxTime = 8
INVARIANTS EndsAfterProgram VerdictIsRight
PROPERTIES SeenAsJob MonitorEnds
