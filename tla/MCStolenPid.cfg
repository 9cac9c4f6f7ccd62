\* As MCRemoteProcess.cfg: limits of 2 and 4 ticks, an interval of 3, two pieces of output, one of error.
SPECIFICATION PSpec
CONSTANTS
  NoValue = NoValue
  MaxDuration = 4
  MinDuration = 2
  CheckedRtn = 0
  Interval = 3
  Codes <- MCCodes
  MaxOut = 1
  MaxErr = 1
  MaxGarbled = 0
  MaxTime = 8
INVARIANT FirstLineIsPid
