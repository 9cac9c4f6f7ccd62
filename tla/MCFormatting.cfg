\* Four texts of two commands, three of them started before any has connected.
SPECIFICATION FSpec
CONSTANTS
  Fields <- MCFields
  Jobs <- MCJobs
INVARIANTS HostIsOwn WrongByOthersOnly
CHECK_DEADLOCK FALSE
