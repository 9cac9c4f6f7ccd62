\* Two commands of one program, the second with an argument of its own.
SPECIFICATION FSpec
CONSTANTS
  Fields <- MCFields
  Jobs <- TwoEchos
INVARIANT TextIsOwn
CHECK_DEADLOCK FALSE
