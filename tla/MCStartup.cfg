\* Up to four requests, two types drawn out of three, four source ports.
SPECIFICATION USpec
CONSTANTS
  Rates <- MCRates
  Durations <- MCDurations
  Flows <- MCFlows
  Sizes <- MCSizes
  Seeds = {other}
  Ratios <- MCRatios
  Types = 2
  Builds <- MCBuilds
  Texts <- MCTexts
  NameLen <- MCNameLen
  RespSize = 32
  Scale = 3
  Ports = 4
  MinSize = 2
  DefaultSeed = default
  LibcSeed = libc
  NoSeed = NoSeed
INVARIANTS UTypeOK LaunchIsSound
CHECK_DEADLOCK FALSE
