\* Four commands, one of each kind; one more attempt to stop; four seconds.
SPECIFICATION SFair
CONSTANTS
  None = None
  load = load
  server = server
  collect = collect
  late = late
  Commands <- MCCommands
  Order <- MCOrder
  Begin <- MCBegin
  MaxDur <- MCMaxDur
  StartAfter <- MCStartAfter
  StopAfter <- MCStopAfter
  Bg <- MCBg
  HasStop <- MCHasStop
  MaxStops = 1
  MaxTime = 4
INVARIANTS STypeOK PlanInOrder PreparedFirst StopsAreDue NothingLeftRunning CompleteUnlessHalted
PROPERTY RunEnds
CHECK_DEADLOCK FALSE
