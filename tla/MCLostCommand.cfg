\* A server stopped after the load, and a command later in the plan.
SPECIFICATION SSpec
CONSTANTS
  None = None
  load = load
  server = server
  collect = collect
  late = late
  Commands <- ThreeCommands
  Order <- ThreeOrder
  Begin <- ThreeBegin
  MaxDur <- ThreeNone
  StartAfter <- ThreeNone
  StopAfter <- ThreeStopAfter
  Bg = {}
  HasStop = {server}
  MaxStops = 1
  MaxTime = 4
INVARIANT CompleteUnlessHalted
CHECK_DEADLOCK FALSE
