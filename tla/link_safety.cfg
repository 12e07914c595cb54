CONSTANTS
  source = source
  sink = sink
  Source = source
  Sink = sink
  Offerers = {sink}
  Picture = TRUE
  Faults = {"sendfail", "reorder", "reboot", "reset", "reoffer", "lapse"}
  Relinked = {sink}
  MaxOffers = 2
  MaxMishaps = 1
  Room = 1
  KeyedEntries = TRUE
  MaxLag = 0
  MaxSnags = 0
  Dials = {1, 2}
  OnWire = 2
SPECIFICATION MCSafety
INVARIANTS LinkShapesOK NoOrphanCapture LiveRouteStreams NoSecondStart OnlyOpenDialsWait KvmAwaitsTechnician WaitingDialIsDriven
PROPERTIES ImplementsLease
CHECK_DEADLOCK FALSE
