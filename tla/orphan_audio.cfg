CONSTANTS
  source = source
  sink = sink
  Source = source
  Sink = sink
  Offerers = {sink}
  Picture = FALSE
  Faults = {}
  Relinked = {}
  MaxOffers = 1
  MaxMishaps = 0
SPECIFICATION Spec
INVARIANTS NoOrphanCapture
CHECK_DEADLOCK FALSE
