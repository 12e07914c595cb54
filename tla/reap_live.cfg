CONSTANTS
  source = source
  sink = sink
  Source = source
  Sink = sink
  Offerers = {sink}
  Picture = TRUE
  Faults = {"reset"}
  Relinked = {}
  MaxOffers = 1
  MaxMishaps = 1
SPECIFICATION Spec
PROPERTIES ReapsOnlyDeadRoutes
CHECK_DEADLOCK FALSE
