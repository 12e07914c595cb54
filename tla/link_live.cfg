CONSTANTS
  source = source
  sink = sink
  Source = source
  Sink = sink
  Offerers = {sink}
  Picture = TRUE
  Faults = {"lose", "lapse", "reboot"}
  Relinked = {sink}
  MaxOffers = 1
  MaxMishaps = 2
  Room = 2
  KeyedEntries = TRUE
  MaxLag = 2
  MaxSnags = 2
  Dials = {}
  OnWire = 0
SPECIFICATION MCSpec
INVARIANTS PictureIsWhole
PROPERTIES UnwantedCaptureEnds CaptureEndsWithConsent PictureReturns
CHECK_DEADLOCK FALSE
