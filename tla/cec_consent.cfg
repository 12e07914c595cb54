SPECIFICATION SupportSpec
CONSTANTS
  alice = alice
  bob = bob
  a1 = a1
  a2 = a2
  b1 = b1
  Techs = {alice, bob}
  Sessions = {a1, a2, b1}
  Dialer <- MCDialer
  Answers <- MCOnce
  MaxPending = 1
  GrantSpan = 1
  MaxTime = 1
  MaxMishaps = 1
  shift = shift
  desk1 = desk1
  desk2 = desk2
  Controls = {1}
  Codes = {shift}
  Modifier = shift
  SteadyFaces = TRUE
  Captures = {desk1, desk2}
  LocalEnds = TRUE
  Refusing = {"wayland"}
  EventCap = 1
  MaxLeases = 2
SYMMETRY Alike
INVARIANTS SupportTypeOK StandingIsSaved ActiveIsBound NoKeyForgotten
PROPERTIES RightsGrowByDecision
