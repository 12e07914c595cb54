SPECIFICATION InputSpec
CONSTANTS
  Controls = {1}
  Codes = {shift, letter}
  Modifier = shift
  SteadyFaces = TRUE
  Captures = {}
  LocalEnds = TRUE
  Refusing = {}
  EventCap = 1
  MaxLeases = 2
INVARIANTS NoKeyStuck
