CONSTANTS
  alice = alice
  bob = bob
  a1 = a1
  a2 = a2
  b1 = b1
  Techs = {alice, bob}
  Sessions = {a1, a2, b1}
  Dialer <- MCDialer
  Answers <- MCAnswers
  MaxPending = 1
  GrantSpan = 1
  MaxTime = 1
  MaxMishaps = 1
SPECIFICATION Spec
PROPERTIES RestartNeverWidens
