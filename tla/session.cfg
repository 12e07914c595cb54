CONSTANTS
  r1 = r1
  r2 = r2
  r3 = r3
  bare = bare
  suffixed = suffixed
  NoTerm = NoTerm
  Routes <- MCRoutes
  NodeIds <- MCNodeIds
  Canon <- MCCanon
  Terms = {t1}
  AutoAccept = TRUE
  ReofferLive = FALSE
  MaxKept = 1
  Items = 2
  MaxTroubles = 3
  v1 = v1
  v2 = v2
  Viewers <- MCViewers
  MaxShells = 1
  Cap = 1
  Sizes = {1}
  Placeholder = 2
  MaxTimers = 2
  MaxLeaving = 2
  Halves = {1, 2}
  Window = 1
  Cli = 2
  Reaches <- MCReaches
  MaxReleases = 3
  MaxWrecks = 1
SPECIFICATION HostSpec
INVARIANTS HostTypeOK OutcomeIsTrue NoShellForgotten ToldSizeFits
PROPERTIES PruneTakesOldestCompleted BoundTermSurvivesOffers NoMediaWithReapedMachine ImplementsLife NeverRollsBack
SYMMETRY RouteSymmetry
